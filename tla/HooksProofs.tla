------------------------------ MODULE HooksProofs ------------------------------
(***************************************************************************)
(* The descriptor table and the hooks: type correctness, the buffer of     *)
(* getdents and listings without gaps for all values of the constants and  *)
(* any threads; numbers of descriptors for any threads before the numbers  *)
(* start again, and for one thread in any round.                           *)
(***************************************************************************)
EXTENDS Hooks, FiniteSetTheorems, SequenceTheorems, WellFoundedInduction, TLAPS

USE FdAssumption, HookAssumption

-------------------------------------------------------------------------------
(* Numbers. *)

\* A set of integers that is not empty and bounded from above has a largest.
LEMMA LargestInteger ==
    ASSUME NEW S \in SUBSET Int, NEW b \in Int, S # {}, \A i \in S : i <= b
    PROVE  \E m \in S : \A i \in S : i <= m
<1>. DEFINE R == {ss \in Nat \X Nat : ss[1] < ss[2]}
            D == {b - i : i \in S}
<1>1. IsWellFoundedOn(R, Nat)
  BY NatLessThanWellFounded, Zenon DEF OpToRel
<1>2. D \subseteq Nat /\ D # {}
  <2>1. ASSUME NEW i \in S PROVE b - i \in Nat
    OBVIOUS
  <2>. QED
    BY <2>1
<1>3. PICK x \in D : \A y \in D : <<y, x>> \notin R
  <2>. HIDE DEF D, R
  <2>. QED
    BY <1>1, <1>2, WFMin
<1>4. \A y \in D : x <= y
  <2>1. ASSUME NEW y \in D PROVE x <= y
    <3>1. x \in Nat /\ y \in Nat
      <4>. HIDE DEF D
      <4>. QED BY <1>2, <1>3
    <3>2. ~(y < x)
      <4>. HIDE DEF D
      <4>. QED BY <1>3, <3>1
    <3>. QED BY ONLY <3>1, <3>2
  <2>. QED BY <2>1
<1>5. PICK m \in S : x = b - m
  BY <1>3
<1>6. ASSUME NEW i \in S PROVE i <= m
  <2>1. b - i \in D
    OBVIOUS
  <2>2. b - m <= b - i
    BY <2>1, <1>4, <1>5
  <2>. QED
    BY <2>2
<1>. QED
  BY <1>6

\* Unsigned arithmetic: an int and its unsigned value.
LEMMA Unsigned ==
    /\ \A i \in Int : AsUnsigned(i) \in 0 .. UIntRange - 1
    /\ \A i \in 0 .. UIntRange - 1 : AsUnsigned(i) = i
    /\ \A i \in Int : 0 - UIntRange <= i /\ i < 0 => AsUnsigned(i) = i + UIntRange
<1>. USE DEF AsUnsigned
<1>1. UIntRange \in Nat \ {0}
  OBVIOUS
<1>2. ASSUME NEW i \in Int PROVE i % UIntRange \in 0 .. UIntRange - 1
  BY ONLY <1>1, i \in Int
<1>3. ASSUME NEW i \in 0 .. UIntRange - 1 PROVE i % UIntRange = i
  BY ONLY <1>1, i \in 0 .. UIntRange - 1
<1>4. ASSUME NEW i \in Int, 0 - UIntRange <= i, i < 0 PROVE i % UIntRange = i + UIntRange
  BY ONLY <1>1, <1>4
<1>. QED
  BY <1>2, <1>3, <1>4

\* What is left of a buffer of n bytes after w of them, in the arithmetic of the
\* loop: the size has become an int, and the difference unsigned again.
LEMMA RoomLeft ==
    ASSUME NEW n \in 0 .. UIntRange - 1, NEW w \in 0 .. n
    PROVE  AsInt(n) \in Int /\ AsUnsigned(AsInt(n) - w) = n - w
<1>1. UIntRange \in Nat \ {0} /\ n \in Nat /\ w \in Nat /\ w <= n /\ n < UIntRange
  OBVIOUS
<1>2. CASE 2 * n >= UIntRange
  <2>1. AsInt(n) = n - UIntRange
    BY <1>2 DEF AsInt
  <2>2. /\ n - UIntRange - w \in Int /\ 0 - UIntRange <= n - UIntRange - w
        /\ n - UIntRange - w < 0 /\ (n - UIntRange - w) + UIntRange = n - w
    BY ONLY <1>1
  <2>. QED
    BY <1>1, <2>1, <2>2, Unsigned
<1>3. CASE ~(2 * n >= UIntRange)
  <2>1. AsInt(n) = n
    BY <1>3 DEF AsInt
  <2>2. n - w \in 0 .. UIntRange - 1 /\ n \in Int
    BY ONLY <1>1
  <2>. QED
    BY <2>1, <2>2, Unsigned
<1>. QED
  BY <1>2, <1>3

\* Records have a size.
LEMMA RecLenNat ==
    ASSUME NEW pc, NEW n \in Nat
    PROVE  RecLen(pc, n) \in Nat
BY DEF RecLen, ALIGN

-------------------------------------------------------------------------------
(* Types, the buffer of getdents, and listings. *)

\* What a call holds: a number once it has one, an object once get_dir has found
\* it; for getdents the caller's size as an int, and no more bytes written than
\* it has; and the entries before the position that it goes on from, or will
\* set, are handed out.
CallOK(t) ==
    /\ thr[t].pc \in {"check", "exist", "regen", "insert", "remove", "dup2flag", "fstat",
                      "getdir", "getdir64"} => thr[t].fd \in Fds
    /\ thr[t].pc \in {"dents", "dents64", "fill", "fill64", "setpos"} => thr[t].file \in FileIds
    /\ thr[t].pc \in {"getdir", "dents", "fill"} =>
          thr[t].room = AsInt(thr[t].user) /\ thr[t].user < UIntRange
    /\ thr[t].pc = "fill" => thr[t].written <= thr[t].user
    /\ thr[t].pc \in {"fill", "fill64", "setpos"} => 1 .. thr[t].pos \subseteq seen[thr[t].file]

HooksInv == TypeOK /\ NothingSkipped /\ \A t \in Threads : CallOK(t)

\* The facts about numbers and ids that the steps need.
LEMMA Numbers ==
    /\ StartFd \in Fds /\ MaxFd \in Fds /\ NoFd \notin Fds /\ NoFile \notin FileIds
    /\ Fds \subseteq Nat /\ FileIds \subseteq Nat
    /\ \A fd \in Fds : fd # MaxFd => fd + 1 \in Fds
BY DEF Fds, FileIds, NoFd, NoFile

\* Initially the variables have their types, and no call runs.
LEMMA InitHooks == Init => HooksInv
<1>. SUFFICES ASSUME Init PROVE HooksInv
  OBVIOUS
<1>1. thr \in [Threads -> [pc : PCs, fd : Fds \cup {NoFd}, file : FileIds \cup {NoFile}, room : Int,
                           user : Nat, pos : Nat, written : Nat]]
  BY DEF Init, Idle, PCs
<1>2. objs \in [FileIds -> [type : {"regular", "directory"}, pos : Nat, entries : Seq(Nat)]]
  BY DEF Init, OpenFile
<1>3. seen \in [FileIds -> SUBSET Nat]
  BY DEF Init
<1>4. TypeOK
  BY <1>1, <1>2, <1>3, Numbers DEF Init, TableInit, TypeOK
<1>5. ASSUME NEW t \in Threads PROVE CallOK(t)
  <2>1. thr[t].pc = "idle"
    BY DEF Init, Idle
  <2>. QED
    BY <2>1 DEF CallOK
<1>6. ASSUME NEW f \in FileIds PROVE 1 .. objs[f].pos \subseteq seen[f]
  <2>1. objs[f].pos = 0
    BY DEF Init, OpenFile
  <2>. QED
    BY <2>1
<1>. QED
  BY <1>4, <1>5, <1>6 DEF HooksInv, NothingSkipped

\* The types of a call and of an object.
Calling == [pc : PCs, fd : Fds \cup {NoFd}, file : FileIds \cup {NoFile}, room : Int,
            user : Nat, pos : Nat, written : Nat]
Object == [type : {"regular", "directory"}, pos : Nat, entries : Seq(Nat)]

\* A step of thread t leaves the calls of the others alone, and takes nothing off
\* the lists of the objects that they hold.
Frame(t) ==
    /\ thr' = [thr EXCEPT ![t] = thr'[t]]
    /\ \A f \in Live : f \in FileIds => seen[f] \subseteq seen'[f]

\* Which leaves to show what the step does to its own call.
LEMMA FrameKeeps ==
    ASSUME HooksInv, NEW t \in Threads, Frame(t), TypeOK', NothingSkipped', CallOK(t)'
    PROVE  HooksInv'
<1>1. ASSUME NEW u \in Threads, u # t PROVE CallOK(u)'
  <2>1. thr'[u] = thr[u]
    BY <1>1 DEF Frame, HooksInv, TypeOK
  <2>2. thr[u].file \in FileIds => seen[thr[u].file] \subseteq seen'[thr[u].file]
    BY DEF Frame, Live
  <2>3. CallOK(u)
    BY DEF HooksInv
  <2>4. thr[u].pc \in {"fill", "fill64", "setpos"} => 1 .. thr[u].pos \subseteq seen'[thr[u].file]
    BY <2>2, <2>3 DEF CallOK
  <2>. QED
    BY <2>1, <2>3, <2>4 DEF CallOK
<1>. QED
  BY <1>1 DEF HooksInv

\* Steps that change the table and one call, and no object.
LEMMA TableKeeps ==
    ASSUME HooksInv, NEW t \in Threads, UNCHANGED <<objs, seen>>, dead' \in BOOLEAN,
           thr' = [thr EXCEPT ![t] = thr'[t]], thr'[t] \in Calling, CallOK(t)',
           files' \in [Fds -> FileIds \cup {NoFile}], fdIdx' \in Fds, validate' \in BOOLEAN,
           owner' \in Threads \cup {NoThread}
    PROVE  HooksInv'
<1>1. thr' \in [Threads -> Calling]
  BY DEF HooksInv, TypeOK, Calling
<1>2. TypeOK'
  BY <1>1 DEF HooksInv, TypeOK, Calling
<1>3. Frame(t)
  BY DEF Frame
<1>4. NothingSkipped'
  BY DEF HooksInv, NothingSkipped
<1>. QED
  BY <1>2, <1>3, <1>4, FrameKeeps

\* A thread between two calls has the type of a call.
LEMMA IdleCall == Idle \in Calling
BY DEF Idle, Calling, PCs

\* The types, in the form in which the steps use them.
LEMMA CallTypes ==
    ASSUME HooksInv
    PROVE  /\ thr \in [Threads -> Calling] /\ objs \in [FileIds -> Object]
           /\ files \in [Fds -> FileIds \cup {NoFile}] /\ fdIdx \in Fds /\ validate \in BOOLEAN
           /\ owner \in Threads \cup {NoThread} /\ dead \in BOOLEAN
           /\ seen \in [FileIds -> SUBSET Nat]
BY DEF HooksInv, TypeOK, Calling, Object

\* hook_close, hook_fstat: exist(fd).
LEMMA ExistKeeps ==
    ASSUME HooksInv, NEW t \in Threads, NEW fd \in Fds, NEW nextPc \in {"remove", "fstat"},
           exist(t, fd, nextPc)
    PROVE  HooksInv'
<1>. USE CallTypes
<1>1. thr'[t] = [thr[t] EXCEPT !.pc = nextPc, !.fd = fd, !.file = files[fd]]
  BY DEF exist
<1>2. thr'[t] \in Calling
  <2>1. thr[t] \in Calling /\ files[fd] \in FileIds \cup {NoFile} /\ nextPc \in PCs
    BY DEF PCs
  <2>. QED
    BY ONLY <1>1, <2>1, fd \in Fds DEF Calling
<1>3. thr'[t].pc = nextPc /\ thr'[t].fd = fd
  BY <1>1 DEF Calling
<1>4. CallOK(t)'
  BY <1>3 DEF CallOK
<1>5. thr' = [thr EXCEPT ![t] = thr'[t]]
  BY <1>1 DEF exist
<1>. QED
  BY <1>2, <1>4, <1>5, TableKeeps DEF exist

\* Returning from a call.
LEMMA ReturnKeeps ==
    ASSUME HooksInv, NEW t \in Threads, Return(t), UNCHANGED <<objs, seen>>, dead' \in BOOLEAN,
           files' \in [Fds -> FileIds \cup {NoFile}], fdIdx' \in Fds, validate' \in BOOLEAN,
           owner' \in Threads \cup {NoThread}
    PROVE  HooksInv'
<1>. USE CallTypes
<1>1. thr'[t] = Idle
  BY DEF Return
<1>2. CallOK(t)'
  BY <1>1 DEF CallOK, Idle
<1>3. thr' = [thr EXCEPT ![t] = thr'[t]]
  BY <1>1 DEF Return
<1>. QED
  BY <1>1, <1>2, <1>3, IdleCall, TableKeeps

\* getdents and getdents64 start.
LEMMA GetdentsKeeps ==
    ASSUME HooksInv, NEW t \in Threads, NEW fd \in Fds, hook_getdents(t, fd) \/ hook_getdents64(t, fd)
    PROVE  HooksInv'
<1>. USE CallTypes
<1>1. CASE hook_getdents(t, fd)
  <2>1. PICK n \in Sizes : thr' = [thr EXCEPT ![t] = [Idle EXCEPT !.pc = "getdir", !.fd = fd,
                                                            !.room = AsInt(n), !.user = n]]
    BY <1>1 DEF hook_getdents
  <2>2. thr'[t] = [Idle EXCEPT !.pc = "getdir", !.fd = fd, !.room = AsInt(n), !.user = n]
    BY <2>1
  <2>3. n \in 0 .. UIntRange - 1 /\ n \in Nat /\ n < UIntRange /\ AsInt(n) \in Int
    <3>1. n \in 0 .. UIntRange - 1 /\ UIntRange \in Nat
      OBVIOUS
    <3>. QED
      BY ONLY <3>1 DEF AsInt
  <2>4. /\ thr'[t] \in Calling /\ thr'[t].pc = "getdir" /\ thr'[t].fd = fd
        /\ thr'[t].room = AsInt(n) /\ thr'[t].user = n
    <3>1. "getdir" \in PCs
      BY DEF PCs
    <3>2. thr'[t] \in Calling
      BY ONLY <2>2, <2>3, <3>1, IdleCall, fd \in Fds DEF Calling
    <3>3. thr'[t].pc = "getdir" /\ thr'[t].fd = fd /\ thr'[t].room = AsInt(n) /\ thr'[t].user = n
      BY ONLY <2>2 DEF Idle
    <3>. QED
      BY <3>2, <3>3
  <2>5. CallOK(t)'
    BY <2>3, <2>4 DEF CallOK
  <2>6. thr' = [thr EXCEPT ![t] = thr'[t]]
    BY <2>1, <2>2
  <2>. QED
    BY <1>1, <2>4, <2>5, <2>6, TableKeeps DEF hook_getdents
<1>2. CASE hook_getdents64(t, fd)
  <2>1. PICK r \in Registers :
           thr' = [thr EXCEPT ![t] = [Idle EXCEPT !.pc = "getdir64", !.fd = fd, !.room = AsInt(r)]]
    BY <1>2 DEF hook_getdents64
  <2>2. thr'[t] = [Idle EXCEPT !.pc = "getdir64", !.fd = fd, !.room = AsInt(r)]
    BY <2>1
  <2>3. AsInt(r) \in Int
    <3>1. r \in 0 .. UIntRange - 1 /\ UIntRange \in Nat
      OBVIOUS
    <3>. QED
      BY ONLY <3>1 DEF AsInt
  <2>4. thr'[t] \in Calling /\ thr'[t].pc = "getdir64" /\ thr'[t].fd = fd
    BY ONLY <2>2, <2>3, IdleCall, fd \in Fds DEF Calling, PCs
  <2>5. CallOK(t)'
    BY <2>4 DEF CallOK
  <2>6. thr' = [thr EXCEPT ![t] = thr'[t]]
    BY <2>1, <2>2
  <2>. QED
    BY <1>2, <2>4, <2>5, <2>6, TableKeeps DEF hook_getdents64
<1>. QED
  BY <1>1, <1>2

\* Where the two leave their thread.
LEMMA DentsCall ==
    ASSUME HooksInv, NEW t \in Threads, NEW fd \in Fds, hook_getdents(t, fd) \/ hook_getdents64(t, fd)
    PROVE  thr'[t].pc \in {"getdir", "getdir64"} /\ thr' = [thr EXCEPT ![t] = thr'[t]]
<1>. USE CallTypes
<1>1. CASE hook_getdents(t, fd)
  <2>1. PICK n \in Sizes : thr' = [thr EXCEPT ![t] = [Idle EXCEPT !.pc = "getdir", !.fd = fd,
                                                            !.room = AsInt(n), !.user = n]]
    BY <1>1 DEF hook_getdents
  <2>. QED
    BY <2>1 DEF Idle
<1>2. CASE hook_getdents64(t, fd)
  <2>1. PICK r \in Registers :
           thr' = [thr EXCEPT ![t] = [Idle EXCEPT !.pc = "getdir64", !.fd = fd, !.room = AsInt(r)]]
    BY <1>2 DEF hook_getdents64
  <2>. QED
    BY <2>1 DEF Idle
<1>. QED
  BY <1>1, <1>2

\* get_dir finds the object, or the call ends.
LEMMA GetDirKeeps ==
    ASSUME HooksInv, NEW t \in Threads, get_dir(t)
    PROVE  HooksInv'
<1>. USE CallTypes
<1>. DEFINE f == files[thr[t].fd]
<1>1. thr[t].pc \in {"getdir", "getdir64"} /\ CallOK(t)
  BY DEF get_dir, HooksInv
<1>2. thr[t].fd \in Fds
  BY <1>1 DEF CallOK
<1>3. CASE Return(t)
  BY <1>3, ReturnKeeps DEF get_dir
<1>4. CASE ~Return(t)
  <2>1. /\ f # NoFile
        /\ thr' = [thr EXCEPT ![t].file = f, ![t].pc = IF @ = "getdir" THEN "dents" ELSE "dents64"]
    BY <1>4 DEF get_dir
  <2>2. f \in FileIds
    BY <1>2, <2>1
  <2>3. thr'[t] = [thr[t] EXCEPT !.file = f, !.pc = IF @ = "getdir" THEN "dents" ELSE "dents64"]
    BY <2>1
  <2>4. thr' = [thr EXCEPT ![t] = thr'[t]]
    BY <2>1, <2>3
  <2>5. thr'[t] \in Calling
    <3>1. thr[t] \in Calling /\ {"dents", "dents64"} \subseteq PCs
      BY DEF PCs
    <3>. HIDE DEF f
    <3>. QED
      BY ONLY <2>2, <2>3, <3>1 DEF Calling
  <2>6. /\ thr'[t].pc = IF thr[t].pc = "getdir" THEN "dents" ELSE "dents64"
        /\ thr'[t].file = f /\ thr'[t].room = thr[t].room /\ thr'[t].user = thr[t].user
    <3>1. thr[t] \in Calling
      OBVIOUS
    <3>. HIDE DEF f
    <3>. QED
      BY ONLY <2>3, <3>1 DEF Calling
  <2>7. CallOK(t)'
    BY <1>1, <2>2, <2>6 DEF CallOK
  <2>. QED
    BY <2>4, <2>5, <2>7, TableKeeps DEF get_dir
<1>. QED
  BY <1>3, <1>4

\* get_pos, put_dent and end_dents leave the table and the objects alone, and move
\* their own thread along.
LEMMA DentsSteps ==
    ASSUME HooksInv, NEW t \in Threads, get_pos(t) \/ put_dent(t) \/ end_dents(t)
    PROVE  /\ UNCHANGED <<files, fdIdx, validate, owner, objs, dead>>
           /\ thr[t].pc \in {"dents", "dents64", "fill", "fill64"}
           /\ thr' = [thr EXCEPT ![t] = thr'[t]]
           /\ thr'[t].pc \in {"idle", "fill", "fill64", "setpos"}
<1>0. thr \in [Threads -> Calling] /\ thr[t] \in Calling
  BY CallTypes
<1>1. /\ UNCHANGED <<files, fdIdx, validate, owner, objs, dead>>
      /\ thr[t].pc \in {"dents", "dents64", "fill", "fill64"}
  BY DEF get_pos, put_dent, end_dents
<1>2. CASE Return(t)
  BY <1>0, <1>1, <1>2 DEF Return, Idle
<1>3. CASE ~Return(t) /\ get_pos(t)
  <2>1. PICK n : thr' = [thr EXCEPT ![t].pos = n, ![t].written = 0,
                                    ![t].pc = IF @ = "dents" THEN "fill" ELSE "fill64"]
    BY <1>3, Zenon DEF get_pos
  <2>. QED
    BY <1>0, <1>1, <2>1 DEF Calling
<1>4. CASE ~Return(t) /\ end_dents(t)
  BY <1>0, <1>1, <1>4 DEF end_dents, Calling
<1>5. CASE put_dent(t)
  <2>1. PICK w : thr' = [thr EXCEPT ![t].pos = @ + 1, ![t].written = w]
    BY <1>5, Zenon DEF put_dent
  <2>2. thr[t].pc \in {"fill", "fill64"}
    BY <1>5 DEF put_dent
  <2>. QED
    BY <1>0, <1>1, <2>1, <2>2 DEF Calling
<1>. QED
  BY <1>2, <1>3, <1>4, <1>5

\* get_pos: the entries before the position are handed out already.
LEMMA GetPosKeeps ==
    ASSUME HooksInv, NEW t \in Threads, get_pos(t)
    PROVE  HooksInv'
<1>. USE CallTypes
<1>. DEFINE d == objs[thr[t].file]
<1>1. thr[t].pc \in {"dents", "dents64"} /\ thr[t].file \in FileIds /\ CallOK(t) /\ thr[t] \in Calling
  BY DEF get_pos, HooksInv, CallOK
<1>2. CASE Return(t)
  BY <1>2, ReturnKeeps DEF get_pos
<1>3. CASE ~Return(t)
  <2>1. d \in Object /\ d.pos \in Nat /\ 1 .. d.pos \subseteq seen[thr[t].file]
    BY <1>1 DEF HooksInv, NothingSkipped, Object
  <2>2. thr' = [thr EXCEPT ![t].pos = d.pos, ![t].written = 0,
                           ![t].pc = IF @ = "dents" THEN "fill" ELSE "fill64"]
    BY <1>3 DEF get_pos
  <2>. HIDE DEF d
  <2>3. thr'[t] = [thr[t] EXCEPT !.pos = d.pos, !.written = 0,
                                 !.pc = IF @ = "dents" THEN "fill" ELSE "fill64"]
    BY <2>2
  <2>4. thr'[t] \in Calling
    <3>1. {"fill", "fill64"} \subseteq PCs /\ 0 \in Nat
      BY DEF PCs
    <3>. QED
      BY ONLY <1>1, <2>1, <2>3, <3>1 DEF Calling
  <2>5. /\ thr'[t].pc = IF thr[t].pc = "dents" THEN "fill" ELSE "fill64"
        /\ thr'[t].file = thr[t].file /\ thr'[t].room = thr[t].room /\ thr'[t].user = thr[t].user
        /\ thr'[t].pos = d.pos /\ thr'[t].written = 0 /\ thr[t].user \in Nat
    BY ONLY <1>1, <2>3 DEF Calling
  <2>6. seen' = seen
    BY DEF get_pos
  <2>7. CallOK(t)'
    BY <1>1, <2>1, <2>5, <2>6 DEF CallOK
  <2>. QED
    BY <2>4, <2>6, <2>7, DentsSteps, TableKeeps
<1>. QED
  BY <1>2, <1>3

\* end_dents keeps the position that the loop has reached.
LEMMA EndDentsKeeps ==
    ASSUME HooksInv, NEW t \in Threads, end_dents(t)
    PROVE  HooksInv'
<1>. USE CallTypes
<1>1. thr[t].pc \in {"fill", "fill64"} /\ CallOK(t) /\ thr[t] \in Calling
  BY DEF end_dents, HooksInv
<1>2. CASE Return(t)
  BY <1>2, ReturnKeeps DEF end_dents
<1>3. CASE ~Return(t)
  <2>1. thr' = [thr EXCEPT ![t].pc = "setpos"] /\ seen' = seen
    BY <1>3 DEF end_dents
  <2>2. thr'[t] = [thr[t] EXCEPT !.pc = "setpos"] /\ "setpos" \in PCs
    BY <2>1 DEF PCs
  <2>3. /\ thr'[t] \in Calling /\ thr'[t].pc = "setpos"
        /\ thr'[t].file = thr[t].file /\ thr'[t].pos = thr[t].pos
    BY ONLY <1>1, <2>2 DEF Calling
  <2>4. CallOK(t)'
    BY <1>1, <2>1, <2>3 DEF CallOK
  <2>. QED
    BY <2>1, <2>3, <2>4, DentsSteps, TableKeeps
<1>. QED
  BY <1>2, <1>3

\* A record that the loop writes lies within the caller's buffer, and so do the
\* bytes written after it.
LEMMA RecordFits ==
    ASSUME HooksInv, NEW t \in Threads, thr[t].pc \in {"fill", "fill64"}, HasRoom(t)
    PROVE  /\ total_size(t) \in Nat
           /\ AsUnsigned(thr[t].written + total_size(t)) \in Nat
           /\ thr[t].pc = "fill" =>
                 /\ thr[t].written + total_size(t) <= thr[t].user
                 /\ AsUnsigned(thr[t].written + total_size(t)) <= thr[t].user
<1>. USE CallTypes
<1>. DEFINE d == objs[thr[t].file]
            n == thr[t].user
            w == thr[t].written
            size == total_size(t)
<1>1. thr[t].file \in FileIds /\ CallOK(t) /\ thr[t] \in Calling
  BY DEF HooksInv, CallOK
<1>2. d \in Object /\ thr[t].pos \in Nat /\ n \in Nat /\ w \in Nat
  BY <1>1 DEF Calling
<1>3. size \in Nat
  <2>1. d.entries[thr[t].pos + 1] \in Nat
    <3>1. d.entries \in Seq(Nat) /\ thr[t].pos < Len(d.entries)
      BY <1>2 DEF Object, HasRoom
    <3>. HIDE DEF d
    <3>. QED
      BY ONLY <1>2, <3>1
  <2>. QED
    BY <2>1, RecLenNat DEF total_size
<1>4. AsUnsigned(w + size) \in 0 .. UIntRange - 1
  <2>1. w + size \in Int
    BY ONLY <1>2, <1>3
  <2>. HIDE DEF w, size
  <2>. QED
    BY <2>1, Unsigned
<1>5. ASSUME thr[t].pc = "fill" PROVE w + size <= n /\ AsUnsigned(w + size) <= n
  <2>1. thr[t].room = AsInt(n) /\ n < UIntRange /\ w <= n
    BY <1>1, <1>5 DEF CallOK
  <2>2. AsUnsigned(AsInt(n) - w) = n - w
    <3>1. n \in 0 .. UIntRange - 1 /\ w \in 0 .. n
      <4>1. UIntRange \in Nat
        OBVIOUS
      <4>. HIDE DEF n, w
      <4>. QED
        BY ONLY <1>2, <2>1, <4>1
    <3>. HIDE DEF n, w
    <3>. QED
      BY ONLY <3>1, RoomLeft
  <2>3. ~(size > n - w)
    BY <2>1, <2>2 DEF HasRoom
  <2>. HIDE DEF n, w, size
  <2>4. w + size <= n /\ w + size \in 0 .. UIntRange - 1
    <3>1. UIntRange \in Nat
      OBVIOUS
    <3>. QED
      BY ONLY <1>2, <1>3, <2>1, <2>3, <3>1
  <2>5. AsUnsigned(w + size) = w + size
    BY ONLY <2>4, Unsigned
  <2>. QED
    BY ONLY <2>4, <2>5
<1>6. AsUnsigned(w + size) \in Nat
  <2>1. UIntRange \in Nat
    OBVIOUS
  <2>. HIDE DEF w, size
  <2>. QED
    BY ONLY <1>4, <2>1
<1>. QED
  BY <1>3, <1>5, <1>6

\* put_dent: one entry more, handed out.
LEMMA PutDentKeeps ==
    ASSUME HooksInv, NEW t \in Threads, put_dent(t)
    PROVE  HooksInv'
<1>. USE CallTypes
<1>. DEFINE f == thr[t].file
            w == AsUnsigned(thr[t].written + total_size(t))
<1>1. /\ thr[t].pc \in {"fill", "fill64"} /\ HasRoom(t) /\ CallOK(t) /\ thr[t] \in Calling
      /\ f \in FileIds /\ thr[t].pos \in Nat
  BY DEF put_dent, HooksInv, CallOK, Calling
<1>2. /\ thr' = [thr EXCEPT ![t].pos = @ + 1, ![t].written = w]
      /\ seen' = [seen EXCEPT ![f] = @ \cup {thr[t].pos + 1}]
      /\ UNCHANGED <<files, fdIdx, validate, owner, objs, dead>>
  BY DEF put_dent
<1>3. w \in Nat /\ (thr[t].pc = "fill" => w <= thr[t].user)
  BY <1>1, RecordFits
<1>. HIDE DEF w
<1>4. thr'[t] = [thr[t] EXCEPT !.pos = @ + 1, !.written = w]
  BY <1>2
<1>5. /\ thr'[t] \in Calling /\ thr'[t].pc = thr[t].pc /\ thr'[t].file = f
      /\ thr'[t].room = thr[t].room /\ thr'[t].user = thr[t].user
      /\ thr'[t].pos = thr[t].pos + 1 /\ thr'[t].written = w
  <2>1. PICK n \in Nat : n = thr[t].pos + 1
    BY <1>1
  <2>2. thr'[t] = [thr[t] EXCEPT !.pos = n, !.written = w]
    BY <1>1, <1>4, <2>1
  <2>3. /\ thr'[t] \in Calling /\ thr'[t].pc = thr[t].pc /\ thr'[t].file = thr[t].file
        /\ thr'[t].room = thr[t].room /\ thr'[t].user = thr[t].user
        /\ thr'[t].pos = n /\ thr'[t].written = w
    BY ONLY <1>1, <1>3, <2>2, n \in Nat DEF Calling
  <2>. QED
    BY <2>1, <2>3
<1>6. /\ seen' \in [FileIds -> SUBSET Nat]
      /\ seen'[f] = seen[f] \cup {thr[t].pos + 1}
      /\ \A g \in FileIds : seen[g] \subseteq seen'[g]
  <2>. HIDE DEF f
  <2>. QED
    BY <1>1, <1>2
<1>7. 1 .. thr[t].pos \subseteq seen[f]
  BY <1>1 DEF CallOK
<1>8. 1 .. thr'[t].pos \subseteq seen'[f]
  <2>. HIDE DEF f
  <2>. QED
    BY ONLY <1>1, <1>5, <1>6, <1>7
<1>9. CallOK(t)'
  BY <1>1, <1>3, <1>5, <1>8 DEF CallOK
<1>10. TypeOK'
  <2>1. thr' \in [Threads -> Calling]
    BY <1>2, <1>4, <1>5
  <2>. QED
    BY <1>2, <1>6, <2>1 DEF HooksInv, TypeOK, Calling
<1>11. NothingSkipped'
  BY <1>2, <1>6 DEF HooksInv, NothingSkipped
<1>12. Frame(t)
  BY <1>2, <1>4, <1>6 DEF Frame
<1>. QED
  BY <1>9, <1>10, <1>11, <1>12, FrameKeeps

\* set_pos moves the position to where the call has listed, or back to it.
LEMMA SetPosKeeps ==
    ASSUME HooksInv, NEW t \in Threads, set_pos(t)
    PROVE  HooksInv'
<1>. USE CallTypes
<1>1. thr[t].file \in FileIds /\ thr[t] \in Calling
  BY DEF set_pos, HooksInv, CallOK
<1>2. objs' = [objs EXCEPT ![thr[t].file].pos = thr[t].pos] /\ thr[t].pos \in Nat
  BY <1>1 DEF set_pos, Calling
<1>3. \A f \in FileIds : /\ objs'[f] \in Object
                         /\ objs'[f].pos = IF f = thr[t].file THEN thr[t].pos ELSE objs[f].pos
  BY <1>1, <1>2 DEF Object
<1>4. objs' \in [FileIds -> Object]
  BY <1>2, <1>3
<1>5. thr' = [thr EXCEPT ![t] = Idle] /\ thr'[t] = Idle
  BY DEF set_pos, Return
<1>6. CallOK(t)'
  BY <1>5 DEF CallOK, Idle
<1>7. TypeOK'
  <2>1. thr' \in [Threads -> Calling]
    BY <1>5, IdleCall
  <2>. QED
    BY <1>4, <2>1 DEF set_pos, HooksInv, TypeOK, Calling, Object
<1>8. Frame(t) /\ seen' = seen
  BY <1>5 DEF Frame, set_pos
<1>9. NothingSkipped'
  <2>1. 1 .. thr[t].pos \subseteq seen[thr[t].file]
    BY DEF set_pos, HooksInv, CallOK
  <2>. QED
    BY <1>3, <1>8, <2>1 DEF HooksInv, NothingSkipped
<1>. QED
  BY <1>6, <1>7, <1>8, <1>9, FrameKeeps

\* hook_openat takes an object that nobody refers to.
LEMMA OpenKeeps ==
    ASSUME HooksInv, NEW t \in Threads, NEW type \in {"regular", "directory"},
           NEW entries \in Listings \cup {<<>>}, hook_openat(t, type, entries)
    PROVE  HooksInv'
<1>. USE CallTypes
<1>. DEFINE free == FileIds \ Live
            f == CHOOSE i \in free : \A j \in free : i <= j
<1>1. /\ thr[t].pc = "idle" /\ free # {}
      /\ objs' = [objs EXCEPT ![f] = OpenFile(type, entries)]
      /\ seen' = [seen EXCEPT ![f] = {}]
      /\ thr' = [thr EXCEPT ![t].pc = "gen", ![t].file = f]
      /\ UNCHANGED <<files, fdIdx, validate, owner, dead>>
  BY DEF hook_openat, Start
<1>2. f \in free
  <2>1. free \in SUBSET Int /\ \A i \in {0 - j : j \in free} : i <= 0
    BY DEF FileIds
  <2>2. PICK m \in {0 - j : j \in free} : \A i \in {0 - j : j \in free} : i <= m
    <3>. DEFINE S == {0 - j : j \in free}
    <3>1. S \in SUBSET Int /\ S # {} /\ \A i \in S : i <= 0
      BY <1>1, <2>1
    <3>. HIDE DEF S
    <3>2. \E m \in S : \A i \in S : i <= m
      <4>1. 0 \in Int
        OBVIOUS
      <4>. QED
        BY ONLY <3>1, <4>1, LargestInteger
    <3>. QED
      BY <3>2 DEF S
  <2>3. PICK k \in free : m = 0 - k
    BY <2>2
  <2>4. ASSUME NEW j \in free PROVE k <= j
    <3>1. 0 - j <= 0 - k
      BY <2>2, <2>3
    <3>. QED
      BY <2>1, <3>1
  <2>. HIDE DEF free
  <2>. QED
    BY <2>4
<1>. HIDE DEF f
<1>3. f \in FileIds /\ f \notin Live
  BY <1>2
<1>4. OpenFile(type, entries) \in Object
  <2>1. entries \in Seq(Nat)
    <3>1. <<>> \in Seq(Nat)
      OBVIOUS
    <3>. QED
      BY ONLY <3>1, HookAssumption, entries \in Listings \cup {<<>>}
  <2>. QED
    BY <2>1 DEF OpenFile, Object
<1>5. thr[t] \in Calling /\ thr'[t] = [thr[t] EXCEPT !.pc = "gen", !.file = f]
  BY <1>1
<1>6. thr'[t] \in Calling /\ thr'[t].pc = "gen"
  BY <1>3, <1>5 DEF Calling, PCs
<1>7. CallOK(t)'
  BY <1>6 DEF CallOK
<1>8. TypeOK'
  <2>1. thr' \in [Threads -> Calling]
    BY <1>1, <1>5, <1>6
  <2>2. objs' \in [FileIds -> Object]
    BY <1>1, <1>4
  <2>3. seen' \in [FileIds -> SUBSET Nat]
    BY <1>1
  <2>. QED
    BY <1>1, <2>1, <2>2, <2>3 DEF HooksInv, TypeOK, Calling, Object
<1>9. Frame(t)
  BY <1>1, <1>3, <1>5 DEF Frame
<1>10. NothingSkipped'
  <2>1. objs'[f].pos = 0
    BY <1>1, <1>3 DEF OpenFile
  <2>2. \A g \in FileIds : g # f => objs'[g] = objs[g] /\ seen'[g] = seen[g]
    BY <1>1
  <2>3. 1 .. objs'[f].pos \subseteq seen'[f]
    BY <2>1
  <2>. QED
    BY <2>2, <2>3 DEF HooksInv, NothingSkipped
<1>. QED
  BY <1>7, <1>8, <1>9, <1>10, FrameKeeps

\* Taking a number.
LEMMA GenerateKeeps ==
    ASSUME HooksInv, NEW t \in Threads, NEW nextPc \in {"check", "exist"},
           generate_fd_idx(t, nextPc), UNCHANGED <<seen, dead>>
    PROVE  HooksInv'
<1>. USE CallTypes
<1>1. PICK fd \in Fds : /\ fdIdx' = fd + 1 /\ fd # MaxFd
                        /\ thr' = [thr EXCEPT ![t].fd = fd, ![t].pc = nextPc]
  <2>1. StartFd # MaxFd
    OBVIOUS
  <2>. QED
    BY <2>1, Numbers DEF generate_fd_idx
<1>2. fdIdx' \in Fds
  BY <1>1, Numbers
<1>3. validate' \in BOOLEAN
  BY DEF generate_fd_idx
<1>4. thr[t] \in Calling /\ thr'[t] = [thr[t] EXCEPT !.fd = fd, !.pc = nextPc] /\ nextPc \in PCs
  BY <1>1 DEF PCs
<1>5. thr'[t] \in Calling /\ thr'[t].pc = nextPc /\ thr'[t].fd = fd
  BY ONLY <1>4, fd \in Fds DEF Calling
<1>6. CallOK(t)'
  BY <1>5 DEF CallOK
<1>7. thr' = [thr EXCEPT ![t] = thr'[t]]
  BY <1>1, <1>4
<1>. QED
  BY <1>2, <1>3, <1>5, <1>6, <1>7, TableKeeps DEF generate_fd_idx

\* The other steps of add, and remove.
LEMMA AddKeeps ==
    ASSUME HooksInv, NEW t \in Threads, AddStep(t) \/ remove(t), UNCHANGED <<seen, dead>>
    PROVE  HooksInv'
<1>. USE CallTypes
<1>0. CallOK(t)
  BY DEF HooksInv
<1>1. CASE generate_first(t) \/ generate_again(t)
  BY <1>1, GenerateKeeps DEF generate_first, generate_again
<1>2. ASSUME NEW p \in {"exist", "insert", "regen"}, thr' = [thr EXCEPT ![t].pc = p],
             thr[t].pc \in {"check", "exist", "dup2flag"}, validate' \in BOOLEAN,
             UNCHANGED <<files, fdIdx, owner, objs>>
      PROVE  HooksInv'
  <2>1. thr[t] \in Calling /\ thr'[t] = [thr[t] EXCEPT !.pc = p] /\ p \in PCs
    BY <1>2 DEF PCs
  <2>2. thr'[t] \in Calling /\ thr'[t].pc = p /\ thr'[t].fd = thr[t].fd
    BY ONLY <2>1 DEF Calling
  <2>3. CallOK(t)'
    BY <1>0, <1>2, <2>2 DEF CallOK
  <2>4. thr' = [thr EXCEPT ![t] = thr'[t]]
    BY <1>2, <2>1
  <2>. QED
    BY <1>2, <2>2, <2>3, <2>4, TableKeeps
<1>3. CASE check_validation(t)
  BY <1>2, <1>3 DEF check_validation
<1>4. CASE check_exist(t)
  BY <1>2, <1>4 DEF check_exist
<1>5. CASE insert(t)
  <2>1. thr[t].fd \in Fds /\ thr[t].file \in FileIds \cup {NoFile}
    BY <1>0, <1>5 DEF insert, CallOK, Calling
  <2>2. files' \in [Fds -> FileIds \cup {NoFile}]
    BY <1>5, <2>1 DEF insert
  <2>. QED
    BY <1>5, <2>2, ReturnKeeps DEF insert, Return
<1>6. CASE remove(t)
  <2>1. files' \in [Fds -> FileIds \cup {NoFile}]
    BY <1>6 DEF remove, Erased
  <2>2. validate' \in BOOLEAN
    BY <1>6 DEF remove, ValidateAfterErase
  <2>. QED
    BY <1>6, <2>1, <2>2, ReturnKeeps DEF remove, Return
<1>. QED
  BY <1>1, <1>3, <1>4, <1>5, <1>6 DEF AddStep

\* dup and dup2.
LEMMA DupKeeps ==
    ASSUME HooksInv, NEW t \in Threads, DupStep(t)
    PROVE  HooksInv'
<1>. USE CallTypes
<1>1. UNCHANGED <<seen, dead>> /\ thr[t] \in Calling
  BY DEF DupStep
<1>2. ASSUME NEW fd \in Fds, dup(t, fd) PROVE HooksInv'
  <2>1. thr'[t] = [thr[t] EXCEPT !.pc = "gen", !.file = files[fd]]
    BY <1>2 DEF dup
  <2>2. thr'[t] \in Calling /\ thr'[t].pc = "gen"
    <3>1. "gen" \in PCs /\ files[fd] \in FileIds \cup {NoFile}
      BY DEF PCs
    <3>. QED
      BY ONLY <1>1, <2>1, <3>1 DEF Calling
  <2>3. CallOK(t)'
    BY <2>2 DEF CallOK
  <2>4. thr' = [thr EXCEPT ![t] = thr'[t]]
    BY <1>2, <2>1 DEF dup
  <2>. QED
    BY <1>1, <1>2, <2>2, <2>3, <2>4, TableKeeps DEF dup
<1>3. ASSUME NEW fd \in Fds, NEW newfd \in Fds, dup2(t, fd, newfd) PROVE HooksInv'
  <2>1. PICK p \in {"dup2flag", "insert"} :
            thr' = [thr EXCEPT ![t].pc = p, ![t].fd = newfd, ![t].file = files[fd]]
    BY <1>3 DEF dup2
  <2>2. thr'[t] = [thr[t] EXCEPT !.pc = p, !.fd = newfd, !.file = files[fd]]
    BY <2>1
  <2>3. thr'[t] \in Calling /\ thr'[t].pc = p /\ thr'[t].fd = newfd
    <3>1. p \in PCs /\ files[fd] \in FileIds \cup {NoFile}
      BY DEF PCs
    <3>. QED
      BY ONLY <1>1, <2>2, <3>1, newfd \in Fds DEF Calling
  <2>4. CallOK(t)'
    BY <2>3 DEF CallOK
  <2>5. thr' = [thr EXCEPT ![t] = thr'[t]]
    BY <2>1, <2>2
  <2>6. files' \in [Fds -> FileIds \cup {NoFile}]
    BY <1>3 DEF dup2, Erased
  <2>7. validate' \in BOOLEAN
    BY <1>3 DEF dup2, ValidateAfterErase
  <2>. QED
    BY <1>1, <1>3, <2>3, <2>4, <2>5, <2>6, <2>7, TableKeeps DEF dup2
<1>4. CASE dup2_flag(t)
  <2>1. thr'[t] = [thr[t] EXCEPT !.pc = "insert"]
    BY <1>4 DEF dup2_flag
  <2>2. thr'[t] \in Calling /\ thr'[t].pc = "insert" /\ thr'[t].fd = thr[t].fd
    BY ONLY <1>1, <2>1 DEF Calling, PCs
  <2>3. CallOK(t)'
    BY <1>4, <2>2 DEF dup2_flag, HooksInv, CallOK
  <2>4. thr' = [thr EXCEPT ![t] = thr'[t]]
    BY <1>4, <2>1 DEF dup2_flag
  <2>. QED
    BY <1>1, <1>4, <2>2, <2>3, <2>4, TableKeeps DEF dup2_flag
<1>. QED
  BY <1>2, <1>3, <1>4 DEF DupStep

\* The invariant is inductive.
LEMMA HooksInductive ==
    ASSUME HooksInv, [Next]_vars
    PROVE  HooksInv'
<1>1. CASE UNCHANGED vars
  BY <1>1 DEF vars, HooksInv, TypeOK, NothingSkipped, CallOK
<1>2. ASSUME NEW t \in Threads, Step(t) PROVE HooksInv'
  <2>1. ASSUME NEW type \in {"regular", "directory"}, NEW entries \in Listings \cup {<<>>},
               hook_openat(t, type, entries)
        PROVE  HooksInv'
    BY <2>1, OpenKeeps
  <2>2. ASSUME NEW fd \in Fds, hook_close(t, fd) \/ hook_fstat(t, fd) PROVE HooksInv'
    BY <2>2, ExistKeeps DEF hook_close, hook_fstat
  <2>3. ASSUME NEW fd \in Fds, hook_getdents(t, fd) \/ hook_getdents64(t, fd) PROVE HooksInv'
    BY <2>3, GetdentsKeeps
  <2>4. CASE hook_lseek(t)
    BY <1>1, <2>4 DEF hook_lseek
  <2>5. CASE fstat_get(t)
    BY <2>5, CallTypes, ReturnKeeps DEF fstat_get
  <2>6. CASE get_dir(t) \/ get_pos(t) \/ put_dent(t) \/ end_dents(t) \/ set_pos(t)
    BY <2>6, GetDirKeeps, GetPosKeeps, PutDentKeeps, EndDentsKeeps, SetPosKeeps
  <2>7. CASE (AddStep(t) \/ remove(t)) /\ UNCHANGED <<seen, dead>>
    BY <2>7, AddKeeps
  <2>8. CASE DupStep(t)
    BY <2>8, DupKeeps
  <2>. QED
    BY <1>2, <2>1, <2>2, <2>3, <2>4, <2>5, <2>6, <2>7, <2>8 DEF Step
<1>. QED
  BY <1>1, <1>2 DEF Next

\* The hooks keep their variables within their types, whatever the threads call
\* in whatever order, dup2 onto the next number included.
THEOREM HooksTypeOK == Spec => []TypeOK
<1>1. Init => HooksInv
  BY InitHooks
<1>2. HooksInv /\ [Next]_vars => HooksInv'
  BY HooksInductive
<1>3. HooksInv => TypeOK
  BY DEF HooksInv
<1>. QED
  BY <1>1, <1>2, <1>3, PTL DEF Spec

\* Listings have no gaps, for any threads that list, close and open directories in
\* any interleaving: each position that a call sets is one up to which all entries
\* were handed out, by itself or by those whose position it took over
\* (hook_getdents, hook_getdents64).
THEOREM NothingEverSkipped == Spec => []NothingSkipped
<1>1. Init => HooksInv
  BY InitHooks
<1>2. HooksInv /\ [Next]_vars => HooksInv'
  BY HooksInductive
<1>3. HooksInv => NothingSkipped
  BY DEF HooksInv
<1>. QED
  BY <1>1, <1>2, <1>3, PTL DEF Spec

-------------------------------------------------------------------------------
(* Descriptor numbers, for any threads before the numbers start again. *)

\* The numbers do not run out, and no hook calls dup or dup2 (none does so far).
FirstRound == ~MayWrap /\ Calls \cap {"dup", "dup2", "dup2next"} = {}

\* Threads that will take a number, and threads that have taken one.
Gens == {t \in Threads : thr[t].pc = "gen"}
Holds(t) == thr[t].pc \in {"check", "insert"}

\* There are numbers left for those who wait for one, so that the flag is never
\* set, and nobody has to check a number.
NumbersLeft ==
    /\ fdIdx + Cardinality(Gens) < MaxFd
    /\ ~validate
    /\ \A t \in Threads : thr[t].pc \notin {"exist", "regen", "dup2flag"}

\* A number that a thread holds is free and in nobody else's hands, a closing
\* thread's included; no descriptor lies at or above the counter.
Fresh ==
    /\ \A fd \in Fds : files[fd] # NoFile => fd < fdIdx
    /\ \A t \in Threads : Holds(t) =>
          /\ thr[t].fd < fdIdx /\ files[thr[t].fd] = NoFile
          /\ \A u \in Threads \ {t} : Holds(u) \/ thr[u].pc = "remove" => thr[u].fd # thr[t].fd

\* What a close has found is still there, or was removed by another close.
Closing ==
    \A t \in Threads : thr[t].pc = "remove" =>
        thr[t].fd < fdIdx /\ files[thr[t].fd] \in {NoFile, thr[t].file}

RoundInv == HooksInv /\ NumbersLeft /\ Fresh /\ Closing

\* Initially nobody has or waits for a number.
LEMMA InitRound == Init => RoundInv
<1>. SUFFICES ASSUME Init PROVE RoundInv
  OBVIOUS
<1>1. \A t \in Threads : thr[t].pc = "idle"
  BY DEF Init, Idle
<1>2. Gens = {}
  BY <1>1 DEF Gens
<1>3. NumbersLeft
  BY <1>1, <1>2, FS_EmptySet DEF NumbersLeft, Init, TableInit
<1>4. Fresh /\ Closing
  BY <1>1 DEF Fresh, Closing, Holds, Init, TableInit
<1>. QED
  BY <1>3, <1>4, InitHooks DEF RoundInv

\* The number of threads that wait for a number, when t is one of them or not.
LEMMA GensCount ==
    ASSUME HooksInv, NEW t \in Threads, thr' = [thr EXCEPT ![t] = thr'[t]]
    PROVE  /\ Cardinality(Gens) \in Nat
           /\ (thr[t].pc = "gen" <=> thr'[t].pc = "gen") => Gens' = Gens
           /\ thr[t].pc = "gen" /\ thr'[t].pc # "gen" => Cardinality(Gens)' = Cardinality(Gens) - 1
           /\ Cardinality(Gens)' \in Nat /\ Cardinality(Gens)' <= Cardinality(Threads)
           /\ Cardinality(Threads) \in Nat
<1>1. IsFiniteSet(Gens) /\ Cardinality(Gens) \in Nat
  BY FS_Subset, FS_CardinalityType DEF Gens
<1>2. \A u \in Threads : u # t => thr'[u] = thr[u]
  BY DEF HooksInv, TypeOK
<1>3. (thr[t].pc = "gen" <=> thr'[t].pc = "gen") => Gens' = Gens
  BY <1>2 DEF Gens
<1>4. ASSUME thr[t].pc = "gen", thr'[t].pc # "gen"
      PROVE  Cardinality(Gens)' = Cardinality(Gens) - 1
  <2>1. Gens' = Gens \ {t} /\ t \in Gens
    BY <1>2, <1>4 DEF Gens
  <2>2. Cardinality(Gens \ {t}) = Cardinality(Gens) - 1
    BY <1>1, <2>1, FS_RemoveElement
  <2>. QED
    BY <2>1, <2>2
<1>5. Gens' \subseteq Threads
  BY DEF Gens
<1>6. /\ Cardinality(Gens)' \in Nat /\ Cardinality(Gens)' <= Cardinality(Threads)
      /\ Cardinality(Threads) \in Nat
  BY <1>5, FS_Subset, FS_CardinalityType
<1>. QED
  BY <1>1, <1>3, <1>4, <1>6

\* Steps that do not touch the table, of calls that have nothing to do with
\* numbers.
LEMMA QuietRound ==
    ASSUME RoundInv, HooksInv', NEW t \in Threads, thr' = [thr EXCEPT ![t] = thr'[t]],
           UNCHANGED <<files, fdIdx, validate>>,
           thr[t].pc # "gen",
           thr'[t].pc \notin {"gen", "check", "insert", "remove", "exist", "regen", "dup2flag"}
    PROVE  RoundInv'
<1>1. \A u \in Threads : u # t => thr'[u] = thr[u]
  BY DEF RoundInv, HooksInv, TypeOK
<1>2. Gens' = Gens
  BY GensCount DEF RoundInv
<1>3. NumbersLeft'
  BY <1>1, <1>2 DEF RoundInv, NumbersLeft
<1>4. Fresh' /\ Closing'
  BY <1>1 DEF RoundInv, Fresh, Closing, Holds
<1>. QED
  BY <1>3, <1>4 DEF RoundInv

\* open waits for a number only while there are enough for all.
LEMMA OpenRound ==
    ASSUME FirstRound, RoundInv, HooksInv', NEW t \in Threads, NEW type, NEW entries,
           hook_openat(t, type, entries)
    PROVE  RoundInv'
<1>. USE CallTypes
<1>0. HooksInv
  BY DEF RoundInv
<1>1. PICK f : thr' = [thr EXCEPT ![t].pc = "gen", ![t].file = f]
  BY DEF hook_openat
<1>2. /\ thr[t].pc = "idle" /\ fdIdx + Cardinality(Threads) < MaxFd
      /\ UNCHANGED <<files, fdIdx, validate>>
  BY DEF hook_openat, Start, FirstRound
<1>3. thr'[t].pc = "gen" /\ thr' = [thr EXCEPT ![t] = thr'[t]]
  BY <1>0, <1>1 DEF Calling
<1>4. \A u \in Threads : u # t => thr'[u] = thr[u]
  BY <1>0, <1>3
<1>5. NumbersLeft'
  <2>1. fdIdx \in Nat
    BY <1>0, Numbers
  <2>2. fdIdx' + Cardinality(Gens)' < MaxFd
    BY <1>0, <1>2, <1>3, <2>1, GensCount
  <2>. QED
    BY <1>2, <1>3, <1>4, <2>2 DEF RoundInv, NumbersLeft
<1>6. \A u \in Threads : Holds(u)' \/ thr'[u].pc = "remove" => u # t /\ thr'[u] = thr[u]
  BY <1>3, <1>4 DEF Holds
<1>7. Fresh'
  BY <1>2, <1>6 DEF RoundInv, Fresh, Holds
<1>8. Closing'
  BY <1>2, <1>6 DEF RoundInv, Closing
<1>. QED
  BY <1>5, <1>7, <1>8 DEF RoundInv

\* A number that is given out lies above all that are in use.
LEMMA GenerateRound ==
    ASSUME RoundInv, HooksInv', NEW t \in Threads, generate_first(t)
    PROVE  RoundInv'
<1>. USE CallTypes
<1>0. HooksInv /\ fdIdx \in Nat
  BY Numbers DEF RoundInv
<1>1. fdIdx < MaxFd
  BY <1>0, FdAssumption, FS_Subset, FS_CardinalityType DEF RoundInv, NumbersLeft, Gens
<1>2. /\ thr[t].pc = "gen" /\ fdIdx' = fdIdx + 1 /\ validate' = validate
      /\ thr' = [thr EXCEPT ![t].fd = fdIdx, ![t].pc = "check"] /\ UNCHANGED files
  <2>1. fdIdx # MaxFd /\ MaxFd \in Nat
    BY <1>0, <1>1
  <2>2. validate' = validate
    BY <1>0, <2>1, Zenon DEF generate_first, generate_fd_idx, RoundInv, NumbersLeft
  <2>. QED
    BY <2>1, <2>2 DEF generate_first, generate_fd_idx
<1>3. thr'[t].pc = "check" /\ thr'[t].fd = fdIdx /\ thr' = [thr EXCEPT ![t] = thr'[t]]
  BY <1>0, <1>2 DEF Calling
<1>4. \A u \in Threads : u # t => thr'[u] = thr[u]
  BY <1>0, <1>3
<1>5. NumbersLeft'
  <2>1. Cardinality(Gens)' = Cardinality(Gens) - 1 /\ Cardinality(Gens) \in Nat
    BY <1>0, <1>2, <1>3, GensCount
  <2>2. fdIdx' + Cardinality(Gens)' < MaxFd
    BY <1>0, <1>2, <2>1 DEF RoundInv, NumbersLeft
  <2>. QED
    BY <1>2, <1>3, <1>4, <2>2 DEF RoundInv, NumbersLeft
<1>6. /\ \A u \in Threads : Holds(u) \/ thr[u].pc = "remove" => thr[u].fd \in Fds /\ thr[u].fd < fdIdx
      /\ files[fdIdx] = NoFile
  BY <1>0 DEF RoundInv, HooksInv, CallOK, Fresh, Closing, Holds
<1>7. Fresh'
  <2>1. \A fd \in Fds : files'[fd] # NoFile => fd < fdIdx'
    BY <1>0, <1>2, Numbers DEF RoundInv, Fresh
  <2>2. ASSUME NEW u \in Threads, Holds(u)'
        PROVE  /\ thr'[u].fd < fdIdx' /\ files'[thr'[u].fd] = NoFile
               /\ \A v \in Threads \ {u} : Holds(v)' \/ thr'[v].pc = "remove" => thr'[v].fd # thr'[u].fd
    <3>1. CASE u = t
      BY <1>0, <1>2, <1>3, <1>4, <1>6, <3>1, Numbers DEF Holds
    <3>2. CASE u # t
      <4>1. Holds(u) /\ thr[u].fd \in Fds /\ thr[u].fd < fdIdx
        BY <1>4, <1>6, <2>2, <3>2 DEF Holds
      <4>2. /\ files[thr[u].fd] = NoFile
            /\ \A v \in Threads \ {u} : Holds(v) \/ thr[v].pc = "remove" => thr[v].fd # thr[u].fd
        BY <4>1 DEF RoundInv, Fresh
      <4>. QED
        BY <1>0, <1>2, <1>3, <1>4, <3>2, <4>1, <4>2, Numbers DEF Holds
    <3>. QED
      BY <3>1, <3>2
  <2>. QED
    BY <2>1, <2>2 DEF Fresh
<1>8. Closing'
  <2>1. ASSUME NEW u \in Threads, thr'[u].pc = "remove"
        PROVE  thr'[u].fd < fdIdx' /\ files'[thr'[u].fd] \in {NoFile, thr'[u].file}
    <3>1. u # t /\ thr'[u] = thr[u]
      BY <1>3, <1>4, <2>1
    <3>. QED
      BY <1>0, <1>2, <1>6, <2>1, <3>1, Numbers DEF RoundInv, Closing
  <2>. QED
    BY <2>1 DEF Closing
<1>. QED
  BY <1>5, <1>7, <1>8 DEF RoundInv

\* The rest of add: the flag is not set, and the number is still free.
LEMMA InsertRound ==
    ASSUME RoundInv, HooksInv', NEW t \in Threads, check_validation(t) \/ insert(t)
    PROVE  RoundInv'
<1>. USE CallTypes
<1>0. HooksInv /\ thr[t] \in Calling
  BY DEF RoundInv
<1>1. CASE check_validation(t)
  <2>1. thr[t].pc = "check" /\ thr' = [thr EXCEPT ![t].pc = "insert"] /\ UNCHANGED <<files, fdIdx, validate>>
    BY <1>1 DEF check_validation, RoundInv, NumbersLeft
  <2>2. thr'[t].pc = "insert" /\ thr'[t].fd = thr[t].fd /\ thr' = [thr EXCEPT ![t] = thr'[t]]
    BY <1>0, <2>1 DEF Calling
  <2>3. \A u \in Threads : u # t => thr'[u] = thr[u]
    BY <1>0, <2>2
  <2>4. Gens' = Gens
    BY <1>0, <2>1, <2>2, GensCount
  <2>5. NumbersLeft'
    BY <2>1, <2>2, <2>3, <2>4 DEF RoundInv, NumbersLeft
  <2>6. \A u \in Threads : (Holds(u) <=> Holds(u)') /\ thr'[u].fd = thr[u].fd
                            /\ (thr[u].pc = "remove" <=> thr'[u].pc = "remove")
    BY <2>1, <2>2, <2>3 DEF Holds
  <2>7. Fresh'
    BY <2>1, <2>6 DEF RoundInv, Fresh
  <2>8. Closing'
    BY <2>1, <2>2, <2>3 DEF RoundInv, Closing
  <2>. QED
    BY <2>5, <2>7, <2>8 DEF RoundInv
<1>2. CASE insert(t)
  <2>1. Holds(t) /\ thr[t].fd \in Fds /\ thr' = [thr EXCEPT ![t] = Idle] /\ UNCHANGED <<fdIdx, validate>>
    BY <1>0, <1>2 DEF insert, Holds, HooksInv, CallOK
  <2>2. thr'[t].pc = "idle" /\ thr' = [thr EXCEPT ![t] = thr'[t]]
    BY <1>0, <2>1 DEF Idle
  <2>3. \A u \in Threads : u # t => thr'[u] = thr[u]
    BY <1>0, <2>2
  <2>4. Gens' = Gens
    BY <1>0, <1>2, <2>2, GensCount DEF insert
  <2>5. NumbersLeft'
    BY <2>1, <2>2, <2>3, <2>4 DEF RoundInv, NumbersLeft
  <2>6. \A fd \in Fds : fd # thr[t].fd => files'[fd] = files[fd]
    BY <1>0, <1>2 DEF insert
  <2>7. Fresh'
    <3>1. \A fd \in Fds : files'[fd] # NoFile => fd < fdIdx'
      BY <2>1, <2>6 DEF RoundInv, Fresh
    <3>2. ASSUME NEW u \in Threads, Holds(u)'
          PROVE  /\ thr'[u].fd < fdIdx' /\ files'[thr'[u].fd] = NoFile
                 /\ \A v \in Threads \ {u} : Holds(v)' \/ thr'[v].pc = "remove" => thr'[v].fd # thr'[u].fd
      <4>1. u # t /\ thr'[u] = thr[u] /\ Holds(u)
        BY <2>2, <2>3, <3>2 DEF Holds
      <4>2. thr[u].fd # thr[t].fd /\ thr[u].fd \in Fds /\ thr[u].fd < fdIdx /\ files[thr[u].fd] = NoFile
        BY <1>0, <2>1, <4>1 DEF RoundInv, Fresh, HooksInv, CallOK, Holds
      <4>3. ASSUME NEW v \in Threads \ {u}, Holds(v)' \/ thr'[v].pc = "remove" PROVE thr'[v].fd # thr'[u].fd
        <5>1. v # t /\ thr'[v] = thr[v]
          BY <2>2, <2>3, <4>3 DEF Holds
        <5>. QED
          BY <4>1, <4>3, <5>1 DEF RoundInv, Fresh, Holds
      <4>. QED
        BY <2>1, <2>6, <4>1, <4>2, <4>3
    <3>. QED
      BY <3>1, <3>2 DEF Fresh
  <2>8. Closing'
    <3>1. ASSUME NEW u \in Threads, thr'[u].pc = "remove"
          PROVE  thr'[u].fd < fdIdx' /\ files'[thr'[u].fd] \in {NoFile, thr'[u].file}
      <4>1. u # t /\ thr'[u] = thr[u]
        BY <2>2, <2>3, <3>1
      <4>2. thr[u].fd # thr[t].fd /\ thr[u].fd \in Fds
        BY <1>0, <2>1, <3>1, <4>1 DEF RoundInv, Fresh, HooksInv, CallOK
      <4>. QED
        BY <2>1, <2>6, <3>1, <4>1, <4>2 DEF RoundInv, Closing
    <3>. QED
      BY <3>1 DEF Closing
  <2>. QED
    BY <2>5, <2>7, <2>8 DEF RoundInv
<1>. QED
  BY <1>1, <1>2

\* A close finds a descriptor, whose number nobody holds, and removes what it
\* found.
LEMMA CloseRound ==
    ASSUME RoundInv, HooksInv', NEW t \in Threads, NEW fd \in Fds, hook_close(t, fd)
    PROVE  RoundInv'
<1>. USE CallTypes
<1>0. HooksInv /\ thr[t] \in Calling
  BY DEF RoundInv
<1>1. /\ thr[t].pc = "idle" /\ files[fd] # NoFile /\ UNCHANGED <<files, fdIdx, validate>>
      /\ thr' = [thr EXCEPT ![t].pc = "remove", ![t].fd = fd, ![t].file = files[fd]]
  BY DEF hook_close, exist, Start, Exists
<1>2. /\ thr'[t].pc = "remove" /\ thr'[t].fd = fd /\ thr'[t].file = files[fd]
      /\ thr' = [thr EXCEPT ![t] = thr'[t]]
  BY <1>0, <1>1 DEF Calling
<1>3. \A u \in Threads : u # t => thr'[u] = thr[u]
  BY <1>0, <1>2
<1>4. NumbersLeft'
  <2>1. Gens' = Gens
    BY <1>0, <1>1, <1>2, GensCount
  <2>. QED
    BY <1>1, <1>2, <1>3, <2>1 DEF RoundInv, NumbersLeft
<1>5. Fresh'
  <2>1. \A u \in Threads : Holds(u)' => u # t /\ thr'[u] = thr[u] /\ Holds(u)
    BY <1>2, <1>3 DEF Holds
  <2>2. \A u \in Threads : Holds(u) => thr[u].fd # fd
    BY <1>1 DEF RoundInv, Fresh
  <2>3. \A u \in Threads : u # t => (Holds(u)' <=> Holds(u)) /\ (thr'[u].pc = "remove" <=> thr[u].pc = "remove")
    BY <1>3 DEF Holds
  <2>. QED
    BY <1>1, <1>2, <1>3, <2>1, <2>2, <2>3 DEF RoundInv, Fresh
<1>6. Closing'
  <2>1. fd < fdIdx
    BY <1>1 DEF RoundInv, Fresh
  <2>. QED
    BY <1>1, <1>2, <1>3, <2>1 DEF RoundInv, Closing
<1>. QED
  BY <1>4, <1>5, <1>6 DEF RoundInv

\* Removing a descriptor makes numbers free and gives none out.
LEMMA RemoveRound ==
    ASSUME RoundInv, HooksInv', NEW t \in Threads, remove(t)
    PROVE  RoundInv'
<1>. USE CallTypes
<1>0. HooksInv /\ thr[t].fd \in Fds /\ thr[t].pc = "remove"
  BY DEF RoundInv, HooksInv, CallOK, remove
<1>1. /\ UNCHANGED fdIdx /\ thr' = [thr EXCEPT ![t] = Idle]
      /\ files' = [files EXCEPT ![thr[t].fd] = NoFile]
  BY DEF remove, Erased
<1>2. ~validate'
  BY Zenon DEF remove, ValidateAfterErase, RoundInv, NumbersLeft
<1>3. thr'[t].pc = "idle" /\ thr' = [thr EXCEPT ![t] = thr'[t]]
  BY <1>0, <1>1 DEF Idle
<1>4. \A u \in Threads : u # t => thr'[u] = thr[u]
  BY <1>0, <1>3
<1>5. NumbersLeft'
  <2>1. Gens' = Gens
    BY <1>0, <1>3, GensCount
  <2>. QED
    BY <1>1, <1>2, <1>3, <1>4, <2>1 DEF RoundInv, NumbersLeft
<1>6. \A fd \in Fds : files'[fd] \in {files[fd], NoFile}
  BY <1>0, <1>1
<1>7. \A u \in Threads : Holds(u)' \/ thr'[u].pc = "remove" => u # t /\ thr'[u] = thr[u] /\ thr[u].fd \in Fds
  BY <1>0, <1>3, <1>4 DEF Holds, HooksInv, CallOK
<1>8. Fresh'
  <2>1. \A fd \in Fds : files'[fd] # NoFile => fd < fdIdx'
    BY <1>1, <1>6 DEF RoundInv, Fresh
  <2>2. ASSUME NEW u \in Threads, Holds(u)'
        PROVE  /\ thr'[u].fd < fdIdx' /\ files'[thr'[u].fd] = NoFile
               /\ \A v \in Threads \ {u} : Holds(v)' \/ thr'[v].pc = "remove" => thr'[v].fd # thr'[u].fd
    <3>1. thr'[u] = thr[u] /\ Holds(u) /\ thr[u].fd \in Fds
      BY <1>7, <2>2 DEF Holds
    <3>2. \A v \in Threads : Holds(v)' \/ thr'[v].pc = "remove" =>
             thr'[v] = thr[v] /\ (Holds(v) \/ thr[v].pc = "remove")
      BY <1>7 DEF Holds
    <3>. QED
      BY <1>1, <1>6, <3>1, <3>2 DEF RoundInv, Fresh
  <2>. QED
    BY <2>1, <2>2 DEF Fresh
<1>9. Closing'
  BY <1>1, <1>6, <1>7 DEF RoundInv, Closing
<1>. QED
  BY <1>5, <1>8, <1>9 DEF RoundInv

\* The invariant of the first round is inductive.
LEMMA RoundInductive ==
    ASSUME FirstRound, RoundInv, [Next]_vars
    PROVE  RoundInv'
<1>. USE CallTypes
<1>0. HooksInv /\ HooksInv'
  BY HooksInductive DEF RoundInv
<1>1. CASE UNCHANGED vars
  BY <1>0, <1>1 DEF vars, RoundInv, NumbersLeft, Gens, Fresh, Closing, Holds
<1>2. ASSUME NEW t \in Threads, Step(t) PROVE RoundInv'
  <2>0. thr[t].pc \notin {"exist", "regen", "dup2flag"} /\ thr[t] \in Calling
    BY <1>0 DEF RoundInv, NumbersLeft
  <2>1. ASSUME NEW type, NEW entries, hook_openat(t, type, entries) PROVE RoundInv'
    BY <1>0, <2>1, OpenRound
  <2>2. ASSUME NEW fd \in Fds, hook_close(t, fd) PROVE RoundInv'
    BY <1>0, <2>2, CloseRound
  <2>3. ASSUME NEW fd \in Fds, hook_fstat(t, fd) PROVE RoundInv'
    <3>1. /\ thr[t].pc = "idle" /\ UNCHANGED <<files, fdIdx, validate>>
          /\ thr' = [thr EXCEPT ![t].pc = "fstat", ![t].fd = fd, ![t].file = files[fd]]
      BY <2>3 DEF hook_fstat, exist, Start
    <3>2. thr'[t].pc = "fstat" /\ thr' = [thr EXCEPT ![t] = thr'[t]]
      BY <1>0, <2>0, <3>1 DEF Calling
    <3>. QED
      BY <1>0, <3>1, <3>2, QuietRound
  <2>4. ASSUME NEW fd \in Fds, hook_getdents(t, fd) \/ hook_getdents64(t, fd) PROVE RoundInv'
    <3>1. thr[t].pc = "idle" /\ UNCHANGED <<files, fdIdx, validate>>
      BY <2>4 DEF hook_getdents, hook_getdents64, Start
    <3>. QED
      BY <1>0, <2>4, <3>1, DentsCall, QuietRound
  <2>5. CASE hook_lseek(t)
    BY <1>1, <2>5 DEF hook_lseek
  <2>6. ASSUME Return(t), thr[t].pc # "gen", UNCHANGED <<files, fdIdx, validate>> PROVE RoundInv'
    <3>1. thr'[t].pc = "idle" /\ thr' = [thr EXCEPT ![t] = thr'[t]]
      BY <1>0, <2>6 DEF Return, Idle
    <3>. QED
      BY <1>0, <2>6, <3>1, QuietRound
  <2>7. CASE fstat_get(t)
    BY <2>6, <2>7 DEF fstat_get
  <2>8. CASE get_dir(t)
    <3>1. CASE Return(t)
      BY <2>6, <2>8, <3>1 DEF get_dir
    <3>2. CASE ~Return(t)
      <4>1. /\ thr' = [thr EXCEPT ![t].file = files[thr[t].fd], ![t].pc = IF @ = "getdir" THEN "dents" ELSE "dents64"]
            /\ thr[t].pc \in {"getdir", "getdir64"} /\ UNCHANGED <<files, fdIdx, validate>>
        BY <2>8, <3>2 DEF get_dir
      <4>2. thr'[t].pc \in {"dents", "dents64"} /\ thr' = [thr EXCEPT ![t] = thr'[t]]
        BY <1>0, <2>0, <4>1 DEF Calling
      <4>. QED
        BY <1>0, <4>1, <4>2, QuietRound
    <3>. QED
      BY <3>1, <3>2
  <2>9. CASE get_pos(t) \/ put_dent(t) \/ end_dents(t)
    BY <1>0, <2>9, DentsSteps, QuietRound
  <2>10. CASE set_pos(t)
    BY <2>6, <2>10 DEF set_pos
  <2>11. CASE AddStep(t)
    BY <1>0, <2>0, <2>11, GenerateRound, InsertRound DEF AddStep, generate_again, check_exist
  <2>12. CASE remove(t)
    BY <1>0, <2>12, RemoveRound
  <2>13. CASE DupStep(t)
    BY <2>0, <2>13 DEF DupStep, FirstRound, Start, Dup2Call, dup2_flag
  <2>. QED
    BY <1>2, <2>1, <2>2, <2>3, <2>4, <2>5, <2>7, <2>8, <2>9, <2>10, <2>11, <2>12, <2>13 DEF Step
<1>. QED
  BY <1>1, <1>2 DEF Next

\* A thread in the loop of getdents writes a record or leaves the loop.
LEMMA FillStep ==
    ASSUME HooksInv, NEW t \in Threads, Step(t), thr[t].pc = "fill", thr'[t].pc = "fill",
           thr'[t].pos # thr[t].pos
    PROVE  put_dent(t)
<1>0. thr \in [Threads -> Calling] /\ thr[t] \in Calling
  BY CallTypes
<1>1. ~get_pos(t) /\ ~get_dir(t) /\ ~fstat_get(t) /\ ~set_pos(t)
  BY DEF get_pos, get_dir, fstat_get, set_pos
<1>2. ~end_dents(t)
  BY <1>0 DEF end_dents, Return, Idle, Calling
<1>3. ~AddStep(t) /\ ~remove(t) /\ ~dup2_flag(t)
  BY DEF AddStep, remove, dup2_flag, generate_first, generate_again, check_validation,
         check_exist, insert
<1>4. ~DupStep(t)
  BY <1>3 DEF DupStep, Start
<1>5. \A call : ~Start(t, call)
  BY DEF Start
<1>6. \A fd : ~hook_close(t, fd) /\ ~hook_fstat(t, fd) /\ ~hook_getdents(t, fd) /\ ~hook_getdents64(t, fd)
  BY <1>5 DEF hook_close, hook_fstat, hook_getdents, hook_getdents64
<1>7. \A type, entries : ~hook_openat(t, type, entries)
  BY <1>5, Zenon DEF hook_openat
<1>8. ~hook_lseek(t)
  BY <1>5 DEF hook_lseek
<1>. QED
  BY <1>1, <1>2, <1>3, <1>4, <1>6, <1>7, <1>8, Zenon DEF Step

\* A step changes the call of its own thread only, and the end of add is insert.
LEMMA OwnStep ==
    ASSUME HooksInv, NEW t \in Threads, Step(t)
    PROVE  /\ \A u \in Threads : u # t => thr'[u] = thr[u]
           /\ thr[t].pc = "insert" => insert(t)
<1>. DEFINE Others == \A u \in Threads : u # t => thr'[u] = thr[u]
            Good == Others /\ (thr[t].pc = "insert" => insert(t))
<1>. SUFFICES Good
  OBVIOUS
<1>0. thr \in [Threads -> Calling]
  BY CallTypes
<1>1. ASSUME NEW type, NEW entries, hook_openat(t, type, entries) PROVE Good
  <2>1. PICK f : thr' = [thr EXCEPT ![t].pc = "gen", ![t].file = f]
    BY <1>1, Zenon DEF hook_openat
  <2>. QED
    BY <1>0, <1>1, <2>1 DEF hook_openat, Start
<1>2. ASSUME NEW fd \in Fds, hook_close(t, fd) \/ hook_fstat(t, fd) PROVE Good
  BY <1>0, <1>2 DEF hook_close, hook_fstat, exist, Start
<1>3. ASSUME NEW fd \in Fds, hook_getdents(t, fd) \/ hook_getdents64(t, fd) PROVE Good
  BY <1>0, <1>3 DEF hook_getdents, hook_getdents64, Start
<1>4. CASE hook_lseek(t)
  BY <1>0, <1>4 DEF hook_lseek, Start, vars
<1>5. CASE fstat_get(t) \/ get_dir(t) \/ set_pos(t)
  BY <1>0, <1>5 DEF fstat_get, get_dir, set_pos, Return
<1>6. CASE get_pos(t) \/ put_dent(t) \/ end_dents(t)
  BY <1>0, <1>6, DentsSteps
<1>7. CASE generate_first(t) \/ generate_again(t)
  BY <1>0, <1>7 DEF generate_first, generate_again, generate_fd_idx
<1>8. CASE check_validation(t) \/ check_exist(t) \/ insert(t)
  <2>1. PICK c : thr' = [thr EXCEPT ![t] = c]
    BY <1>0, <1>8 DEF check_validation, check_exist, insert
  <2>. QED
    BY <1>0, <1>8, <2>1 DEF check_validation, check_exist, insert
<1>9. CASE remove(t)
  BY <1>0, <1>9 DEF remove
<1>10. ASSUME NEW fd \in Fds, dup(t, fd) PROVE Good
  BY <1>0, <1>10 DEF dup
<1>11. ASSUME NEW fd \in Fds, NEW newfd \in Fds, dup2(t, fd, newfd) PROVE Good
  <2>1. PICK p : thr' = [thr EXCEPT ![t].pc = p, ![t].fd = newfd, ![t].file = files[fd]]
    BY <1>11, Zenon DEF dup2
  <2>2. thr[t].pc = "idle"
    BY <1>11 DEF dup2
  <2>. QED
    BY <1>0, <2>1, <2>2
<1>12. CASE dup2_flag(t)
  BY <1>0, <1>12 DEF dup2_flag
<1>. HIDE DEF Good
<1>13. CASE AddStep(t)
  BY <1>7, <1>8, <1>13 DEF AddStep
<1>14. CASE DupStep(t)
  BY <1>10, <1>11, <1>12, <1>14 DEF DupStep
<1>. QED
  BY <1>1, <1>2, <1>3, <1>4, <1>5, <1>6, <1>9, <1>13, <1>14 DEF Step

\* A record that getdents writes ends within the caller's buffer, for any sizes
\* (also ones that hook() turns into a negative int), names, threads and calls:
\* the difference of the int and the unsigned counter is what is left of the
\* buffer, since the counter never passes the size (hook_getdents).
THEOREM GetdentsAlwaysFits == Spec => GetdentsFits
<1>. DEFINE Fit == \A t \in Threads :
                      thr[t].pc = "fill" /\ thr'[t].pos # thr[t].pos /\ thr'[t].pc = "fill" =>
                          thr[t].written + total_size(t) <= thr[t].user
<1>1. Init => HooksInv
  BY InitHooks
<1>2. HooksInv /\ [Next]_vars => HooksInv'
  BY HooksInductive
<1>3. ASSUME HooksInv, NEW t \in Threads, Step(t) PROVE Fit
  <2>1. ASSUME NEW u \in Threads, thr[u].pc = "fill", thr'[u].pos # thr[u].pos, thr'[u].pc = "fill"
        PROVE  thr[u].written + total_size(u) <= thr[u].user
    <3>1. u = t
      BY <1>3, <2>1, OwnStep
    <3>2. put_dent(t)
      BY <1>3, <2>1, <3>1, FillStep
    <3>. QED
      BY <1>3, <2>1, <3>1, <3>2, RecordFits DEF put_dent
  <2>. QED
    BY <2>1
<1>4. HooksInv /\ [Next]_vars => [Fit]_vars
  <2>. HIDE DEF Fit
  <2>. QED
    BY <1>3 DEF Next
<1>. QED
  BY <1>1, <1>2, <1>4, PTL DEF Spec, GetdentsFits

\* Inserting under a free number makes it lead to the file.
LEMMA InsertUnderFree ==
    ASSUME HooksInv, NEW t \in Threads, [Next]_vars, thr[t].pc = "insert", thr'[t].pc = "idle",
           files[thr[t].fd] = NoFile
    PROVE  files'[thr[t].fd] = thr[t].file
<1>1. insert(t)
  BY OwnStep DEF Next, vars
<1>2. thr[t].fd \in Fds /\ files \in [Fds -> FileIds \cup {NoFile}]
  BY CallTypes DEF HooksInv, CallOK
<1>. QED
  BY <1>1, <1>2 DEF insert

\* Before the numbers start again an open returns a descriptor of its own file,
\* for any number of threads: the number is chosen, checked and used in
\* separate periods of the locks, yet nobody else can have it
\* (OpenFileMap::add, safe_generate_fd_idx_).
THEOREM OpenAlwaysGetsItsFile ==
    ASSUME FirstRound
    PROVE  Spec => OpenGetsItsFile
<1>1. Init => RoundInv
  BY InitRound
<1>2. RoundInv /\ [Next]_vars => RoundInv'
  BY RoundInductive
<1>3. RoundInv /\ [Next]_vars =>
         [\A t \in Threads : thr[t].pc = "insert" /\ thr'[t].pc = "idle" => files'[thr[t].fd] = thr[t].file]_vars
  BY InsertUnderFree DEF RoundInv, Fresh, Holds
<1>. QED
  BY <1>1, <1>2, <1>3, PTL DEF Spec, OpenGetsItsFile

\* And a close removes the file that it found or nothing, although exist and
\* remove of hook_close are separate periods of the lock.
THEOREM CloseAlwaysHitsItsFile ==
    ASSUME FirstRound
    PROVE  Spec => CloseHitsItsFile
<1>1. Init => RoundInv
  BY InitRound
<1>2. RoundInv /\ [Next]_vars => RoundInv'
  BY RoundInductive
<1>3. RoundInv /\ [Next]_vars =>
         [\A t \in Threads : thr[t].pc = "remove" /\ thr'[t].pc = "idle" =>
             files[thr[t].fd] \in {NoFile, thr[t].file}]_vars
  BY DEF RoundInv, Closing
<1>. QED
  BY <1>1, <1>2, <1>3, PTL DEF Spec, CloseHitsItsFile

-------------------------------------------------------------------------------
(* One thread, through any number of rounds. *)

\* A client with one thread; dup2 is not called onto the very next number.
Alone == "dup2next" \notin Calls /\ \E t : Threads = {t}

\* What the flag stands for: while it is not set, no descriptor lies at or above
\* the counter, so that the numbers to come need no check.
FlagMeaning == ~validate => \A fd \in Fds : fdIdx <= fd => files[fd] = NoFile

\* The number of a call: checked while the flag is set, free when it is to be
\* used, and open while fstat reads it.
NumberFits(t) ==
    /\ thr[t].pc \in {"exist", "regen"} => validate
    /\ thr[t].pc = "check" /\ ~validate => files[thr[t].fd] = NoFile /\ thr[t].fd < fdIdx
    /\ thr[t].pc \in {"insert", "dup2flag"} => files[thr[t].fd] = NoFile
    /\ thr[t].pc = "insert" /\ ~validate => thr[t].fd < fdIdx
    /\ thr[t].pc = "fstat" => files[thr[t].fd] # NoFile

AloneInv == HooksInv /\ FlagMeaning /\ ~dead /\ \A t \in Threads : NumberFits(t)

\* Initially the table is empty and the flag is not set.
LEMMA InitAlone == Init => AloneInv
<1>. SUFFICES ASSUME Init PROVE AloneInv
  OBVIOUS
<1>1. \A t \in Threads : thr[t].pc = "idle"
  BY DEF Init, Idle
<1>. QED
  BY <1>1, InitHooks DEF AloneInv, FlagMeaning, NumberFits, Init, TableInit

\* A call that has nothing to do with numbers leaves the table alone.
LEMMA QuietAlone ==
    ASSUME Alone, AloneInv, HooksInv', NEW t \in Threads, UNCHANGED <<files, fdIdx, validate, dead>>,
           thr'[t].pc \notin {"check", "exist", "regen", "insert", "dup2flag", "fstat"}
    PROVE  AloneInv'
<1>1. Threads = {t}
  BY DEF Alone
<1>2. NumberFits(t)'
  BY DEF NumberFits
<1>. QED
  BY <1>1, <1>2 DEF AloneInv, FlagMeaning

\* Taking a number: the counter's value is free, or the flag is set with it.
LEMMA GenerateAlone ==
    ASSUME Alone, AloneInv, HooksInv', NEW t \in Threads, NEW nextPc \in {"check", "exist"},
           nextPc = "exist" => thr[t].pc = "regen", generate_fd_idx(t, nextPc), UNCHANGED dead
    PROVE  AloneInv'
<1>. USE CallTypes
<1>0. Threads = {t} /\ HooksInv /\ thr[t] \in Calling /\ fdIdx \in Nat /\ fdIdx \in Fds
  BY Numbers DEF Alone, AloneInv
<1>1. CASE fdIdx = MaxFd
  <2>1. validate'
    BY <1>1, Zenon DEF generate_fd_idx
  <2>2. thr' = [thr EXCEPT ![t].fd = StartFd, ![t].pc = nextPc]
    BY <1>1 DEF generate_fd_idx
  <2>3. thr'[t].pc = nextPc
    BY <1>0, <2>2 DEF Calling
  <2>4. NumberFits(t)' /\ FlagMeaning'
    BY <2>1, <2>3 DEF NumberFits, FlagMeaning
  <2>. QED
    BY <1>0, <2>4 DEF AloneInv
<1>2. CASE fdIdx # MaxFd
  <2>1. validate' <=> validate
    BY <1>2, Zenon DEF generate_fd_idx
  <2>2. /\ thr' = [thr EXCEPT ![t].fd = fdIdx, ![t].pc = nextPc]
        /\ fdIdx' = fdIdx + 1 /\ UNCHANGED files
    BY <1>2 DEF generate_fd_idx
  <2>3. thr'[t].pc = nextPc /\ thr'[t].fd = fdIdx
    BY <1>0, <2>2 DEF Calling
  <2>4. ~validate => files[fdIdx] = NoFile
    BY <1>0 DEF AloneInv, FlagMeaning
  <2>5. NumberFits(t)'
    BY <1>0, <2>1, <2>2, <2>3, <2>4 DEF AloneInv, NumberFits
  <2>6. FlagMeaning'
    BY <1>0, <2>1, <2>2, Numbers DEF AloneInv, FlagMeaning
  <2>. QED
    BY <1>0, <2>5, <2>6 DEF AloneInv
<1>. QED
  BY <1>1, <1>2

\* The rest of add.
LEMMA AddAlone ==
    ASSUME Alone, AloneInv, HooksInv', NEW t \in Threads, AddStep(t), UNCHANGED dead
    PROVE  AloneInv'
<1>. USE CallTypes
<1>0. Threads = {t} /\ HooksInv /\ thr[t] \in Calling /\ NumberFits(t) /\ CallOK(t)
  BY DEF Alone, AloneInv, HooksInv
<1>1. CASE generate_first(t) \/ generate_again(t)
  BY <1>1, GenerateAlone DEF generate_first, generate_again
<1>2. CASE check_validation(t)
  <2>1. PICK p : p = (IF validate THEN "exist" ELSE "insert") /\ thr' = [thr EXCEPT ![t].pc = p]
    BY <1>2, Zenon DEF check_validation
  <2>2. thr'[t].pc = p /\ thr'[t].fd = thr[t].fd
    BY <1>0, <2>1 DEF Calling
  <2>3. thr[t].pc = "check" /\ UNCHANGED <<files, fdIdx, validate>>
    BY <1>2 DEF check_validation
  <2>4. NumberFits(t)'
    BY <1>0, <2>1, <2>2, <2>3 DEF NumberFits
  <2>. QED
    BY <1>0, <2>3, <2>4 DEF AloneInv, FlagMeaning
<1>3. CASE check_exist(t)
  <2>1. PICK p : p = (IF Exists(thr[t].fd) THEN "regen" ELSE "insert") /\ thr' = [thr EXCEPT ![t].pc = p]
    BY <1>3, Zenon DEF check_exist
  <2>2. thr'[t].pc = p /\ thr'[t].fd = thr[t].fd
    BY <1>0, <2>1 DEF Calling
  <2>3. thr[t].pc = "exist" /\ UNCHANGED <<files, fdIdx, validate>>
    BY <1>3 DEF check_exist
  <2>4. validate
    BY <1>0, <2>3 DEF NumberFits
  <2>5. NumberFits(t)'
    BY <1>0, <2>1, <2>2, <2>3, <2>4 DEF NumberFits, Exists
  <2>. QED
    BY <1>0, <2>3, <2>5 DEF AloneInv, FlagMeaning
<1>4. CASE insert(t)
  <2>1. thr'[t].pc = "idle"
    BY <1>0, <1>4 DEF insert, Idle
  <2>2. /\ thr[t].pc = "insert" /\ thr[t].fd \in Fds /\ UNCHANGED <<fdIdx, validate>>
        /\ \A fd \in Fds : fd # thr[t].fd => files'[fd] = files[fd]
    BY <1>0, <1>4 DEF insert, CallOK
  <2>3. NumberFits(t)'
    BY <2>1 DEF NumberFits
  <2>4. FlagMeaning'
    <3>. SUFFICES ASSUME ~validate', NEW fd \in Fds, fdIdx' <= fd PROVE files'[fd] = NoFile
      BY DEF FlagMeaning
    <3>1. thr[t].fd < fdIdx /\ fdIdx <= fd /\ fdIdx \in Nat /\ thr[t].fd \in Nat /\ fd \in Nat
      BY <1>0, <2>2, Numbers DEF NumberFits
    <3>2. fd # thr[t].fd
      BY <3>1
    <3>. QED
      BY <2>2, <3>1, <3>2 DEF AloneInv, FlagMeaning
  <2>. QED
    BY <1>0, <2>3, <2>4 DEF AloneInv
<1>. QED
  BY <1>1, <1>2, <1>3, <1>4 DEF AddStep

\* Removing a descriptor resets the flag only when no descriptor is left.
LEMMA ErasedFlag ==
    ASSUME HooksInv, FlagMeaning, NEW fd \in Fds, files' = Erased(fd), fdIdx' = fdIdx,
           validate' = IF Exists(fd) THEN ValidateAfterErase(fd) ELSE validate
    PROVE  FlagMeaning'
<1>. USE CallTypes
<1>. SUFFICES ASSUME ~validate', NEW g \in Fds, fdIdx <= g PROVE files'[g] = NoFile
  BY DEF FlagMeaning
<1>1. files'[g] = files[g] \/ files'[g] = NoFile
  BY DEF Erased
<1>2. CASE ~validate
  BY <1>1, <1>2 DEF FlagMeaning
<1>3. CASE validate
  <2>1. ~ValidateAfterErase(fd)
    BY <1>3, Zenon
  <2>2. Erased(fd)[g] = NoFile
    BY <1>3, <2>1, Zenon DEF ValidateAfterErase
  <2>. QED
    BY <2>2
<1>. QED
  BY <1>2, <1>3

\* The end of a close, with the flag.
LEMMA RemoveAlone ==
    ASSUME Alone, AloneInv, HooksInv', NEW t \in Threads, remove(t), UNCHANGED dead
    PROVE  AloneInv'
<1>. USE CallTypes
<1>0. Threads = {t} /\ HooksInv /\ thr[t].fd \in Fds /\ FlagMeaning
  BY DEF Alone, AloneInv, HooksInv, CallOK, remove
<1>1. thr'[t].pc = "idle"
  BY <1>0 DEF remove, Idle
<1>2. NumberFits(t)'
  BY <1>1 DEF NumberFits
<1>3. FlagMeaning'
  BY <1>0, ErasedFlag DEF remove
<1>. QED
  BY <1>0, <1>2, <1>3 DEF AloneInv

\* dup runs add; dup2 onto a number above the counter sets the flag before it
\* uses the number.
LEMMA DupAlone ==
    ASSUME Alone, AloneInv, HooksInv', NEW t \in Threads, DupStep(t)
    PROVE  AloneInv'
<1>. USE CallTypes
<1>0. /\ Threads = {t} /\ HooksInv /\ thr[t] \in Calling /\ FlagMeaning /\ UNCHANGED dead
      /\ CallOK(t) /\ NumberFits(t)
  BY DEF Alone, AloneInv, HooksInv, DupStep
<1>1. ASSUME NEW fd \in Fds, dup(t, fd) PROVE AloneInv'
  <2>1. thr'[t].pc = "gen"
    BY <1>0, <1>1 DEF dup, Calling
  <2>. QED
    BY <1>0, <1>1, <2>1, QuietAlone DEF dup
<1>2. ASSUME NEW fd \in Fds, NEW newfd \in Fds, newfd # fdIdx, dup2(t, fd, newfd) PROVE AloneInv'
  <2>1. PICK p : /\ p = (IF fdIdx < newfd THEN "dup2flag" ELSE "insert")
                 /\ thr' = [thr EXCEPT ![t].pc = p, ![t].fd = newfd, ![t].file = files[fd]]
    BY <1>2, Zenon DEF dup2
  <2>2. thr'[t].pc = p /\ thr'[t].fd = newfd
    BY <1>0, <2>1 DEF Calling
  <2>3. files'[newfd] = NoFile /\ fdIdx' = fdIdx
    BY <1>0, <1>2 DEF dup2, Erased
  <2>4. fdIdx \in Nat /\ newfd \in Nat
    BY <1>0, Numbers
  <2>5. NumberFits(t)'
    BY <1>2, <2>1, <2>2, <2>3, <2>4 DEF NumberFits
  <2>6. FlagMeaning'
    BY <1>0, <1>2, ErasedFlag DEF dup2
  <2>. QED
    BY <1>0, <2>5, <2>6 DEF AloneInv
<1>3. CASE dup2_flag(t)
  <2>1. thr'[t].pc = "insert" /\ thr'[t].fd = thr[t].fd /\ validate' /\ UNCHANGED files
    BY <1>0, <1>3 DEF dup2_flag, Calling
  <2>2. NumberFits(t)' /\ FlagMeaning'
    BY <1>0, <1>3, <2>1 DEF NumberFits, FlagMeaning, dup2_flag
  <2>. QED
    BY <1>0, <2>2 DEF AloneInv
<1>4. ASSUME NEW newfd \in Fds, Start(t, Dup2Call(newfd)) PROVE newfd # fdIdx
  BY <1>4 DEF Start, Dup2Call, Alone
<1>. QED
  BY <1>1, <1>2, <1>3, <1>4 DEF DupStep

\* The invariant of a client with one thread is inductive.
LEMMA AloneInductive ==
    ASSUME Alone, AloneInv, [Next]_vars
    PROVE  AloneInv'
<1>. USE CallTypes
<1>0. HooksInv /\ HooksInv'
  BY HooksInductive DEF AloneInv
<1>1. CASE UNCHANGED vars
  BY <1>0, <1>1 DEF vars, AloneInv, FlagMeaning, NumberFits
<1>2. ASSUME NEW t \in Threads, Step(t) PROVE AloneInv'
  <2>0. thr[t] \in Calling /\ Threads = {t} /\ NumberFits(t) /\ FlagMeaning /\ CallOK(t) /\ ~dead
    BY <1>0 DEF Alone, AloneInv, HooksInv
  <2>1. ASSUME NEW type, NEW entries, hook_openat(t, type, entries) PROVE AloneInv'
    <3>1. PICK f : thr' = [thr EXCEPT ![t].pc = "gen", ![t].file = f]
      BY <2>1, Zenon DEF hook_openat
    <3>2. thr'[t].pc = "gen"
      BY <1>0, <2>0, <3>1 DEF Calling
    <3>. QED
      BY <1>0, <2>1, <3>2, QuietAlone DEF hook_openat
  <2>2. ASSUME NEW fd \in Fds, hook_close(t, fd) PROVE AloneInv'
    <3>1. thr'[t].pc = "remove"
      BY <1>0, <2>0, <2>2 DEF hook_close, exist, Calling
    <3>. QED
      BY <1>0, <2>2, <3>1, QuietAlone DEF hook_close, exist
  <2>3. ASSUME NEW fd \in Fds, hook_fstat(t, fd) PROVE AloneInv'
    <3>1. thr'[t].pc = "fstat" /\ thr'[t].fd = fd
      BY <1>0, <2>0, <2>3 DEF hook_fstat, exist, Calling
    <3>2. files[fd] # NoFile /\ UNCHANGED <<files, fdIdx, validate, dead>>
      BY <2>3 DEF hook_fstat, exist, Exists
    <3>3. NumberFits(t)'
      BY <3>1, <3>2 DEF NumberFits
    <3>. QED
      BY <1>0, <2>0, <3>2, <3>3 DEF AloneInv, FlagMeaning
  <2>4. ASSUME NEW fd \in Fds, hook_getdents(t, fd) \/ hook_getdents64(t, fd) PROVE AloneInv'
    <3>1. UNCHANGED <<files, fdIdx, validate, dead>>
      BY <2>4 DEF hook_getdents, hook_getdents64
    <3>. QED
      BY <1>0, <2>4, <3>1, DentsCall, QuietAlone
  <2>5. CASE hook_lseek(t)
    BY <1>1, <2>5 DEF hook_lseek
  <2>6. ASSUME Return(t), UNCHANGED <<files, fdIdx, validate, dead>> PROVE AloneInv'
    <3>1. thr'[t].pc = "idle"
      BY <1>0, <2>6 DEF Return, Idle
    <3>. QED
      BY <1>0, <2>6, <3>1, QuietAlone
  <2>7. CASE fstat_get(t)
    <3>1. Exists(thr[t].fd)
      BY <2>0, <2>7 DEF fstat_get, NumberFits, Exists
    <3>2. ~dead'
      BY <2>7, <3>1, Zenon DEF fstat_get
    <3>3. dead' = dead
      BY <1>0, <2>0, <3>2, Zenon DEF HooksInv, TypeOK
    <3>. QED
      BY <2>6, <2>7, <3>3 DEF fstat_get
  <2>8. CASE get_dir(t)
    <3>1. CASE Return(t)
      BY <2>6, <2>8, <3>1 DEF get_dir
    <3>2. CASE ~Return(t)
      <4>1. /\ thr' = [thr EXCEPT ![t].file = files[thr[t].fd], ![t].pc = IF @ = "getdir" THEN "dents" ELSE "dents64"]
            /\ UNCHANGED <<files, fdIdx, validate, dead>>
        BY <2>8, <3>2 DEF get_dir
      <4>2. thr'[t].pc \in {"dents", "dents64"}
        BY <1>0, <2>0, <4>1 DEF Calling
      <4>. QED
        BY <1>0, <4>1, <4>2, QuietAlone
    <3>. QED
      BY <3>1, <3>2
  <2>9. CASE get_pos(t) \/ put_dent(t) \/ end_dents(t)
    BY <1>0, <2>9, DentsSteps, QuietAlone
  <2>10. CASE set_pos(t)
    BY <2>6, <2>10 DEF set_pos
  <2>11. CASE (AddStep(t) \/ remove(t)) /\ UNCHANGED <<seen, dead>>
    BY <1>0, <2>11, AddAlone, RemoveAlone
  <2>12. CASE DupStep(t)
    BY <1>0, <2>12, DupAlone
  <2>. QED
    BY <1>2, <2>1, <2>2, <2>3, <2>4, <2>5, <2>7, <2>8, <2>9, <2>10, <2>11, <2>12 DEF Step
<1>. QED
  BY <1>1, <1>2 DEF Next

\* With one thread an open returns a descriptor of its own file also after the
\* numbers have started again, with dup and dup2 in between: the flag is set in
\* time, and reset only when the table is empty (safe_generate_fd_idx_, remove).
THEOREM OpenGetsItsFileAlone ==
    ASSUME Alone
    PROVE  Spec => OpenGetsItsFile
<1>1. Init => AloneInv
  BY InitAlone
<1>2. AloneInv /\ [Next]_vars => AloneInv'
  BY AloneInductive
<1>3. AloneInv /\ [Next]_vars =>
         [\A t \in Threads : thr[t].pc = "insert" /\ thr'[t].pc = "idle" => files'[thr[t].fd] = thr[t].file]_vars
  BY InsertUnderFree DEF AloneInv, NumberFits
<1>. QED
  BY <1>1, <1>2, <1>3, PTL DEF Spec, OpenGetsItsFile
===============================================================================
