--------------------------------- MODULE Hooks ---------------------------------
(***************************************************************************)
(* The system call hooks that use descriptors (src/client/hooks.cc): open, *)
(* creat, close, fstat, getdents and getdents64, called by the threads of  *)
(* a client on the shared OpenFileMap.  What the server answers to an open *)
(* is chosen freely; a failed one touches no descriptor.                   *)
(***************************************************************************)
EXTENDS OpenFileMap

CONSTANTS
    Listings,    \* directories: sequences of the lengths of their names
    UIntRange,   \* 2^32: the values of an unsigned int are 0 .. UIntRange - 1
    Sizes,       \* sizes of the buffers that callers give
    Registers,   \* what the fourth argument register may hold
    Calls,       \* the calls that the threads make
    MayWrap      \* whether the threads open so many files that fd_idx starts again

AllCalls == {"open", "close", "fstat", "getdents", "getdents64", "lseek", "dup", "dup2",
            "dup2next"}
ASSUME HookAssumption ==
    /\ Listings \subseteq Seq(Nat) /\ UIntRange \in Nat \ {0}
    /\ Sizes \subseteq 0 .. UIntRange - 1 /\ Registers \subseteq 0 .. UIntRange - 1
    /\ Calls \subseteq AllCalls /\ MayWrap \in BOOLEAN /\ IsFiniteSet(Threads)

VARIABLES
    seen,        \* seen[f]: the entries of directory f that callers were handed
    dead         \* a null pointer was dereferenced: the process is gone
vars == <<files, fdIdx, validate, owner, objs, thr, seen, dead>>

Init ==
    /\ TableInit
    /\ objs = [f \in FileIds |-> OpenFile("regular", <<>>)]
    /\ thr = [t \in Threads |-> Idle]
    /\ seen = [f \in FileIds |-> {}]
    /\ dead = FALSE

Return(t) == thr' = [thr EXCEPT ![t] = Idle]
Start(t, call) == call \in Calls /\ thr[t].pc = "idle"

\* open and creat once the server has answered: a new object, and add.  For a
\* directory all its entries are read first.
hook_openat(t, type, entries) ==
    LET free == FileIds \ Live
        f == CHOOSE i \in free : \A j \in free : i <= j
    IN  /\ Start(t, "open")
        /\ free # {}
        /\ MayWrap \/ fdIdx + Cardinality(Threads) < MaxFd
        /\ type = "regular" => entries = <<>>
        /\ objs' = [objs EXCEPT ![f] = OpenFile(type, entries)]
        /\ seen' = [seen EXCEPT ![f] = {}]
        /\ thr' = [thr EXCEPT ![t].pc = "gen", ![t].file = f]
        /\ UNCHANGED <<files, fdIdx, validate, owner, dead>>

\* The first step of a call on a descriptor: exist(fd).  fstat then answers
\* -EINVAL, the others 0, when it does not.
exist(t, fd, nextPc) ==
    /\ CanLock(t) /\ Exists(fd)
    /\ thr' = [thr EXCEPT ![t].pc = nextPc, ![t].fd = fd, ![t].file = files[fd]]
    /\ UNCHANGED <<files, fdIdx, validate, owner, objs, seen, dead>>

hook_close(t, fd) == Start(t, "close") /\ exist(t, fd, "remove")

hook_fstat(t, fd) == Start(t, "fstat") /\ exist(t, fd, "fstat")

\* get(fd) again, and its result is dereferenced for the request.
fstat_get(t) ==
    /\ thr[t].pc = "fstat" /\ CanLock(t)
    /\ dead' = ~Exists(thr[t].fd)
    /\ Return(t)
    /\ UNCHANGED <<files, fdIdx, validate, owner, objs, seen>>

\* A size as the int that hook() makes of it, and an int in unsigned arithmetic.
AsInt(n) == IF 2 * n >= UIntRange THEN n - UIntRange ELSE n
AsUnsigned(i) == i % UIntRange

\* room is the count that the hook works with, user the size of the caller's
\* buffer.  getdents64 takes the fourth argument in the place of the third and
\* never sees the size.
hook_getdents(t, fd) ==
    /\ Start(t, "getdents") /\ CanLock(t) /\ Exists(fd)
    /\ \E n \in Sizes :
          thr' = [thr EXCEPT ![t] = [Idle EXCEPT !.pc = "getdir", !.fd = fd,
                                                 !.room = AsInt(n), !.user = n]]
    /\ UNCHANGED <<files, fdIdx, validate, owner, objs, seen, dead>>

hook_getdents64(t, fd) ==
    /\ Start(t, "getdents64") /\ CanLock(t) /\ Exists(fd)
    /\ \E r \in Registers :
          thr' = [thr EXCEPT ![t] = [Idle EXCEPT !.pc = "getdir64", !.fd = fd,
                                                 !.room = AsInt(r)]]
    /\ UNCHANGED <<files, fdIdx, validate, owner, objs, seen, dead>>

\* get_dir: no entry any more, or a regular file, ends the call with -EBADF.
get_dir(t) ==
    LET f == files[thr[t].fd]
    IN  /\ thr[t].pc \in {"getdir", "getdir64"} /\ CanLock(t)
        /\ IF f = NoFile \/ objs[f].type = "regular" THEN Return(t)
           ELSE thr' = [thr EXCEPT ![t].file = f,
                                   ![t].pc = IF @ = "getdir" THEN "dents" ELSE "dents64"]
        /\ UNCHANGED <<files, fdIdx, validate, owner, objs, seen, dead>>

\* The position where the listing goes on; nothing left answers 0.
get_pos(t) ==
    LET d == objs[thr[t].file]
    IN  /\ thr[t].pc \in {"dents", "dents64"}
        /\ IF d.pos >= Len(d.entries) THEN Return(t)
           ELSE thr' = [thr EXCEPT ![t].pos = d.pos, ![t].written = 0,
                                   ![t].pc = IF @ = "dents" THEN "fill" ELSE "fill64"]
        /\ UNCHANGED <<files, fdIdx, validate, owner, objs, seen, dead>>

\* The size of a record for a name of n characters: linux_dirent has its name
\* at byte 18, linux_dirent64 at byte 19.
ALIGN(x, a) == ((x + a - 1) \div a) * a
RecLen(pc, n) == IF pc = "fill" THEN ALIGN(18 + n + 3, 8) ELSE ALIGN(19 + n + 1, 8)

\* The size of the record that comes next in the loop.
total_size(t) == RecLen(thr[t].pc, objs[thr[t].file].entries[thr[t].pos + 1])

\* Mutant: the record is compared with the whole buffer.
HasRoomAlone(t) ==
    /\ thr[t].pos < Len(objs[thr[t].file].entries)
    /\ ~(total_size(t) > AsUnsigned(thr[t].room))

\* The tests of the loop.  count is an int and written an unsigned int, so their
\* difference is unsigned.
HasRoom(t) ==
    /\ thr[t].pos < Len(objs[thr[t].file].entries)
    /\ ~(total_size(t) > AsUnsigned(thr[t].room - thr[t].written))

\* Mutant: the loop moves the position of the directory along.
put_dent_moving(t) ==
    /\ thr[t].pc \in {"fill", "fill64"} /\ HasRoom(t)
    /\ thr' = [thr EXCEPT ![t].pos = @ + 1,
                          ![t].written = AsUnsigned(@ + total_size(t))]
    /\ seen' = [seen EXCEPT ![thr[t].file] = @ \cup {thr[t].pos + 1}]
    /\ objs' = [objs EXCEPT ![thr[t].file].pos = @ + 1]
    /\ UNCHANGED <<files, fdIdx, validate, owner, dead>>

\* One record is written behind the others.
put_dent(t) ==
    /\ thr[t].pc \in {"fill", "fill64"} /\ HasRoom(t)
    /\ thr' = [thr EXCEPT ![t].pos = @ + 1,
                          ![t].written = AsUnsigned(@ + total_size(t))]
    /\ seen' = [seen EXCEPT ![thr[t].file] = @ \cup {thr[t].pos + 1}]
    /\ UNCHANGED <<files, fdIdx, validate, owner, objs, dead>>

\* The loop is left, with -EINVAL when there was no room for a single record.
end_dents(t) ==
    /\ thr[t].pc \in {"fill", "fill64"} /\ ~HasRoom(t)
    /\ IF thr[t].written = 0 THEN Return(t) ELSE thr' = [thr EXCEPT ![t].pc = "setpos"]
    /\ UNCHANGED <<files, fdIdx, validate, owner, objs, seen, dead>>

\* The position for the next call.
set_pos(t) ==
    /\ thr[t].pc = "setpos"
    /\ objs' = [objs EXCEPT ![thr[t].file].pos = thr[t].pos]
    /\ Return(t)
    /\ UNCHANGED <<files, fdIdx, validate, owner, seen, dead>>

\* read and write do nothing yet.  lseek assigns SEEK_SET, 0, to its flag instead
\* of comparing, and so ends in its last branch, with -EINVAL, whatever it is asked.
hook_lseek(t) == Start(t, "lseek") /\ CanLock(t) /\ UNCHANGED vars

\* dup and dup2 of the table; no hook calls them yet.  A dup2 onto the number
\* that comes next is a call of its own: the table takes no notice of it (the
\* counter is not smaller), and the next open meets it unchecked.
Dup2Call(newfd) == IF newfd = fdIdx THEN "dup2next" ELSE "dup2"
DupStep(t) ==
    /\ \/ \E fd \in Fds : Start(t, "dup") /\ dup(t, fd)
       \/ \E fd, newfd \in Fds : Start(t, Dup2Call(newfd)) /\ dup2(t, fd, newfd)
       \/ dup2_flag(t)
    /\ UNCHANGED <<seen, dead>>

Step(t) ==
    \/ \E type \in {"regular", "directory"}, entries \in Listings \cup {<<>>} :
          hook_openat(t, type, entries)
    \/ \E fd \in Fds : \/ hook_close(t, fd) \/ hook_fstat(t, fd)
                       \/ hook_getdents(t, fd) \/ hook_getdents64(t, fd)
    \/ hook_lseek(t) \/ fstat_get(t) \/ get_dir(t)
    \/ get_pos(t) \/ put_dent(t) \/ end_dents(t) \/ set_pos(t)
    \/ (AddStep(t) \/ remove(t)) /\ UNCHANGED <<seen, dead>>
    \/ DupStep(t)

Next == ~dead /\ \E t \in Threads : Step(t)

Spec == Init /\ [][Next]_vars
-------------------------------------------------------------------------------
(* Properties. *)

PCs == {"idle", "gen", "check", "exist", "regen", "insert", "remove", "dup2flag", "fstat",
        "getdir", "getdir64", "dents", "dents64", "fill", "fill64", "setpos"}
TypeOK ==
    /\ files \in [Fds -> FileIds \cup {NoFile}]
    /\ fdIdx \in Fds
    /\ validate \in BOOLEAN /\ dead \in BOOLEAN
    /\ owner \in Threads \cup {NoThread}
    /\ objs \in [FileIds -> [type : {"regular", "directory"}, pos : Nat, entries : Seq(Nat)]]
    /\ seen \in [FileIds -> SUBSET Nat]
    /\ thr \in [Threads -> [pc : PCs, fd : Fds \cup {NoFd}, file : FileIds \cup {NoFile}, room : Int,
                            user : Nat, pos : Nat, written : Nat]]

\* An open returns a descriptor of the file it has opened, although the number
\* was chosen and checked before the mutex of the table was taken
\* (OpenFileMap::add).
OpenGetsItsFile ==
    [][\A t \in Threads :
          thr[t].pc = "insert" /\ thr'[t].pc = "idle" => files'[thr[t].fd] = thr[t].file]_vars

\* A close removes the file that it found under the descriptor, not one that
\* another thread has opened in between (exist and remove of hook_close).
CloseHitsItsFile ==
    [][\A t \in Threads :
          thr[t].pc = "remove" /\ thr'[t].pc = "idle" =>
              files[thr[t].fd] \in {NoFile, thr[t].file}]_vars

\* No entry of a directory is passed over: each one up to the position, where the
\* next getdents goes on, has been handed to some caller, although several
\* threads read, fill and set the position without a lock (hook_getdents,
\* hook_getdents64).  Entries may be handed out twice.
NothingSkipped == \A f \in FileIds : 1 .. objs[f].pos \subseteq seen[f]

\* A record that getdents writes ends within the caller's buffer, whatever the
\* size (one that is negative as an int too) and the records before it.
\* (getdents64 may write beyond it: it takes its count from the wrong register.)
GetdentsFits ==
    [][\A t \in Threads :
          thr[t].pc = "fill" /\ thr'[t].pos # thr[t].pos /\ thr'[t].pc = "fill" =>
              thr[t].written + total_size(t) <= thr[t].user]_vars
===============================================================================
