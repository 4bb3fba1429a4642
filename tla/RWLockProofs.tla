----------------------------- MODULE RWLockProofs -----------------------------
(***************************************************************************)
(* RWLock is correct for every finite set of threads.  The invariant IInv  *)
(* is inductive; the properties checked by the runs follow from it.        *)
(***************************************************************************)
EXTENDS RWLock, FiniteSetTheorems, TLAPS

IInv == TypeOK /\ MutualExclusion /\ CountersExact /\ NoLostWakeup

\* The sets that the counters count are finite, so their cardinalities are
\* numbers and are zero only for the empty set.
LEMMA CountedSets ==
    /\ IsFiniteSet(Writers) /\ IsFiniteSet(In("reading"))
    /\ Cardinality(Writers) \in Nat /\ Cardinality(In("reading")) \in Nat
    /\ Cardinality(Writers) = 0 <=> Writers = {}
    /\ Cardinality(In("reading")) = 0 <=> In("reading") = {}
<1>1. Writers \in SUBSET Threads /\ In("reading") \in SUBSET Threads
  BY DEF Writers, In
<1>2. IsFiniteSet(Writers) /\ IsFiniteSet(In("reading"))
  BY <1>1, FS_Subset, ThreadsFinite
<1>. QED
  BY <1>2, FS_CardinalityType, FS_EmptySet

\* Where each wait predicate is true, the sets it stands for are empty.
LEMMA PredicatesMeanEmpty ==
    ASSUME IInv
    PROVE  /\ CanWrite <=> In("reading") = {} /\ In("writing") = {}
           /\ CanRead <=> Writers = {}
           /\ writeCount > 0 <=> Writers # {}
  BY CountedSets DEF IInv, TypeOK, CountersExact, CanWrite, CanRead

\* Where a thread joins or leaves the writers (readers), the size of their set
\* follows m_writeCount (m_readCount).
LEMMA CountUpdate ==
    ASSUME NEW S, NEW t, IsFiniteSet(S)
    PROVE  /\ t \notin S => Cardinality(S \cup {t}) = Cardinality(S) + 1
           /\ t \in S => Cardinality(S \ {t}) = Cardinality(S) - 1
  BY FS_AddElement, FS_RemoveElement

\* lockWrite keeps the invariant.
LEMMA LockWriteStep ==
    ASSUME IInv, NEW t \in Threads, lockWrite(t)
    PROVE  IInv'
<1> USE DEF IInv
<1>1. TypeOK'
  <2>1. pc' \in [Threads -> PC] /\ writeCount' \in Nat /\ readCount' \in Nat
    BY DEF TypeOK, lockWrite, TryWrite, PC
  <2>2. isWriting' \in BOOLEAN
    BY DEF TypeOK, lockWrite, TryWrite
  <2>. QED
    BY <2>1, <2>2 DEF TypeOK
<1>2. /\ Writers' = Writers \cup {t} /\ t \notin Writers
      /\ In("reading")' = In("reading")
  BY DEF TypeOK, lockWrite, TryWrite, Writers, In
<1>3. In("writing")' = IF CanWrite THEN In("writing") \cup {t} ELSE In("writing")
  BY DEF TypeOK, lockWrite, TryWrite, In
<1>4. CountersExact'
  <2>1. readCount' = Cardinality(In("reading"))'
    BY <1>2 DEF lockWrite, CountersExact
  <2>2. writeCount' = Cardinality(Writers)'
    BY <1>2, CountedSets, CountUpdate DEF lockWrite, CountersExact
  <2>3. isWriting' <=> In("writing")' # {}
    BY <1>3 DEF TypeOK, lockWrite, TryWrite, CountersExact
  <2>. QED
    BY <2>1, <2>2, <2>3 DEF CountersExact
<1>5. MutualExclusion'
  BY <1>2, <1>3, PredicatesMeanEmpty DEF MutualExclusion
<1>6. NoLostWakeup'
  BY <1>1 DEF TypeOK, lockWrite, TryWrite, NoLostWakeup, CanWrite, In
<1>. QED
  BY <1>1, <1>4, <1>5, <1>6

\* A woken writer keeps the invariant.
LEMMA WakeWriteStep ==
    ASSUME IInv, NEW t \in Threads, wakeWrite(t)
    PROVE  IInv'
<1> USE DEF IInv
<1>1. TypeOK'
  BY DEF TypeOK, wakeWrite, TryWrite, PC
<1>2. Writers' = Writers /\ In("reading")' = In("reading")
  BY DEF TypeOK, wakeWrite, TryWrite, Writers, In
<1>3. In("writing")' = IF CanWrite THEN In("writing") \cup {t} ELSE In("writing")
  BY DEF TypeOK, wakeWrite, TryWrite, In
<1>4. CountersExact'
  BY <1>2, <1>3 DEF TypeOK, wakeWrite, TryWrite, CountersExact, CanWrite, In
<1>5. MutualExclusion'
  BY <1>2, <1>3, PredicatesMeanEmpty DEF MutualExclusion
<1>6. NoLostWakeup'
  BY <1>1 DEF TypeOK, wakeWrite, TryWrite, NoLostWakeup, CanWrite, In
<1>. QED
  BY <1>1, <1>4, <1>5, <1>6

\* unlockWrite keeps the invariant: it is the last writer and wakes every
\* reader, or it wakes a writer if one waits.
LEMMA UnlockWriteStep ==
    ASSUME IInv, NEW t \in Threads, unlockWrite(t)
    PROVE  IInv'
<1> USE DEF IInv
<1>1. t \in Writers /\ t \in In("writing")
  BY DEF unlockWrite, Writers, In
<1>2. writeCount > 0 /\ writeCount' \in Nat
  BY <1>1, PredicatesMeanEmpty DEF unlockWrite, TypeOK
<1>3. TypeOK'
  BY <1>2 DEF TypeOK, unlockWrite, NotifyAllReaders, NotifyOneWriter, PC, In
<1>4. /\ Writers' = Writers \ {t}
      /\ In("reading")' = In("reading")
      /\ In("writing")' = In("writing") \ {t}
  BY DEF TypeOK, unlockWrite, NotifyAllReaders, NotifyOneWriter, Writers, In
<1>5. In("writing")' = {}
  BY <1>1, <1>4 DEF MutualExclusion
<1>6. CountersExact'
  BY <1>1, <1>4, <1>5, CountedSets, CountUpdate
  DEF TypeOK, unlockWrite, CountersExact
<1>7. MutualExclusion'
  BY <1>5 DEF MutualExclusion
<1>8. NoLostWakeup'
  <2>1. CASE writeCount' = 0
    <3>1. Writers' = {}
      BY <2>1, <1>6, CountedSets, <1>4, FS_RemoveElement, FS_EmptySet DEF CountersExact
    <3>2. In("wwait")' = {}
      BY <3>1 DEF Writers, In
    <3>3. In("rwait")' = {}
      BY <2>1 DEF unlockWrite, NotifyAllReaders, In
    <3>. QED
      BY <3>2, <3>3 DEF NoLostWakeup
  <2>2. CASE writeCount' # 0
    <3>1. In("wwait")' # {} => In("wwoken")' # {}
      BY <2>2 DEF TypeOK, unlockWrite, NotifyOneWriter, In
    <3>2. writeCount' > 0
      BY <2>2, <1>2
    <3>. QED
      BY <3>1, <3>2 DEF NoLostWakeup
  <2>. QED
    BY <2>1, <2>2
<1>. QED
  BY <1>3, <1>6, <1>7, <1>8

\* lockRead and a woken reader keep the invariant.
LEMMA TryReadStep ==
    ASSUME IInv, NEW t \in Threads, pc[t] \in {"idle", "rwoken"}, TryRead(t),
           UNCHANGED <<writeCount, isWriting>>
    PROVE  IInv'
<1> USE DEF IInv
<1>1. TypeOK'
  BY DEF TypeOK, TryRead, PC
<1>2. Writers' = Writers /\ In("writing")' = In("writing")
  BY DEF TypeOK, TryRead, Writers, In
<1>3. /\ t \notin In("reading")
      /\ In("reading")' = IF CanRead THEN In("reading") \cup {t} ELSE In("reading")
  BY DEF TypeOK, TryRead, In
<1>4. CountersExact'
  BY <1>2, <1>3, CountedSets, CountUpdate DEF TypeOK, TryRead, CountersExact
<1>5. In("writing") # {} => Writers # {}
  BY DEF In, Writers
<1>6. MutualExclusion'
  BY <1>2, <1>3, <1>5, PredicatesMeanEmpty DEF MutualExclusion
<1>7. NoLostWakeup'
  <2>1. In("wwait")' = In("wwait") /\ In("wwoken")' = In("wwoken")
    BY DEF TypeOK, TryRead, In
  <2>2. In("wwait")' # {} /\ CanWrite' => In("wwoken")' # {}
    BY <2>1 DEF TypeOK, TryRead, NoLostWakeup, CanWrite
  <2>3. In("rwait")' # {} => writeCount' > 0
    BY DEF TypeOK, TryRead, NoLostWakeup, CanRead, In
  <2>. QED
    BY <2>2, <2>3 DEF NoLostWakeup
<1>. QED
  BY <1>1, <1>4, <1>6, <1>7

\* unlockRead keeps the invariant: the last reader wakes a waiting writer.
LEMMA UnlockReadStep ==
    ASSUME IInv, NEW t \in Threads, unlockRead(t)
    PROVE  IInv'
<1> USE DEF IInv
<1>1. t \in In("reading") /\ readCount > 0 /\ readCount' \in Nat
  BY CountedSets DEF unlockRead, In, TypeOK, CountersExact
<1>2. TypeOK'
  BY <1>1 DEF TypeOK, unlockRead, NotifyOneWriter, PC, In
<1>3. /\ Writers' = Writers
      /\ In("writing")' = In("writing")
      /\ In("reading")' = In("reading") \ {t}
  BY DEF TypeOK, unlockRead, NotifyOneWriter, Writers, In
<1>4. CountersExact'
  BY <1>1, <1>3, CountedSets, CountUpdate
  DEF TypeOK, unlockRead, CountersExact
<1>5. MutualExclusion'
  BY <1>3 DEF MutualExclusion
<1>6. In("wwait") # {} => writeCount > 0
  BY PredicatesMeanEmpty DEF In, Writers
<1>7. In("wwait")' # {} /\ CanWrite' => In("wwoken")' # {}
  BY <1>1, <1>6 DEF TypeOK, unlockRead, NotifyOneWriter, CanWrite, In
<1>8. In("rwait")' # {} => writeCount' > 0
  BY DEF TypeOK, unlockRead, NotifyOneWriter, NoLostWakeup, In
<1>9. NoLostWakeup'
  BY <1>7, <1>8 DEF NoLostWakeup
<1>. QED
  BY <1>2, <1>4, <1>5, <1>9

\* A spurious wake-up keeps the invariant.
LEMMA SpuriousStep ==
    ASSUME IInv, NEW t \in Threads, spuriousWake(t)
    PROVE  IInv'
<1> USE DEF IInv
<1>1. TypeOK'
  BY DEF TypeOK, spuriousWake, PC
<1>2. /\ Writers' = Writers
      /\ In("writing")' = In("writing")
      /\ In("reading")' = In("reading")
  BY DEF TypeOK, spuriousWake, Writers, In
<1>3. CountersExact' /\ MutualExclusion'
  BY <1>2 DEF spuriousWake, CountersExact, MutualExclusion
<1>4. NoLostWakeup'
  BY DEF TypeOK, spuriousWake, NoLostWakeup, CanWrite, In
<1>. QED
  BY <1>1, <1>3, <1>4

\* IInv is inductive.
LEMMA Inductive == IInv /\ [Next]_vars => IInv'
<1> SUFFICES ASSUME IInv, [Next]_vars PROVE IInv'
  OBVIOUS
<1>1. CASE UNCHANGED vars
  BY <1>1 DEF vars, IInv, TypeOK, MutualExclusion, CountersExact, NoLostWakeup,
              CanWrite, Writers, In
<1>2. ASSUME NEW t \in Threads, lockRead(t) PROVE IInv'
  BY <1>2, TryReadStep DEF lockRead
<1>3. ASSUME NEW t \in Threads, wakeRead(t) PROVE IInv'
  BY <1>3, TryReadStep DEF wakeRead
<1>. QED
  BY <1>1, <1>2, <1>3, LockWriteStep, WakeWriteStep, UnlockWriteStep,
     UnlockReadStep, SpuriousStep DEF Next

\* The initial state satisfies IInv.
LEMMA InitIInv == Init => IInv
<1> SUFFICES ASSUME Init PROVE IInv
  OBVIOUS
<1>1. TypeOK
  BY DEF Init, TypeOK, PC
<1>2. \A s \in PC \ {"idle"} : In(s) = {}
  BY DEF Init, In, PC
<1>3. Writers = {}
  BY DEF Init, Writers
<1>4. CountersExact
  BY <1>2, <1>3, CountedSets DEF Init, CountersExact, PC
<1>. QED
  BY <1>1, <1>2, <1>4 DEF IInv, MutualExclusion, NoLostWakeup, PC

\* The invariant holds in every behaviour of the lock: the counters of rwlock.h,
\* its exclusion and its notifications fit together.
THEOREM Invariance == Spec => []IInv
  BY InitIInv, Inductive, PTL DEF Spec

\* A writer is alone, for every number of threads (WriteGuard, ReadGuard).
THEOREM RWLockMutualExclusion == Spec => []MutualExclusion
  BY Invariance, PTL DEF IInv

\* No notification that somebody needs is lost, for every number of threads.
THEOREM RWLockNoLostWakeup == Spec => []NoLostWakeup
  BY Invariance, PTL DEF IInv

\* The counters are exact, for every number of threads.
THEOREM RWLockCountersExact == Spec => []CountersExact
  BY Invariance, PTL DEF IInv

\* No thread starts to read while a writer waits or writes.
THEOREM RWLockWriterPreference == Spec => WriterPreference
<1>1. IInv /\ [Next]_vars =>
        [\A t \in Threads :
            pc[t] # "reading" /\ pc'[t] = "reading" => Writers = {}]_vars
  <2> SUFFICES ASSUME IInv, Next, NEW t \in Threads,
                      pc[t] # "reading", pc'[t] = "reading"
               PROVE  Writers = {}
    OBVIOUS
  <2>1. PICK u \in Threads : lockRead(u) \/ wakeRead(u)
    BY DEF Next, IInv, TypeOK, lockWrite, wakeWrite, unlockWrite, unlockRead,
           spuriousWake, TryWrite, NotifyOneWriter, NotifyAllReaders, In
  <2>2. CanRead
    BY <2>1 DEF IInv, TypeOK, lockRead, wakeRead, TryRead
  <2>. QED
    BY <2>2, PredicatesMeanEmpty
<1>. QED
  BY <1>1, Invariance, PTL DEF Spec, WriterPreference

\* What the steps of RWLock do to the abstract lock: a step that lets thread u
\* in finds the abstract lock compatible, every other step leaves it alone or
\* lets one thread out.
LEMMA StepSimulation ==
    ASSUME IInv, [Next]_vars
    PROVE  [Abs!Next]_modeBar
<1>1. CASE UNCHANGED vars
  BY <1>1 DEF vars, modeBar
<1>2. ASSUME NEW t \in Threads, lockWrite(t) \/ wakeWrite(t)
      PROVE  [Abs!Next]_modeBar
  <2>1. CASE CanWrite
    <3>1. In("reading") = {} /\ In("writing") = {}
      BY <2>1, PredicatesMeanEmpty
    <3>2. \A u \in Threads : modeBar[u] = "out"
      BY <3>1 DEF In, modeBar
    <3>3. modeBar' = [modeBar EXCEPT ![t] = "write"]
      BY <1>2, <2>1 DEF modeBar, IInv, TypeOK, lockWrite, wakeWrite, TryWrite
    <3>. QED
      BY <3>2, <3>3 DEF Abs!Next, Abs!AcquireWrite
  <2>2. CASE ~CanWrite
    BY <1>2, <2>2 DEF modeBar, IInv, TypeOK, lockWrite, wakeWrite, TryWrite
  <2>. QED
    BY <2>1, <2>2
<1>3. ASSUME NEW t \in Threads, lockRead(t) \/ wakeRead(t)
      PROVE  [Abs!Next]_modeBar
  <2>1. CASE CanRead
    <3>1. \A u \in Threads : pc[u] # "writing"
      BY <2>1, PredicatesMeanEmpty DEF Writers
    <3>2. /\ modeBar[t] = "out"
          /\ \A u \in Threads : modeBar[u] # "write"
      BY <1>3, <3>1 DEF modeBar, lockRead, wakeRead
    <3>3. modeBar' = [modeBar EXCEPT ![t] = "read"]
      BY <1>3, <2>1 DEF modeBar, IInv, TypeOK, lockRead, wakeRead, TryRead
    <3>. QED
      BY <3>2, <3>3 DEF Abs!Next, Abs!AcquireRead
  <2>2. CASE ~CanRead
    BY <1>3, <2>2 DEF modeBar, IInv, TypeOK, lockRead, wakeRead, TryRead
  <2>. QED
    BY <2>1, <2>2
<1>4. ASSUME NEW t \in Threads, unlockWrite(t) \/ unlockRead(t)
      PROVE  [Abs!Next]_modeBar
  <2>1. modeBar[t] # "out"
    BY <1>4 DEF modeBar, unlockWrite, unlockRead
  <2>2. modeBar' = [modeBar EXCEPT ![t] = "out"]
    BY <1>4 DEF modeBar, IInv, TypeOK, unlockWrite, unlockRead,
                NotifyOneWriter, NotifyAllReaders, In
  <2>. QED
    BY <2>1, <2>2 DEF Abs!Next, Abs!Release
<1>5. ASSUME NEW t \in Threads, spuriousWake(t)
      PROVE  [Abs!Next]_modeBar
  BY <1>5 DEF modeBar, IInv, TypeOK, spuriousWake
<1>. QED
  BY <1>1, <1>2, <1>3, <1>4, <1>5 DEF Next

\* RWLock implements the abstract readers-writer lock, for every finite set of
\* threads: what lockRead and lockWrite grant is what ReadersWriters allows.
THEOREM RWLockRefinement == Spec => ImplementsReadersWriters
<1>1. Init => Abs!Init
  BY DEF Init, Abs!Init, modeBar
<1>2. IInv /\ [Next]_vars => [Abs!Next]_modeBar
  BY StepSimulation
<1>. QED
  BY <1>1, <1>2, Invariance, PTL DEF Spec, ImplementsReadersWriters, Abs!Spec
===============================================================================
