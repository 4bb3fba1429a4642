-------------------------------- MODULE RWLock --------------------------------
(***************************************************************************)
(* The readers-writer lock of include/util/rwlock.h: a mutex m_Lock, the   *)
(* counters m_readCount and m_writeCount, the flag m_isWriting and the     *)
(* condition variables m_readCond and m_writeCond.                         *)
(*                                                                         *)
(* A call runs under m_Lock except while it waits, so the code between     *)
(* taking the mutex and the wait, or between a wake-up and the next wait,  *)
(* is one step.  pc[t] says where thread t is:                             *)
(*   idle      outside the lock                                            *)
(*   wwait     in m_writeCond.wait, not notified                           *)
(*   wwoken    notified (or woken spuriously), waiting for m_Lock          *)
(*   writing   lockWrite has returned                                      *)
(*   rwait, rwoken, reading   the same for readers                         *)
(***************************************************************************)
EXTENDS Naturals, FiniteSets

CONSTANT Threads
ASSUME ThreadsFinite == IsFiniteSet(Threads)

VARIABLES pc, readCount, writeCount, isWriting
vars == <<pc, readCount, writeCount, isWriting>>

PC == {"idle", "wwait", "wwoken", "writing", "rwait", "rwoken", "reading"}

In(state) == {t \in Threads : pc[t] = state}

\* Threads between the start of lockWrite and the end of unlockWrite.
Writers == {t \in Threads : pc[t] \in {"wwait", "wwoken", "writing"}}

Init ==
    /\ pc = [t \in Threads |-> "idle"]
    /\ readCount = 0
    /\ writeCount = 0
    /\ isWriting = FALSE

\* Mutants of the wait predicate of writers: one that does not wait for the
\* readers, and one that does not wait for the other writer.
CanWriteDespiteReaders == ~isWriting
CanWriteDespiteWriter == readCount = 0

\* The predicates of the two waits.
CanWrite == readCount = 0 /\ ~isWriting
CanRead == writeCount = 0

\* One evaluation of the wait predicate of lockWrite.
TryWrite(t) ==
    \/ /\ CanWrite
       /\ isWriting' = TRUE
       /\ pc' = [pc EXCEPT ![t] = "writing"]
    \/ /\ ~CanWrite
       /\ pc' = [pc EXCEPT ![t] = "wwait"]
       /\ UNCHANGED isWriting

lockWrite(t) ==
    /\ pc[t] = "idle"
    /\ writeCount' = writeCount + 1
    /\ TryWrite(t)
    /\ UNCHANGED readCount

wakeWrite(t) ==
    /\ pc[t] = "wwoken"
    /\ TryWrite(t)
    /\ UNCHANGED <<readCount, writeCount>>

\* notify_one on m_writeCond by thread t, which goes idle: one of the waiting
\* writers is woken; without one the notification is lost.
NotifyOneWriter(t) ==
    \/ /\ In("wwait") = {}
       /\ pc' = [pc EXCEPT ![t] = "idle"]
    \/ \E w \in In("wwait") :
          pc' = [pc EXCEPT ![t] = "idle", ![w] = "wwoken"]

\* Mutant: notify_one in the place of notify_all.
NotifyOneReader(t) ==
    \/ In("rwait") = {} /\ pc' = [pc EXCEPT ![t] = "idle"]
    \/ \E r \in In("rwait") : pc' = [pc EXCEPT ![t] = "idle", ![r] = "rwoken"]

\* notify_all on m_readCond by thread t, which goes idle.
NotifyAllReaders(t) ==
    pc' = [u \in Threads |-> IF u = t THEN "idle"
                             ELSE IF pc[u] = "rwait" THEN "rwoken" ELSE pc[u]]

\* Mutant: the last writer wakes the readers, but nobody wakes a writer.
unlockWriteReadersOnly(t) ==
    /\ pc[t] = "writing"
    /\ isWriting' = FALSE
    /\ writeCount' = writeCount - 1
    /\ NotifyAllReaders(t)
    /\ UNCHANGED readCount

unlockWrite(t) ==
    /\ pc[t] = "writing"
    /\ isWriting' = FALSE
    /\ writeCount' = writeCount - 1
    /\ IF writeCount' = 0 THEN NotifyAllReaders(t) ELSE NotifyOneWriter(t)
    /\ UNCHANGED readCount

\* One evaluation of the wait predicate of lockRead.
TryRead(t) ==
    \/ /\ CanRead
       /\ readCount' = readCount + 1
       /\ pc' = [pc EXCEPT ![t] = "reading"]
    \/ /\ ~CanRead
       /\ pc' = [pc EXCEPT ![t] = "rwait"]
       /\ UNCHANGED readCount

lockRead(t) ==
    /\ pc[t] = "idle"
    /\ TryRead(t)
    /\ UNCHANGED <<writeCount, isWriting>>

wakeRead(t) ==
    /\ pc[t] = "rwoken"
    /\ TryRead(t)
    /\ UNCHANGED <<writeCount, isWriting>>

\* Mutant: the last reader wakes nobody.
unlockReadSilent(t) ==
    /\ pc[t] = "reading"
    /\ readCount' = readCount - 1
    /\ pc' = [pc EXCEPT ![t] = "idle"]
    /\ UNCHANGED <<writeCount, isWriting>>

unlockRead(t) ==
    /\ pc[t] = "reading"
    /\ readCount' = readCount - 1
    /\ IF readCount' = 0 /\ writeCount > 0
       THEN NotifyOneWriter(t)
       ELSE pc' = [pc EXCEPT ![t] = "idle"]
    /\ UNCHANGED <<writeCount, isWriting>>

\* condition_variable::wait may return without a notification.
spuriousWake(t) ==
    /\ \/ pc[t] = "wwait" /\ pc' = [pc EXCEPT ![t] = "wwoken"]
       \/ pc[t] = "rwait" /\ pc' = [pc EXCEPT ![t] = "rwoken"]
    /\ UNCHANGED <<readCount, writeCount, isWriting>>

Next ==
    \E t \in Threads :
        \/ lockWrite(t) \/ wakeWrite(t) \/ unlockWrite(t)
        \/ lockRead(t) \/ wakeRead(t) \/ unlockRead(t)
        \/ spuriousWake(t)

Spec == Init /\ [][Next]_vars

\* A woken thread gets m_Lock in the end, and the guards' destructors release
\* what was taken.  Nobody has to ask for the lock, and no spurious wake-up
\* has to happen.
Fairness ==
    \A t \in Threads :
        /\ WF_vars(wakeWrite(t)) /\ WF_vars(unlockWrite(t))
        /\ WF_vars(wakeRead(t))  /\ WF_vars(unlockRead(t))

FairSpec == Spec /\ Fairness
-------------------------------------------------------------------------------
(* Properties. *)

TypeOK ==
    /\ pc \in [Threads -> PC]
    /\ readCount \in Nat
    /\ writeCount \in Nat
    /\ isWriting \in BOOLEAN

\* A thread for which lockWrite has returned is alone: no second writer and no
\* reader is inside (the promise of WriteGuard and ReadGuard).
MutualExclusion ==
    \A t \in In("writing") :
        In("writing") = {t} /\ In("reading") = {}

\* The counters count: m_readCount the threads inside lockRead..unlockRead,
\* m_writeCount the threads that wait to write or write, and m_isWriting is
\* set exactly while one writes.
CountersExact ==
    /\ readCount = Cardinality(In("reading"))
    /\ writeCount = Cardinality(Writers)
    /\ isWriting <=> In("writing") # {}

\* No wake-up is lost: when the lock is free and a writer waits, some writer
\* has been notified and will look again; a reader waits only while a writer
\* is there to notify it.
NoLostWakeup ==
    /\ In("wwait") # {} /\ CanWrite => In("wwoken") # {}
    /\ In("rwait") # {} => writeCount > 0

\* Writers go first: no thread starts to read while a writer waits or writes.
WriterPreference ==
    [][\A t \in Threads :
          pc[t] # "reading" /\ pc'[t] = "reading" => Writers = {}]_vars

\* A waiting writer does not wait for ever while others keep entering: some
\* writer gets in.
WriterProgress == In("wwait") # {} ~> In("writing") # {}

\* Readers get in once the writers stop coming.
ReaderProgress ==
    <>[](writeCount = 0) =>
        \A t \in Threads : pc[t] = "rwait" ~> pc[t] = "reading"

\* Seen through lockRead/lockWrite returning, RWLock is a readers-writer lock.
modeBar == [t \in Threads |-> IF pc[t] = "writing" THEN "write"
                             ELSE IF pc[t] = "reading" THEN "read" ELSE "out"]
Abs == INSTANCE ReadersWriters WITH mode <- modeBar
\* RWLock implements ReadersWriters: every step of the counters and condition
\* variables is a step of the abstract lock or invisible to its users.
ImplementsReadersWriters == Abs!Spec
===============================================================================
