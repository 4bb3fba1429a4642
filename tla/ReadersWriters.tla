---------------------------- MODULE ReadersWriters ----------------------------
(***************************************************************************)
(* What the code that uses RWLock (include/util/rwlock.h) relies on: a     *)
(* thread is outside, reads or writes; a writer is alone.  Waiting,        *)
(* counters and condition variables are not visible here.                  *)
(***************************************************************************)
CONSTANT Threads
VARIABLE mode

States == {"out", "read", "write"}

Init == mode = [t \in Threads |-> "out"]

\* A thread starts to read when nobody writes.
AcquireRead(t) ==
    /\ mode[t] = "out"
    /\ \A u \in Threads : mode[u] # "write"
    /\ mode' = [mode EXCEPT ![t] = "read"]

\* A thread starts to write when nobody reads or writes.
AcquireWrite(t) ==
    /\ mode[t] = "out"
    /\ \A u \in Threads : mode[u] = "out"
    /\ mode' = [mode EXCEPT ![t] = "write"]

Release(t) ==
    /\ mode[t] # "out"
    /\ mode' = [mode EXCEPT ![t] = "out"]

Next == \E t \in Threads : AcquireRead(t) \/ AcquireWrite(t) \/ Release(t)

Spec == Init /\ [][Next]_mode
===============================================================================
