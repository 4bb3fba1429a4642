------------------------------ MODULE Ownership ------------------------------
(***************************************************************************)
(* What splitting regions promises to the clients: the hashes of parent    *)
(* directories are divided into ranges, each owned by one region, and      *)
(* ownership changes only when the upper part of one range moves, at once, *)
(* to a region that owned nothing.                                         *)
(***************************************************************************)
EXTENDS Integers

CONSTANTS
    RegionIds,
    Initial      \* the ranges at the start
VARIABLE owned   \* a set of records [id, start, end]

Init == owned = Initial

Idle(id) == \A r \in owned : r.id # id

\* The owner of r keeps what lies below k, at least one hash, and gives the
\* rest to nr.
Split(r, k, nr) ==
    /\ Idle(nr)
    /\ owned' = (owned \ {r}) \cup {[id |-> r.id, start |-> r.start, end |-> k - 1],
                                    [id |-> nr, start |-> k, end |-> r.end]}

Next == \E r \in owned : \E k \in r.start + 1 .. r.end, nr \in RegionIds : Split(r, k, nr)

Spec == Init /\ [][Next]_owned
===============================================================================
