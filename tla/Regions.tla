------------------------------- MODULE Regions -------------------------------
(***************************************************************************)
(* The vocabulary of region splitting (include/common/region.h,            *)
(* src/server/region_and_log.cc): ranges of parent-inode hashes, the       *)
(* server that holds a region, and the arithmetic of a split.              *)
(*                                                                         *)
(* One server process with NumThreads foreground threads, as in config/:   *)
(* its global_id's, the eRPC sessions and the threads are all 0 ..         *)
(* NumThreads-1.                                                           *)
(***************************************************************************)
EXTENDS Integers, FiniteSets

CONSTANTS
    NumThreads,      \* server_fg_threads
    HashRange,       \* PINODE_HASH_RANGE, a power of two
    SplitThreshold,  \* region_split_threshold
    AlmostDoneLogs,  \* log_almost_done_threshold
    MaxRegionId,     \* bound on the region ids handed out
    Jump(_)          \* JumpConsistentHash(id, number of sessions)

Threads == 0 .. NumThreads - 1
RegionIds == 0 .. MaxRegionId
Hashes == 0 .. HashRange - 1
HashSpace == 0 .. NumThreads * HashRange - 1

ASSUME RegionAssumptions ==
    /\ NumThreads \in Nat \ {0}
    /\ HashRange \in Nat \ {0}
    /\ SplitThreshold \in Nat
    /\ AlmostDoneLogs \in Nat \ {0}
    /\ MaxRegionId \in Nat /\ MaxRegionId >= NumThreads
    /\ \A id \in RegionIds : Jump(id) \in Threads

\* The session, and so the thread, that serves a region.
SessionOf(id) == IF id < NumThreads THEN id ELSE Jump(id)

\* The range that register_region gives to thread t.
InitialRange(t) == [start |-> t * HashRange, end |-> (t + 1) * HashRange - 1]

\* Mutant: the new range starts at the last hash that the old one keeps.
NewRangeOverlapping(e) == [start |-> e \div 2, end |-> e]

\* The two closed ranges a split makes out of a region that ends at e: the
\* new region (check_region_and_split) and the new end of the old one
\* (rpc_send_region_log).
NewRange(e) == [start |-> (e \div 2) + 1, end |-> e]
ShrunkEnd(e) == e \div 2

\* A region's range is closed on both sides.
InRange(h, r) == r.start <= h /\ h <= r.end
check_is_blong_to_region(region, hash) == InRange(hash, region)

\* kv_num is an int32_t and the threshold a uint32_t: the comparison is
\* unsigned, so that a negative count is above every threshold.
AboveThreshold(kvNum) == kvNum < 0 \/ kvNum > SplitThreshold

\* Which statuses are served, and what the others are told.
Serving(status) == status \in {"Normal", "IsSplit"}
Refusal(status) ==
    IF status = "SplitAlmostDone" THEN "kUpdateRegionMap" ELSE "kEBUSY"

\* Mutant: the transfer counts as done only below zero.
LogStatusNeverDone(left) ==
    IF left < 0 THEN "Done"
    ELSE IF left < AlmostDoneLogs THEN "AlmostDone" ELSE "FarToDone"

\* How far the log transfer is when left log records are still to be sent.
LogStatus(left) ==
    IF left <= 0 THEN "Done"
    ELSE IF left < AlmostDoneLogs THEN "AlmostDone" ELSE "FarToDone"

\* A region map entry (ClientRegion).
ClientRegion == [id : RegionIds, start : Nat, end : Nat]

\* find_region_id: a sequential search in the order of the ranges; -1 when
\* no region holds the hash.
find_region_id(map, h) ==
    LET hits == {r \in map : InRange(h, r)}
        first == {r \in hits : \A q \in hits : r.start <= q.start}
    IN  IF first = {} THEN -1 ELSE (CHOOSE r \in first : TRUE).id

\* A map in which every hash of the space has exactly one region.
IsPartition(map) ==
    \A h \in HashSpace : \E r \in map :
        InRange(h, r) /\ \A q \in map : InRange(h, q) => q = r
===============================================================================
