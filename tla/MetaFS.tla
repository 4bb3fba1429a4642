-------------------------------- MODULE MetaFS --------------------------------
(***************************************************************************)
(* The server process with its foreground threads and its split thread,    *)
(* and the clients.  The modules FsHandlers, RegionSplit and MetaClient    *)
(* hold the steps; they share the variables of ServerContext.              *)
(***************************************************************************)
EXTENDS FsHandlers, RegionSplit, MetaClient

Sets == INSTANCE FiniteSetsExt

Alive(A) == crash = "no" /\ A

Next ==
    /\ crash = "no"
    /\ \/ \E t \in Threads : FgStep(t) \/ TargetStep(t) \/ run_server_thread_end(t)
       \/ SplitStep
       \/ \E c \in ClientIds : ClientStep(c)

Spec == Init /\ [][Next]_vars

\* The event loop of a foreground thread takes what has arrived, and the split
\* thread keeps running.  Clients may stop at any time.
Fairness ==
    /\ \A t \in Threads : /\ WF_vars(Alive(FgStep(t)))
                          /\ WF_vars(Alive(TargetStep(t)))
    /\ WF_vars(Alive(SplitStep))

FairSpec == Spec /\ Fairness
-------------------------------------------------------------------------------
(* Properties. *)

\* Types, and what makes the steps meaningful: a thread that handles a request
\* knows the client; past the poll the split thread has a context and a region;
\* its log cursor lies within the log; at the poll it has nothing.
TypeOK ==
    /\ region \in [Threads -> [RegionIds -> Region]]
    /\ globalMap \in SUBSET ClientRegion
    /\ globalId \in 0 .. MaxRegionId + 1
    /\ queue \in Seq(Threads \X RegionIds)
    /\ store \in [Threads -> [files : SUBSET Entry, stats : SUBSET Inode]]
    /\ allocInode \in [Threads -> 1 .. MaxInode + 1]
    /\ pinodeTable \in [Threads -> SUBSET Inode]
    /\ logDb \in [Threads -> Seq(LogRecord)]
    /\ fg \in [Threads -> FgState]
    /\ split \in SplitState
    /\ client \in [ClientIds -> ClientState]
    /\ view \in [ClientIds -> SUBSET ClientRegion]
    /\ crash \in CrashReasons \cup {"no"}
    /\ \A t \in Threads : fg[t].pc \notin {"idle", "stopped"} => fg[t].client \in ClientIds
    /\ split.pc = "poll" => split = IdleSplit
    /\ split.pc # "poll" => split.ctx \in Threads /\ split.nr \in RegionIds
    /\ split.pc \notin {"poll", "create"} => split.left \in RegionIds
    /\ split.pc # "poll" => split.next + Len(split.msg) <= Len(logDb[split.ctx])

\* Every region map that a client can read, and every map that one has
\* cached, gives each hash exactly one region, so that find_region_id always
\* finds one (the p_assert after it in rpc_client.cc).
MapsArePartitions ==
    /\ ~MapLocked => IsPartition(globalMap)
    /\ \A c \in ClientIds : view[c] # {} => IsPartition(view[c])

\* What the map promises, some thread holds: the region of every entry exists
\* on the thread its id leads to, with the same range.
MapMatchesServers ==
    \A r \in globalMap :
        /\ Present(SessionOf(r.id), r.id)
        /\ MapEntry(r.id, region[SessionOf(r.id)][r.id]) = r

\* At no time do two threads serve the same hash: the target does not start
\* before the origin has given the upper half up.
ServersOf(h) ==
    {p \in Threads \X RegionIds :
        /\ SessionOf(p[2]) = p[1]
        /\ Serving(region[p[1]][p[2]].status)
        /\ InRange(h, region[p[1]][p[2]])}
OneServerPerHash == \A h \in HashSpace : Cardinality(ServersOf(h)) <= 1

\* A region is in a split exactly while its split is on its way: about to be
\* queued by the foreground thread, queued, or in the split thread's hands,
\* in one of these places only.
SplitTokens(t) ==
    (IF fg[t].pc = "split" THEN 1 ELSE 0)
    + Cardinality({i \in DOMAIN queue : queue[i][1] = t})
    + (IF split.ctx = t THEN 1 ELSE 0)
OneSplitAtATime ==
    \A t \in Threads :
        SplitTokens(t) =
            IF region[t][t].status \in {"IsSplit", "SplitAlmostDone"} THEN 1 ELSE 0

\* The process dies only where the code cannot continue with what it found:
\* the assertions on the queue, the maps and the temporary region
\* (metafs_server.cc:159, region_and_log.cc:156, 184, 775) never fail.
PipelineAssertsHold ==
    crash \notin {"s_ctx in use", "region gone", "left region gone", "not in global map"}

\* The counts of a thread's regions together never exceed the entries it stores,
\* but for the one whose removal is not counted yet: no region passes the
\* threshold by entries that are not there.  (The counts may fall short, and
\* even below zero, which the unsigned comparison takes for large: rmdir counts a
\* removal that failed, and a replay every record, see server_handler.cc:608.)
KvNumNeverOver ==
    \A t \in Threads :
        Sets!MapThenSumSet(LAMBDA id : region[t][id].kvNum, RegionIds)
            <= Cardinality(store[t].files) + (IF fg[t].pc = "delstat" THEN 1 ELSE 0)

\* The log has a record at every id below log_id, but for the one that is
\* being written, and no record is written beyond its end: although the id is
\* taken before the record is written, and although the split thread sets
\* log_id back to 0 between the two.
LogHasNoGaps ==
    \A t \in Threads :
        /\ fg[t].pc = "put" => fg[t].logAt <= Len(logDb[t])
        /\ region[t][t].logId <= Len(logDb[t]) + (IF fg[t].pc = "put" THEN 1 ELSE 0)

\* A success that a client is told is whole, whichever calls of the store may
\* have failed: after a create the entry is there with the number in the answer
\* and so is its stat; after a removal both are gone.
SuccessIsWhole ==
    \A t \in Threads : fg[t].pc = "reply" /\ fg[t].resp = "kSuccess" =>
        LET found == Found(store[t], Req(t).pinode, Req(t).name)
        IN  /\ Req(t).op \in {"mknod", "mkdir"} =>
                  fg[t].inode \in store[t].stats /\ \E e \in found : e.inode = fg[t].inode
            /\ Req(t).op \in {"unlink", "rmdir"} =>
                  fg[t].inode \notin store[t].stats /\ found = {}

\* An entry that stays keeps its stat: neither the removal of another entry,
\* nor a replay at the target of a split, takes it away.
EntriesKeepStats ==
    [][\A t \in Threads : \A e \in store[t].files \cap store'[t].files :
          e.inode \in store[t].stats => e.inode \in store'[t].stats]_vars

\* The map as clients see it: while the split thread holds the map's lock, the
\* old entry still counts.
VisibleMap ==
    IF MapLocked
    THEN globalMap \cup {[id |-> split.left, start |-> Left.start, end |-> Nr.end]}
    ELSE globalMap
Owners == INSTANCE Ownership WITH
    owned <- VisibleMap,
    Initial <- {MapEntry(t, InitialRange(t)) : t \in Threads}
\* Seen through the global map, splits move the upper part of one region at
\* once to a new region.
ImplementsOwnership == Owners!Spec

\* A split ends, unless the process dies, a foreground thread has left its event
\* loop (run_event_loop(1000000)), or the thread that is split goes on logging:
\* from every moment of a split on, another record is written or it ends.
SplitCompletes ==
    \A t \in Threads :
        region[t][t].status \in {"IsSplit", "SplitAlmostDone"} ~>
            \/ region[t][t].status = "Normal"
            \/ fg[t].pc = "put"
            \/ crash # "no"
            \/ \E u \in Threads : fg[u].pc = "stopped"
-------------------------------------------------------------------------------
(* What the repository says and the code does not do. *)

\* "the region id of the left half of a split" (region.h:42): a region that
\* splits keeps a part of its range.
LeftHalfKept == \A r \in globalMap : r.start <= r.end
===============================================================================
