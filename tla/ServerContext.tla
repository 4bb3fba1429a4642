---------------------------- MODULE ServerContext ----------------------------
(***************************************************************************)
(* The state of the server process (include/server/metafs_server.h) and of *)
(* its clients, shared by the modules that hold their steps.               *)
(***************************************************************************)
EXTENDS Regions, MetaKV, Sequences

CONSTANTS
    MsgLogs,     \* log records that fit in one message
    ClientIds,   \* ids that memcached gave to the client processes
    LoopMayEnd,  \* whether the 1000 seconds of the event loops may run out
    Hash(_)      \* XXH3_64bits(inode) % PINODE_HASH_RANGE

\* A request carries the client's id where the handlers read a region id
\* (RPC_ReadRegionmap leaves it in the buffer and no later call sets the
\* field).  Ids of initial regions only: a larger one can meet a temporary
\* region, which the split thread deletes under the handler's feet.
ASSUME ClientAssumption == ClientIds \subseteq Threads
ASSUME MsgAssumption == MsgLogs \in Nat \ {0} /\ InodeThreads = Threads
ASSUME LoopAssumption == LoopMayEnd \in BOOLEAN
ASSUME HashAssumption == \A i \in Inode : Hash(i) \in Hashes

VARIABLES
    region,      \* region[t][id]: what s_ctx_arr[t].region_map holds for id
    globalMap,   \* global_region_map, a set of ClientRegion records
    globalId,    \* global_region_id
    queue,       \* shared_split_queue, of <<thread, region id>>
    store,       \* store[t]: metadb of thread t
    allocInode,  \* allocInode[t]: s_ctx_arr[t].alloc_inode
    pinodeTable, \* pinodeTable[t]: the directories in its pinode_table
    logDb,       \* logDb[t]: log records of region t, at log ids 0, 1, ...
    fg,          \* fg[t]: the request foreground thread t is handling
    split,       \* the split thread
    client,      \* client[c]: what client c is doing
    view,        \* view[c]: its cached region map
    crash        \* "no", or why the server process died

vars == <<region, globalMap, globalId, queue, store, allocInode, pinodeTable,
          logDb, fg, split, client, view, crash>>

Status == {"Absent", "Normal", "ToBeSplit", "IsSplit", "SplitAlmostDone", "NotReady"}

\* A ServerRegion; "Absent" stands for an id that the map does not hold.
Region == [start : Nat, end : Nat, left : RegionIds, kvNum : Int, logId : Nat,
           status : Status]
NewRegion(range, left, status) ==
    [start |-> range.start, end |-> range.end, left |-> left,
     kvNum |-> 0, logId |-> 0, status |-> status]
NoRegion == NewRegion([start |-> 0, end |-> 0], 0, "Absent")

Present(t, id) == region[t][id].status # "Absent"

\* The entry of the global map for a region.
MapEntry(id, r) == [id |-> id, start |-> r.start, end |-> r.end]

LogRecord == [del : BOOLEAN, pinode : Inode, name : Names]

Updates == {"mknod", "mkdir", "unlink", "rmdir"}
Lookups == {"open", "stat", "getinode", "readdir"}
Ops == Updates \cup Lookups

\* No thread or region is being split.
None == -1

CrashReasons == {"null region", "s_ctx in use", "region gone", "left region gone",
                 "p_assert(false) in rpc_send_region", "not in global map",
                 "range too small", "write log fail"}

Responses == {"none", "kSuccess", "kEXIST", "kENOENT", "kEBUSY", "kUpdateRegionMap"}

\* What a foreground thread, the split thread and a client keep on their
\* stacks and in thread-local variables (s_ctx of the split thread is ctx).
FgPc == {"idle", "status", "reject", "exec", "addstat", "delstat", "table", "cas",
         "split", "log", "logId", "put", "reply", "stopped"}
FgState == [pc : FgPc, client : Threads, belongs : BOOLEAN, resp : Responses,
            inode : Inode, logAt : Nat]
SplitPc == {"poll", "create", "createReq", "createResp", "scan", "logRead", "logLeft",
            "shrink", "publish", "logReq", "logResp", "reset"}
SplitState == [pc : SplitPc, ctx : Threads \cup {None}, nr : RegionIds \cup {None},
               left : RegionIds \cup {None}, todo : SUBSET Inode, next : Nat,
               msg : Seq(LogRecord), logStatus : {"FarToDone", "AlmostDone", "Done"}]
ClientPc == {"off", "readmap", "idle", "sent", "served", "answered", "resend", "dead"}
ClientState == [pc : ClientPc, op : Ops, pinode : Inode, name : Names, hash : Nat,
                session : Threads, retried : BOOLEAN, resp : Responses]

IdleFg == [pc |-> "idle", client |-> 0, belongs |-> TRUE, resp |-> "none",
           inode |-> Root, logAt |-> 0]
IdleSplit == [pc |-> "poll", ctx |-> None, nr |-> None, left |-> None, todo |-> {},
              next |-> 0, msg |-> <<>>, logStatus |-> "FarToDone"]
IdleClient == [pc |-> "idle", op |-> "stat", pinode |-> Root,
               name |-> CHOOSE n \in Names : TRUE, hash |-> 0, session |-> 0,
               retried |-> FALSE, resp |-> "none"]

\* init_alloc_inode leaves the first number to allocate, 1; register_region
\* has run on every thread; no client has started.
Init ==
    /\ region = [t \in Threads |-> [id \in RegionIds |->
                    IF id = t THEN NewRegion(InitialRange(t), 0, "Normal")
                    ELSE NoRegion]]
    /\ globalMap = {MapEntry(t, InitialRange(t)) : t \in Threads}
    /\ globalId = NumThreads
    /\ queue = <<>>
    /\ store = [t \in Threads |-> EmptyStore]
    /\ allocInode = [t \in Threads |-> 1]
    /\ pinodeTable = [t \in Threads |-> {}]
    /\ logDb = [t \in Threads |-> <<>>]
    /\ fg = [t \in Threads |-> IdleFg]
    /\ split = IdleSplit
    /\ client = [c \in ClientIds |-> [IdleClient EXCEPT !.pc = "off"]]
    /\ view = [c \in ClientIds |-> {}]
    /\ crash = "no"

\* A failed p_assert or a null dereference kills the process: nothing else
\* of the state matters any more.
Die(reason) ==
    /\ crash' = reason
    /\ UNCHANGED <<region, globalMap, globalId, queue, store, allocInode,
                   pinodeTable, logDb, fg, split, client, view>>

\* The split thread holds the read lock of thread t's pinode_table while it
\* scans, and the write lock of the global map while it replaces the entry.
TableLocked(t) == split.pc = "scan" /\ split.ctx = t
MapLocked == split.pc = "publish"
===============================================================================
