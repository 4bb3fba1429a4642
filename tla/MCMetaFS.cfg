CONSTANTS
    NumThreads = 2
    HashRange = 4
    SplitThreshold = 0
    AlmostDoneLogs = 2
    MaxRegionId = 6
    MsgLogs = 1
    MaxInode = 3
    StoreMayFail = TRUE
    LoopMayEnd = TRUE
    MaxLogId = 2
    MaxMiscount = 1
    InodeThreads = {0, 1}
    Names = {"a"}
    ClientIds = {0}
    ClientOps = {"mkdir", "unlink", "rmdir", "open", "stat", "getinode", "readdir"}
    Jump <- MCJump
    Hash <- MCHash
SPECIFICATION FairSpec
INVARIANT MapsArePartitions
INVARIANT MapMatchesServers
INVARIANT OneServerPerHash
INVARIANT KvNumNeverOver
INVARIANT LogHasNoGaps
INVARIANT SuccessIsWhole
PROPERTY EntriesKeepStats
PROPERTY ImplementsOwnership
PROPERTY SplitCompletes
CHECK_DEADLOCK FALSE
