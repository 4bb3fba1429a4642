CONSTANTS
    NumThreads = 2
    HashRange = 4
    SplitThreshold = 0
    AlmostDoneLogs = 2
    MaxRegionId = 7
    MsgLogs = 1
    MaxInode = 3
    StoreMayFail = FALSE
    LoopMayEnd = FALSE
    MaxLogId = 1
    MaxMiscount = 1
    InodeThreads = {0, 1}
    Names = {"a"}
    ClientIds = {0, 1}
    ClientOps = {"mknod", "mkdir", "unlink", "rmdir", "open", "stat", "getinode", "readdir"}
    Jump <- MCJump
    Hash <- MCHash
SPECIFICATION Spec
INVARIANT LeftHalfKept
CHECK_DEADLOCK FALSE
