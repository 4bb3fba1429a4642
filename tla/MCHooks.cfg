CONSTANTS
    Threads = {t1, t2}
    NoThread = nobody
    StartFd = 3
    MaxFd = 7
    MaxFiles = 2
    Calls = {"open", "close", "fstat", "getdents", "getdents64"}
    MayWrap = FALSE
    Listings <- MCListings
    UIntRange = 128
    Sizes <- MCSizes
    Registers <- MCRegisters
SYMMETRY MCSymmetry
SPECIFICATION Spec
INVARIANT NothingSkipped
PROPERTY GetdentsFits
PROPERTY OpenGetsItsFile
PROPERTY CloseHitsItsFile
CHECK_DEADLOCK FALSE
