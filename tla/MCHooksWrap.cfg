CONSTANTS
    Threads = {t1}
    NoThread = nobody
    StartFd = 3
    MaxFd = 6
    MaxFiles = 2
    Calls = {"open", "close", "fstat", "lseek", "dup", "dup2"}
    MayWrap = TRUE
    Listings <- MCListings
    UIntRange = 128
    Sizes <- MCSizes
    Registers <- MCRegisters
SPECIFICATION Spec
PROPERTY OpenGetsItsFile
CHECK_DEADLOCK FALSE
