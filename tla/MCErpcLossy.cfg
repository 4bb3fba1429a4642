CONSTANTS
    Window = 2
    Credits = 1
    MaxReqs = 3
    ReqPkts <- MCShortReqPkts
    RespPkts <- MCShortRespPkts
    MayPace = FALSE
    MayLose = TRUE
    None = None
SPECIFICATION FairSpec
INVARIANT ClientTxLive
PROPERTY RequestsComplete
CHECK_DEADLOCK FALSE
