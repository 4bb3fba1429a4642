CONSTANTS
    Window = 1
    Credits = 1
    MaxReqs = 1
    ReqPkts <- MCShortReqPkts
    RespPkts <- MCShortRespPkts
    MayPace = TRUE
    MayLose = FALSE
    None = None
SPECIFICATION Spec
INVARIANT ClientTxLive
CHECK_DEADLOCK FALSE
