CONSTANTS
    Window = 3
    Credits = 2
    MaxReqs = 4
    ReqPkts <- MCReqPkts
    RespPkts <- MCRespPkts
    MayPace = TRUE
    MayLose = FALSE
    None = None
SPECIFICATION Spec
INVARIANT CreditsConserved
INVARIANT NoSlotForgotten
INVARIANT AssertsHold
INVARIANT ServerTxLive
INVARIANT WheelFlagsExact
INVARIANT RightAnswers
PROPERTY ImplementsService
CHECK_DEADLOCK FALSE
