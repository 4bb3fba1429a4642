CONSTANTS
    MaxSessions = 2
    ClientRing = 2
    ServerRing = 1
    MayFail = TRUE
    Lossy = {"kConnectReq", "kConnectResp"}
    None = None
SPECIFICATION FairSpec
INVARIANT OneServerSession
INVARIANT PeerLive
INVARIANT RingsConserved
INVARIANT AssertsHold
INVARIANT CallbacksInOrder
PROPERTY ConnectEnds
CHECK_DEADLOCK FALSE
