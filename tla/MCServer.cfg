SPECIFICATION FairSpec
CONSTANTS
    x1 = x1
    k1 = k1
    Clients <- OneClient
    KnownPeers <- OneKnown
    ControlCap = 2
    InboxCap = 1
    NumWorkers = 1
    MaxConns = 2
    MaxMessages = 2
    Watched = 2
INVARIANTS
    TypeOK
    PeersFollowConnections
    NoBroadcastLost
    ServerStops
PROPERTIES
    ConnectAnswered
    BroadcastArrives
CHECK_DEADLOCK FALSE
