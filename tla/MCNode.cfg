SPECIFICATION FairSpec
CONSTANTS
    n1 = n1
    n2 = n2
    n3 = n3
    w1 = w1
    w2 = w2
    t1 = t1
    t2 = t2
    u1 = u1
    Wallet = Wallet
    Nodes <- Three
    Edges <- LineEdges
    LateEdges <- None
    Workers <- OneWorker
    Miners <- Ends
    Generators <- None
    GeneratedTxs <- None
    ClientTxs <- None
    BlockLimit = 2
    MaxBlockNum = 5
    MaxBlocks = 3
    MaxOffers = 0
INVARIANTS
    TypeOK
    SameTreeWhenQuiet
PROPERTIES
    BlocksSpread
CHECK_DEADLOCK FALSE
