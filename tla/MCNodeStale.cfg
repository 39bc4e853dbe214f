SPECIFICATION Spec
CONSTANTS
    n1 = n1
    n2 = n2
    n3 = n3
    w1 = w1
    w2 = w2
    t1 = t1
    t2 = t2
    u1 = u1
    Wallet = Wallet
    Nodes <- Pair
    Edges <- PairEdge
    LateEdges <- None
    Workers <- OneWorker
    Miners <- Pair
    Generators <- None
    GeneratedTxs <- None
    ClientTxs <- None
    BlockLimit = 2
    MaxBlockNum = 5
    MaxBlocks = 2
    MaxOffers = 0
PROPERTIES
    MinesOnLongest
CHECK_DEADLOCK FALSE
