SPECIFICATION Spec
CONSTANTS
    n1 = n1
    n2 = n2
    n3 = n3
    w1 = w1
    w2 = w2
    t1 = t1
    t2 = t2
    u1 = u1
    Wallet = Wallet
    Nodes <- Pair
    Edges <- None
    LateEdges <- LatePair
    Workers <- OneWorker
    Miners <- OneNode
    Generators <- None
    GeneratedTxs <- None
    ClientTxs <- C1
    BlockLimit = 1
    MaxBlockNum = 5
    MaxBlocks = 2
    MaxOffers = 2
INVARIANTS
    BlocksInStep
    MempoolConsistent
    NoDuplicateTx
CHECK_DEADLOCK FALSE
