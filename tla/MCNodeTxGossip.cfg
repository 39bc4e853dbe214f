SPECIFICATION FairSpec
CONSTANTS
    n1 = n1
    n2 = n2
    n3 = n3
    w1 = w1
    w2 = w2
    t1 = t1
    t2 = t2
    u1 = u1
    Wallet = Wallet
    Nodes <- Three
    Edges <- LineEdges
    LateEdges <- None
    Workers <- TwoWorkers
    Miners <- Middle
    Generators <- Ends
    GeneratedTxs <- G1
    ClientTxs <- None
    BlockLimit = 1
    MaxBlockNum = 1
    MaxBlocks = 2
    MaxOffers = 0
INVARIANTS
    GeneratedBacked
PROPERTIES
    TxsSpread
CHECK_DEADLOCK FALSE
