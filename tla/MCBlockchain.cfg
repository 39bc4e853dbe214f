SPECIFICATION Spec
CONSTANTS
    NumBlocks = 5
    MayLackPow <- FirstAndThird
INVARIANTS
    TypeOK
    LengthIsDepth
    NoStrandedOrphan
    TipIsLongest
PROPERTIES
    NoBlockLost
    InsertReturns
    ImplementsBlockTree
