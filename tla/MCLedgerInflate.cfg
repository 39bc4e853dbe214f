SPECIFICATION Spec
CONSTANTS
    A = A
    B = B
    Nobody = Nobody
    Ico = "ico"
    IcoOwner <- Nobody
    IcoValue = 3
    MaxValue = 4
    IndexModulus = 2
    Tx <- AllTxs
    MaxTxs = 2
    MaxBlocks = 3
INVARIANTS
    VerifiedNeverInflates
CHECK_DEADLOCK FALSE
