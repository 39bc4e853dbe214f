SPECIFICATION Spec
CONSTANTS
    Leaves <- TwoLeaves
    MaxLeaves = 9
INVARIANTS
    VectorIsTree
    ProofsVerify
CHECK_DEADLOCK FALSE
