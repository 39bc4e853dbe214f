SPECIFICATION FairSpec
CONSTANTS
    Threads <- Five
    Role <- RoleOfFive
    MayPanic <- FivePanic
    ControlCap = 1
    MaxSignals <- FewSignals
INVARIANTS
    TypeOK
    OneBodyAtATime
    NoCircularWait
    PoisonIsTotal
PROPERTIES
    GateReopens
    StartsOrEnds
CHECK_DEADLOCK FALSE
