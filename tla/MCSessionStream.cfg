SPECIFICATION FairSpec
CONSTANTS
    Transports = {"terminal", "structured"}
    MaxBuffered = 2
    MaxSeq = 4
    MaxEpoch = 2
    MaxLosses = 2
INVARIANTS
    TypeOK
    InOrder
PROPERTIES
    Promise
    ReachesScreen
CHECK_DEADLOCK FALSE
