SPECIFICATION Spec
CONSTANTS
    Transports = {"structured"}
    MaxBuffered = 3
    MaxSeq = 4
    MaxEpoch = 1
    MaxLosses = 1
INVARIANTS
    NothingSkipped
CHECK_DEADLOCK FALSE
