SPECIFICATION Spec
CONSTANTS
    Transports = {"structured"}
    MaxBuffered = 2
    MaxSeq = 4
    MaxEpoch = 1
    MaxLosses = 1
PROPERTIES
    KeptUnlessTruncated
CHECK_DEADLOCK FALSE
