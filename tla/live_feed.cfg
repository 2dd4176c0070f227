CONSTANTS
    Browser = {"b1"}
    RingSize = 3
    Buffer = 2
    MaxSeq = 5
    MaxBoots = 2
    MaxLosses = 2
SPECIFICATION Spec
INVARIANTS NothingSkipped
PROPERTIES CatchesUp
CHECK_DEADLOCK FALSE
