SPECIFICATION Spec
CONSTANTS
    Slot = 2
    MaxAcks = 10
    MaxNow = 10
INVARIANTS
    EachAckCounted SlotNotAhead  WindowTracksThroughput
CHECK_DEADLOCK FALSE
