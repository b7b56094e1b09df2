CONSTANTS
    Words = {0, 1}
    MaxMessages = 2
SPECIFICATION Spec
CHECK_DEADLOCK FALSE
INVARIANT HandedAsSent
