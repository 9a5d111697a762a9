CONSTANTS
    BufLen = 3
    MaxKeys = 5
SPECIFICATION Spec
INVARIANTS
    LineInv
    PressActsOnce
PROPERTIES
    InOrder
    WaitingKeyCounts
CHECK_DEADLOCK FALSE
