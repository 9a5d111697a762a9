CONSTANTS
    Start = 3
    Size = 17
    Hdr = 2
    Requests = {1, 3}
    LineSize = 3
    PacketSizes = {1, 3}
SPECIFICATION IrqSpec
INVARIANTS
    CopyIsPrivate
CHECK_DEADLOCK FALSE
