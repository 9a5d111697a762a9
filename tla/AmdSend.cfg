CONSTANT N = 3
SPECIFICATION SendSpec
INVARIANTS
    SendRingInv
    SentInOrder
PROPERTIES
    OverrunOnlyWhenFull
    EveryFrameSent
