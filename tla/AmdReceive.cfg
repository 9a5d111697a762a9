CONSTANT N = 3
SPECIFICATION RecvSpec
INVARIANTS
    RecvRingInv
PROPERTIES
    HandledUnlessRaced
    HandledUnlessChoked
