CONSTANTS
    Start = 3
    Size = 17
    Hdr = 2
    Requests = {0, 1, 3}
SPECIFICATION Spec
INVARIANTS
    HeapInv
    HeapRestored
    FailureJustified
    SearchFinds
PROPERTIES
    ImplementsAllocator
