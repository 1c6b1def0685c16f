CONSTANTS
    Align = 2
    UsedHdr = 2
    FullHdr = 4
    Data = 2
    BlockSize = 28
    Requests = {0, 3, 5}
    Junk = 1
SPECIFICATION Spec
INVARIANTS HeapSound RefusedOnlyWhenFull
PROPERTY ImplementsAllocator
