SPECIFICATION Spec
CONSTANTS
    Fanout = 2
    PageSize = 4096
    Sizes = {16, 100, 4096, 5000, 12288}
    SlabSlots = 2
    NodeCap = 1
    Frames = 12
    ArenaPages = 500000
    MaxLive = 3
INVARIANTS
    TypeOK
    FullBitsExact
    SlabListExact
    HeapObjectsExclusive
    LargeMappedExactly
PROPERTY
    ImplementsKernelHeap
