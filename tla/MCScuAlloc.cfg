\* TLC configuration of MCScuAlloc.
CONSTANTS
    t1 = t1
    t2 = t2
    t3 = t3
    default = default
    arena = arena
    pool = pool
    b1 = b1
    b2 = b2
    b3 = b3
    Nullptr = Nullptr
    Default <- default
    Thread <- MCThread
    Allocator <- MCAllocator
    Block <- MCBlock
SYMMETRY MCSymmetry
SPECIFICATION Spec
INVARIANTS TypeOK GoesHome NothingLost
