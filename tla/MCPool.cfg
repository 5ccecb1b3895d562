SPECIFICATION Spec
CONSTANTS
    Mems = {m1, m2, m3}
    Blocks = {b1, b2, b3, b4, b5, b6}
    NULL = NULL
    Sizes = {1, 2, 3}
    InitNum = 1
    InitLen = 0
    InitSize = 1
    OffsetSize = 0
SYMMETRY Symmetry
INVARIANTS
    NoAbort
    NoBadFree
    Accounting
    BigEnough
    BoundedGrowth
PROPERTIES
    ImplementsAllocator
