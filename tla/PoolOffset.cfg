SPECIFICATION Spec
CONSTANTS
    Mems = {m1, m2}
    Blocks = {b1, b2, b3, b4}
    NULL = NULL
    Sizes = {1, 2}
    InitNum = 0
    InitLen = 0
    InitSize = 1
    OffsetSize = 1
SYMMETRY Symmetry
INVARIANTS
    NoBadFree
