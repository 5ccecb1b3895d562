SPECIFICATION Spec
CONSTANTS
    N = 3
    Packs <- MCPacks
    MaxSize = 2
    Blocks = {b1, b2}
    NULL = NULL
INVARIANTS
    BufferIsHeld
    PackedDataStable
    LocalOutlivesReaders
PROPERTIES
    AllReturn
