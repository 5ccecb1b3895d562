SPECIFICATION Spec
CONSTANTS
    NT = 4
    Operations <- BothOperations
INVARIANTS
    ClosedBeforeFree
    ArrayOutlivesReaders
    FreedOnce
    TeamsAgree
    DistinctWork
PROPERTIES
    AllReturn
