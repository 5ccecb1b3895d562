SPECIFICATION MCSpec
CONSTANTS
    NT = 4
    Problems <- BackwardMax
    Solves <- None
INVARIANTS
    UpdatedOnce
