SPECIFICATION MCSpec
CONSTANTS
    NT = 4
    Problems <- Correct
    Solves <- Systems
INVARIANTS
    UpdatedOnce
    AllUpdated
    SolvesNeverGarbled
PROPERTIES
    AllReturn
    SolutionComputed
