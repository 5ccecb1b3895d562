SPECIFICATION MCSpec
CONSTANTS
    NT = 4
    Problems <- None
    Solves <- FirstLoopSystems
INVARIANTS
    SolvesNeverGarbled
