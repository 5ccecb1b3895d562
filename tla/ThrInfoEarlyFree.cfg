SPECIFICATION Spec
CONSTANTS
    NT = 4
    Operations <- SupOnly
INVARIANTS
    NoUseAfterFree
