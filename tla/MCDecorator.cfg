SPECIFICATION Spec
CONSTANTS
    Apps = {"a", "b"}
    RatioM = 1
    RatioN = 1
    MaxIR = 1
    MaxJR = 4
    NTMaxPrime = 2
    AtInit <- InitialRntm
    Numbers = {3}
    WaysSet <- WaysAsked
    Sizes <- SizesOfC
    Available <- Impls2
    BlockPtrsLen = 1
    MaxSettings <- SettingsOf
    MaxOps <- OpsOf
INVARIANTS
    TeamIsWays
    ArraysAccounted
    PoolsKept
PROPERTIES
    OperationsReturn
