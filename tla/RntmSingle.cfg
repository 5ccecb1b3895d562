SPECIFICATION Spec
CONSTANTS
    Apps = {"a", "b"}
    RatioM = 1
    RatioN = 1
    MaxIR = 1
    MaxJR = 4
    NTMaxPrime = 11
    AtInit <- PosixRntm
    Numbers = {6}
    WaysSet <- WaysAsked
    Sizes <- SizesOfC
    Available <- WithPosix
    BlockPtrsLen = 1
    MaxSettings <- SettingsOf
    MaxOps <- OpsOf
INVARIANTS
    NumThreadsHonoured
