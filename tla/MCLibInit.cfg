SPECIFICATION MCSpec
CONSTANTS
    Threads = {t1, t2}
    MaxCalls = 3
    NULL = NULL
    Contexts = 2
    Registered = 4
    BlockLen = 1
    MaxBlocks = 6
    Failures = 1
INVARIANTS
    OneAtATime
    CallsTakeEffect
    IdsAreNew
    FailsForReason
PROPERTIES
    EveryCallReturns
    LookupsNeedNoLock
