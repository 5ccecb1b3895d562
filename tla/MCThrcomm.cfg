SPECIFICATION MCSpec
CONSTANTS
    N = 4
    Calls <- MCCalls
    TreeN = 5
    ARITY = 2
    Crossings = 3
INVARIANTS
    TypeOK
    BarrierSync
    BcastAgreement
    NoLostToggle
    TreeFreesAll
PROPERTIES
    ImplementsBarrier
    TreeImplementsBarrier
    CondImplementsBarrier
    EveryCallReturns
