SPECIFICATION Spec
CONSTANTS
    Jobs = {j1, j2, j3}
    Keys = {k1, k2}
    None = None
    Lowest = 1
    Ceiling = 2
    Window = 3
    MinRetry = 2
    DebounceDelay = 1
    FlushBudget = 2
INVARIANTS
    NoLostWakeup
    CeilingRespected
    FlushLosesAtMostOne
PROPERTIES
    NoMicrotaskSpin
    EveryJobSettles
    ShutdownEnds
    DeliversAtTheCeiling
CHECK_DEADLOCK FALSE
