SPECIFICATION Spec
CONSTANTS
    Procs = {a, b}
    Ancestor = Ancestor
    NoFile = NoFile
    MaxAttempts = 4
    Grace = 2
    MaxStarting = 2
    MaxReclaiming = 2
    MaxCrashes = 0
    StaleAtBoot = TRUE
SYMMETRY Symmetry
INVARIANT AtMostOneOwner
CHECK_DEADLOCK FALSE
