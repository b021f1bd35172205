SPECIFICATION StartsAndReadsSpec
CONSTANTS
    Procs = {a, b, c}
    Ancestor = Ancestor
    NoFile = NoFile
    MaxAttempts = 10
    Grace = 2
    MaxStarting = 3
    MaxReclaiming = 1
    MaxCrashes = 2
    StaleAtBoot = TRUE
    Screens = {s, t}
    Depth = 2
    Ttl = 1
    Call = 1
    Writers = {"save"}
    CanFail = TRUE
    MaxTime = 1
    MaxVersion = 1
    NoEntry = NoEntry
    NoFlight = NoFlight
    NoAnswer = NoAnswer
    Failed = Failed
    Absent = Absent
    Idle = Idle
    Reading = Reading
    Savers = {w}
    Runs = {k, l}
    MaxInstants = 3
    MaxSaves = 1
    MaxMishaps = 1
INVARIANTS
    OwnerHoldsTheFile
    NeverWedged
PROPERTIES
    LiveRecordUntouched
    EveryStartDecides
    EveryAskAnswered
    PresenceSettles
CHECK_DEADLOCK FALSE
