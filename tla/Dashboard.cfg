SPECIFICATION DashboardSpec
CONSTANTS
    Requests = {r1, r2}
    Pendings = {p1}
    MaxMints = 2
    CodesEach = 1
    MaxClock = 1
    Drift = 1
    MaxAttempts = 2
    None = None
    Browsers = {tab}
    MaxAsks = 2
    MaxFaults = 2
    Saves = {s, t}
    Values = {Cleared, chosen}
    Cleared = Cleared
    MaxSaves = 2
    MaxSlips = 1
    Guilds = {north, south}
    Presses = {p, q}
    Loading = Loading
    MaxLoads = 3
    MaxEdits = 2
    MaxBlunders = 1
    Switches = {on, off}
    Random = Random
    Fixed = Fixed
    Retries = 1
    MaxAgents = 2
    MaxUrls = 3
    MaxTroubles = 2
    Absent = Absent
SYMMETRY Alike
INVARIANTS
    TypesOK
    GuessesAreBounded
    AnswersAreTrue
    ScreensTellTheTruth
    TunnelIsOurs
PROPERTIES
    CodesAreTakenOnce
CHECK_DEADLOCK FALSE
