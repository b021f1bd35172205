SPECIFICATION EventsSpec
CONSTANTS
    Callers = {a, b}
    Ttl = 2
    Latency = 1
    MaxTime = 5
    MaxVersion = 2
    NoEntry = NoEntry
    NoAnswer = NoAnswer
    Failed = Failed
    hop = hop
    leave = leave
    other = other
    react = react
    m1 = m1
    m2 = m2
    Jobs = {hop, leave, other, react}
    Keys = {m1, m2}
    None = None
    Lowest = 3
    Ceiling = 1
    Window = 1
    MinRetry = 1
    DebounceDelay = 1
    FlushBudget = 1
    Events = {e1, e2, e3}
    Actors = {mod, bot}
    Self = bot
    RoleCreate = RoleCreate
    RoleDelete = RoleDelete
    ChannelDelete = ChannelDelete
    RoleChange = RoleChange
    CreateWindow = 4
    DeleteWindow = 2
    ChannelWindow = 4
    RoleLimit = 2
    ChannelLimit = 1
    PruneWindow = 3
    MaxProbes = 3
    MaxRestarts = 1
    MaxToggles = 1
    Screens = {s, t}
    Depth = 1
    Call = 1
    Writers = {"setup"}
    CanFail = FALSE
    NoFlight = NoFlight
    Guests = {p, q}
    Inviter = q
    Codes = {c}
    NoCode = NoCode
    Handlers = {1, 2, 3}
    Early = {}
    Milestone = 1
    MaxMishaps = 1
    NoSnapshot = NoSnapshot
    NoRow = NoRow
    Nobody = Nobody
SYMMETRY Alike
INVARIANTS
    TypesOK
    LastVoiceEventSurvives
    OneReportPerIncident
    CloseBurstsAreCaught
    EditsSeenUnlessOvertaken
    UsesAreAttributedOnce
    ScoreIsWhoStayed
PROPERTIES
    AnswersAreRecent
    OneRequestPerWindow
CHECK_DEADLOCK FALSE
