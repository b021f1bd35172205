SPECIFICATION GuildSpec
CONSTANTS
    Handlers = {h1, h2}
    Commands <- ThreePunishments
    Ordinary = {x, y}
    MaxCommands = 3
    MaxMishaps = 1
    NoRow = NoRow
    Voices = {u, v}
    Minute = 2
    MaxMinutes = 4
    MaxRestarts = 1
    Nobody = Nobody
    Ranked = {1, 2}
    Cap = 1
    BatchSize = 1
    MaxAwards = 2
    MaxTroubles = 1
    None = None
    Presses = {p, q}
    ChannelCap = 4
    MaxPresses = 3
    MaxIds = 5
    Events = {1, 2}
    Mods = {d, e}
    Targets = {x, y}
    Deeds = {"kick", "timeout", "untimeout", "disconnect"}
    Seconds = 1
    Unknown = Unknown
    Pending = Pending
    Talkers = {m}
    Channels = {r, st}
    Stages = {st}
    Out = Out
    Flags = {mute, listens}
    Suppress = listens
    MaxSteps = 5
    Things = {g, h}
    Values = {i, j}
    Sort = {"pins", "webhooks"}
    MaxChanges = 3
    MaxRefusals = 1
    Absent = Absent
    NoSnapshot = NoSnapshot
    Unasked = Unasked
    Messages = {1, 2}
    Texts = {i, j}
    MaxHours = 2
    MaxEdits = 1
    Staff = {1, 2}
    Calls = {1, 2}
    Burst = 2
    Span = 2
    Patience = 2
    MaxClock = 2
    MaxSaves = 1
    MaxLeaves = 1
SYMMETRY Alike
INVARIANTS
    TypesOK
    RecordsMatch
    PaidForPresence
    SyncReconciles
    RoomsMatchRouting
    TheDoerIsNamed
    LogAddsUp
    CommandsKeepTheRules
CHECK_DEADLOCK FALSE
