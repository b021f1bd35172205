SPECIFICATION Spec
CONSTANTS
    Events = {e1, e2, e3}
    Actors = {mod}
    Self = bot
    ChannelDelete = ChannelDelete
    Protections = {ChannelDelete}
    Action <- BudgetOf
    WindowOf <- EveryWindow
    WindowTicks = 4
    Limit = 1
    LimitOf <- EveryLimit
    PruneWindow = 2
    MaxTime = 4
    MaxRestarts = 0
    MaxToggles = 0
    None = None
INVARIANT BurstsAreCaught
CHECK_DEADLOCK FALSE
