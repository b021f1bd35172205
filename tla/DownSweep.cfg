SPECIFICATION Spec
CONSTANTS
    Roles = {r1}
    Configured <- AllOrNone
    CanRefuse = TRUE
    Downs = {d1, d2}
    Undowns = {u1, u2}
    Sweeps = {s1, s2}
    MaxHandlers = 2
    MaxMishaps = 2
    NoRow = NoRow
    NoList = NoList
INVARIANTS
    NeverPromotes
    OneUndownPerDown
    EveryRoleAccountedFor
PROPERTY EveryDownExpires
CHECK_DEADLOCK FALSE
