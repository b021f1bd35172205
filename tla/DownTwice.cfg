SPECIFICATION Spec
CONSTANTS
    Roles = {r1}
    Configured <- AllOrNone
    CanRefuse = FALSE
    Downs = {d1, d2}
    Undowns = {u1}
    Sweeps = {}
    MaxHandlers = 1
    MaxMishaps = 0
    NoRow = NoRow
    NoList = NoList
INVARIANT TakenRolesStayOnRecord
CHECK_DEADLOCK FALSE
