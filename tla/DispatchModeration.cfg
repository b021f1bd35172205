SPECIFICATION DSpec
CONSTANTS
    drag = drag
    hop = hop
    member = member
    Jobs = {drag, hop}
    Keys = {member}
    Kind <- MCKind
    MemberOf <- MCMemberOf
    None = None
    Lowest = 3
    Ceiling = 1
    Window = 1
    MinRetry = 1
    DebounceDelay = 1
    FlushBudget = 1
INVARIANT ModerationSurvivesChurn
CHECK_DEADLOCK FALSE
