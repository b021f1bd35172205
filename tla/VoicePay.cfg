SPECIFICATION Spec
CONSTANTS
    Members = {a, b}
    Minute = 2
    MaxTime = 5
    MaxRestarts = 0
    Nobody = Nobody
INVARIANT MinutesPaidOnce
CHECK_DEADLOCK FALSE
