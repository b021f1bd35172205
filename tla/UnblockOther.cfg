SPECIFICATION Spec
CONSTANTS
    Handlers = {h1}
    Commands = {"block", "unblock"}
    Ordinary = {x, y}
    MaxCommands = 3
    MaxMishaps = 0
    NoRow = NoRow
INVARIANT LiftingOneKeepsTheRest
CHECK_DEADLOCK FALSE
