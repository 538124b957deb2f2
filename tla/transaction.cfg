CONSTANTS
    Calendars = {c, d}
    Items = {a, b}
    Actions = {"add", "modify", "move", "delete"}
    MaxTxns = 3
    MaxSteps = 2
    MaxForeign = 1
    MaxToggles = 1
    MaxEvents = 5
SPECIFICATION Spec
INVARIANTS
    TypeOK
    UndoRestores
    NeverLost
CHECK_DEADLOCK FALSE
SYMMETRY Symmetry
