CONSTANTS
    NoItem = NoItem
    Items = {a, b}
    Existing = {a}
    Kinds = {"add", "modify", "delete"}
    Faults = {"token"}
    Overwrite = {TRUE, FALSE}
    Overlap = FALSE
    MaxEdits = 3
    MaxPlaybacks = 1
    MaxToggles = 0
    MaxRestarts = 0
    MaxForeign = 2
    MaxFaults = 1
SPECIFICATION Spec
INVARIANTS
    TokenCovers
PROPERTIES
    ForeignKept
CHECK_DEADLOCK FALSE
