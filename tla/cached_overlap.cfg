CONSTANTS
    NoItem = NoItem
    Items = {a}
    Existing = {a}
    Kinds = {"add", "modify", "delete"}
    Faults = {"unavailable", "lost", "error", "token"}
    Overwrite = {TRUE, FALSE}
    Overlap = TRUE
    MaxEdits = 1
    MaxPlaybacks = 1
    MaxToggles = 1
    MaxRestarts = 1
    MaxForeign = 1
    MaxFaults = 1
SPECIFICATION Spec
INVARIANTS
    TypeOK
PROPERTIES
    TokenForward
CHECK_DEADLOCK FALSE
