CONSTANTS
    NoItem = NoItem
    Items = {a}
    Existing = {a}
    Kinds = {"modify", "delete"}
    Faults = {"lost", "token"}
    Overwrite = {TRUE}
    Overlap = FALSE
    MaxEdits = 3
    MaxPlaybacks = 1
    MaxToggles = 2
    MaxRestarts = 0
    MaxForeign = 0
    MaxFaults = 2
SPECIFICATION FairSpec
INVARIANTS
    EditsAreKept
    NoResurrection
    CacheCoherent
PROPERTIES
    JournalKept
    AppliedOnce
    EveryEditAnswered
    JournalEmptied
CHECK_DEADLOCK FALSE
