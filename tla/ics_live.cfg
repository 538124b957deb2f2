CONSTANTS
    NoItem = none
    Items = {a, b}
    Existing = {a}
    Loaded = TRUE
    Transports = {"http"}
    PutEtag = FALSE
    Kinds = {"add", "modify", "refresh"}
    GetFaults = {"fail"}
    WriteFaults = {"refused","lost"}
    Damage = {}
    MaxOps = 2
    MaxForeign = 1
SPECIFICATION FairSpec
PROPERTIES
    EveryRequestAnswered
    EventuallyUnlocked
    FailedEditGoes
CHECK_DEADLOCK FALSE
