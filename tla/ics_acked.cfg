CONSTANTS
    NoItem = none
    Items = {a, b}
    Existing = {a}
    Loaded = TRUE
    Transports = {"file"}
    PutEtag = TRUE
    Kinds = {"delete", "refresh"}
    GetFaults = {}
    WriteFaults = {}
    Damage = {}
    MaxOps = 4
    MaxForeign = 0
SPECIFICATION Spec
INVARIANTS
    AckedIsStored
CHECK_DEADLOCK FALSE
