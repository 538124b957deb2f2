CONSTANTS
    NoItem = none
    Items = {a, b}
    Existing = {a}
    Loaded = TRUE
    Transports = {"http", "file"}
    PutEtag = TRUE
    Kinds = {"add", "modify", "get_items", "refresh"}
    GetFaults = {"fail"}
    WriteFaults = {"refused", "lost"}
    Damage = {}
    MaxOps = 3
    MaxForeign = 1
SPECIFICATION Spec
INVARIANTS
    LockIsOneFlight
    UnsavedEditsAreBeingWritten
    NothingForgotten
PROPERTIES
    IfHeaderKeepsForeign
    KeepsPromise
CHECK_DEADLOCK FALSE
