CONSTANTS
    Files = {f, g, h}
    None = none
    Faults = {"logon", "info", "quota", "put", "share"}
    Cancels = {"queued", "first", "running"}
    MaxToggles = 1
SPECIFICATION FairSpec
INVARIANTS
    TypeOK
    WindowAgrees
PROPERTIES
    EveryUploadEnds
CHECK_DEADLOCK FALSE
