CONSTANTS
    NoItem = none
    Items = {a}
    Existing = {a}
    Loaded = TRUE
    Transports = {"http", "file"}
    PutEtag = TRUE
    Kinds = {"add", "modify", "delete", "get_item", "get_items", "refresh"}
    GetFaults = {"error"}
    WriteFaults = {"disk", "garbled", "open", "refused"}
    Damage = {"utf8","parse"}
    MaxOps = 3
    MaxForeign = 1
SPECIFICATION Spec
INVARIANTS
    TypeOK
    OneHome
CHECK_DEADLOCK FALSE
