CONSTANTS
    NoTerm = none
    Terms = {a, b}
    Engines = {TRUE, FALSE}
    Responses = {"ok", "bad"}
    LateHistory = FALSE
    MaxSearches = 3
SPECIFICATION FairSpec
INVARIANTS
    TypeOK
    OwnResults
    GivenUpInTime
PROPERTIES
    EverySearchSettles
CHECK_DEADLOCK FALSE
