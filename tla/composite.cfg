CONSTANTS
    c = c
    d = d
    Composite = composite
    Calendars <- MCCalendars
    Handles <- MCHandles
    Items <- MCItems
    Limits = {1}
    Faults = {"query", "throw", "refresh"}
    MaxChanges = 2
    MaxEvents = 3
    MaxActs = 4
    MaxFaults = 1
SPECIFICATION FairSpec
INVARIANTS
    TypeOK
    ViewIsCurrent
    ClientGetsItsShare
PROPERTIES
    QueriesEnd
CHECK_DEADLOCK FALSE
