CONSTANTS
    Calendars = {c, d}
    Empty = {d}
    Names = {a}
    Hours = 2
    Times = {1, 3}
    Snoozes = {1}
    Tails = {1}
    MaxTime = 3
    MaxActs = 1
    MaxEvents = 1
    MaxLoads = 2
SPECIFICATION Spec
INVARIANTS
    TypeOK
    NothingMissed
    NothingExtra
    DialogShowsList
    LoadingEnds
CHECK_DEADLOCK FALSE
