SPECIFICATION FairSpec
CONSTANTS
    Pids = {p1}
    Ttl = 1
    Margin = 1
    Budget = 2
    MayLapse = TRUE
    MayReuse = TRUE
    LastBegin = 1
    MaxClock = 4
INVARIANTS
    TypeOK
    GateExcludes
    OldOperationsEnd
PROPERTIES
    WaitEnds
