SPECIFICATION Spec
CONSTANTS
    Pids = {p1}
    Ttl = 1
    Margin = 0
    Budget = 2
    MayLapse = FALSE
    MayReuse = FALSE
    LastBegin = 1
    MaxClock = 1
INVARIANTS
    InstallExcludesOperations
