SPECIFICATION Spec
CONSTANTS
    Calls = {1, 2, 3}
    Processes = {1, 2, 3}
    WindowOf <- EachAlone
    ProcessOf <- OwnProcess
    NoCall = 0
    Ttl = 2
    Crashable = {}
    TornCreate = FALSE
    MaxTries = 2
    MaxClock = 2
INVARIANTS
    SingleHolder
CHECK_DEADLOCK FALSE
