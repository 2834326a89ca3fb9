SPECIFICATION FairSpec
CONSTANTS
    Calls = {1, 2, 3}
    Processes = {1, 2}
    WindowOf <- FirstTwoTogether
    ProcessOf <- TwoProcesses
    NoCall = 0
    Ttl = 1
    Crashable = {1}
    TornCreate = TRUE
    MaxTries = 1
    MaxClock = 1
INVARIANTS
    TypeOK
    SingleUnlessDisturbed
PROPERTIES
    LostStaysLost
    StaleHolderHarmless
    RecoversFromCrash
CHECK_DEADLOCK FALSE
