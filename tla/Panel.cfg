SPECIFICATION MCSpec
CONSTANTS
    Versions = {1, 2}
    RetryMax = 2
    MaxChanges = 2
    MaxHides = 2
    MaxFaults = 2
    MaxEvents = 2
INVARIANTS
    TypeOK
    BeliefIsTrue
PROPERTIES
    EventuallyShown
CHECK_DEADLOCK FALSE
