SPECIFICATION FairSpec
CONSTANTS
    Windows = {w1}
    None = None
    MaxVersion = 1
    MaxFaults = 1
    MaxCrashes = 1
PROPERTIES
    BlockedEnds
CHECK_DEADLOCK FALSE
