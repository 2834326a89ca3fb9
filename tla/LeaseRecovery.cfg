SPECIFICATION FairSpec
CONSTANTS
    Windows = {1, 2}
    Ops = {"dir", "file"}
    OpsOf <- OneEach
    Resources <- MCResources
    NoOp = "none"
    AdmissionTtl = 2
    LeaseTtl = 2
    Crashable = {1}
    LegacyHolders = {}
    SharingViolations = TRUE
    MaxClock = 4
    LastBegin = 1
    MaxTicket = 2
    MaxFaults = 0
PROPERTIES
    LastWindowIsGranted
CHECK_DEADLOCK FALSE
