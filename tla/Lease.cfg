SPECIFICATION Spec
CONSTANTS
    Windows = {1, 2}
    Ops = {"dir", "file", "sibling"}
    OpsOf <- TwoAndOne
    Resources <- MCResources
    NoOp = "none"
    AdmissionTtl = 1
    LeaseTtl = 2
    Crashable = {}
    LegacyHolders = {"operation"}
    SharingViolations = FALSE
    MaxClock = 2
    LastBegin = 1
    MaxTicket = 2
    MaxFaults = 1
INVARIANTS
    TypeOK
    NoConflictingHolders
    NoOrphanLease
PROPERTIES
    NoRevival
CHECK_DEADLOCK FALSE
