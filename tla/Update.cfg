SPECIFICATION MCFairSpec
CONSTANTS
    Windows = {w1, w2}
    None = None
    MaxVersion = 2
    MaxFaults = 3
    MaxCrashes = 3
INVARIANTS
    TypeOK
    OneInstaller
    ClosedUntilReloadAlone
    PartialIsDurableAlone
PROPERTIES
    BatchIsNotReplacedAlone
    BlockedEndsAlone
CHECK_DEADLOCK FALSE
