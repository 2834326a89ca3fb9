SPECIFICATION FairSpec
CONSTANTS
    Requests = {1, 2, 3, 4}
    Ids = {1, 2, 3, 4}
    Keys = {"x", "y"}
    CoalesceKeys = {"refresh"}
    None = None
    IdOf <- MCIds
    KeysOf <- MCKeys
    RankOf <- MCRanks
    CoalesceKeyOf <- LastTwoShare
    Cancellable = {1, 3}
    Timed = {1, 2}
    HistoryLimit = 2
    MaxPending = 2
INVARIANTS
    TypeOK
    ExclusiveAccess
    NoIdleWork
    ActiveIsListed
    RecordFitsAnswer
PROPERTIES
    NoOvertaking
    EventuallyAnswered
    KeyIsFreed
CHECK_DEADLOCK FALSE
