SPECIFICATION MCSpec
CONSTANTS
    Roots = {"main", "branch"}
    Jobs = {"a", "b"}
    RootOf <- MCRootOf
    Windows = {"w1", "w2"}
    Cards = {"gpu"}
    None = None
    Quota = 1
    MaxFresh <- MCMaxFresh
INVARIANTS
    TypeOK
    PromisesWithinQuota
    RiskIsCounted
PROPERTIES
    FactsStay
    PromiseKept
CHECK_DEADLOCK FALSE
