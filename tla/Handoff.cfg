SPECIFICATION Spec
CONSTANTS
    Workers = {"w1", "w2", "w3"}
    TargetOf <- MCTargets
    Commands = {"round", "hand"}
    WorkerOf <- MCWorkers
    Manual = {"hand"}
    None = "none"
    Lanes = 2
    MaxRounds = 2
INVARIANTS
    TypeOK
    OneWriterUnlessStale
    WaitsHaveHolder
PROPERTIES
    JobsAndCodeApart
CHECK_DEADLOCK FALSE
