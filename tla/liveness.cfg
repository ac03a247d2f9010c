SPECIFICATION FairSpec
CONSTANTS
    Docs = {d1}
    Operators = {}
    Requests = {}
    Faults = {"lost", "ambiguous", "untyped", "lag", "taskCrash"}
    MaxFaults = 3
    MaxRequests = 0
    SlowWorkers = FALSE
    SlowSweep = FALSE
    SnapshotReads = FALSE
    NoWorker = NoWorker
INVARIANTS NoRowIsStranded
PROPERTIES LocalFollowsRemote EveryDocSettles CompletesLifecycle
