SPECIFICATION Spec
CONSTANTS
    Docs = {d1}
    Operators = {o1}
    Requests = {"submit", "refresh", "retry", "query"}
    Faults = {"lost", "ambiguous", "untyped", "crash", "taskCrash"}
    MaxFaults = 1
    MaxRequests = 2
    SlowWorkers = FALSE
    SlowSweep = FALSE
    SnapshotReads = FALSE
    NoWorker = NoWorker
INVARIANTS OneSender  AcceptedThere
