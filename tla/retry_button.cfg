SPECIFICATION Spec
CONSTANTS
    Docs = {d1}
    Operators = {o1}
    Requests = {"retry"}
    Faults = {"lost", "denied", "ambiguous", "untyped", "lag", "crash", "taskCrash", "disabled"}
    MaxFaults = 2
    MaxRequests = 2
    SlowWorkers = FALSE
    SlowSweep = FALSE
    SnapshotReads = TRUE
    NoWorker = NoWorker
PROPERTY ResendHasQuery
