SPECIFICATION Spec
CONSTANTS
    Docs = {d1}
    Operators = {}
    Requests = {}
    Faults = {"lost", "denied", "ambiguous", "untyped", "lag", "crash", "taskCrash", "disabled"}
    MaxFaults = 2
    MaxRequests = 0
    SlowWorkers = FALSE
    SlowSweep = TRUE
    SnapshotReads = FALSE
    NoWorker = NoWorker
INVARIANTS AttemptsCoverPosts 
