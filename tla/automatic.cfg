SPECIFICATION Spec
CONSTANTS
    Docs = {d1, d2}
    Operators = {}
    Requests = {}
    Faults = {"lost", "denied", "ambiguous", "untyped", "lag", "crash", "taskCrash", "disabled"}
    MaxFaults = 2
    MaxRequests = 0
    SlowWorkers = FALSE
    SlowSweep = FALSE
    SnapshotReads = FALSE
    NoWorker = NoWorker
INVARIANTS TypeOK OneOwner BlockedRowsAskForAction
PROPERTIES AcceptedIsTerminal BlockedStaysBlocked ResendHasEvidence ImplementsLifecycle
