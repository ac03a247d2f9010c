CONSTANTS
    Workers = {w1, w2}
    Task = alerts
    Nobody = nobody
    Legacy = 0
    Faults = {"undelivered", "crash"}
    MaxFaults = 2
    Reports = {"SUBMITTING", "UNCONFIRMED", "PROCESANDO", "Aceptado", "ERROR"}
    MaxTransitions = 3
    SnapshotReads = TRUE

SPECIFICATION Spec
SYMMETRY WorkerSymmetry
INVARIANTS
    ChainVerifies
CHECK_DEADLOCK FALSE
