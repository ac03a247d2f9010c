CONSTANTS
    Workers = {w1, w2}
    Task = alerts
    Nobody = nobody
    Legacy = 1
    Faults = {"undelivered", "crash"}
    MaxFaults = 2
    Reports = {"SUBMITTING", "UNCONFIRMED", "PROCESANDO", "Aceptado", "ERROR"}
    MaxTransitions = 2
    SnapshotReads = TRUE

SPECIFICATION FairSpec
INVARIANTS
    TypeOK
    VerifyIsExact
    SilenceIsEarned

    
    
CHECK_DEADLOCK FALSE
