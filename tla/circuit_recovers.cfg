SPECIFICATION FairSpec
CONSTANTS
    Callers = {p1, p2}
    Nobody = Nobody
    Modes = {"job"}
    FAILURE_THRESHOLD = 2
    FAILURE_WINDOW_MINUTES = 1
    OPEN_MINUTES = 1
    PROBE_LEASE_MINUTES = 1
    MaxCrashes = 1
PROPERTY CircuitRecovers
