CONSTANTS
    Callers = {c1, c2}
    Nobody = nobody
    Interval = 2
    Lease = 3
    Wait = 3
    StampTTL = 4
    Faults = {"crash", "lost", "refused", "forbidden", "unauthorized"}
    MaxFaults = 2
    MaxCalls = 3

SPECIFICATION Spec
SYMMETRY CallerSymmetry
INVARIANTS
    TypeOK
    OneDelivery
    OldTokensAreReplaced
PROPERTIES
    PassesAreSpaced
CHECK_DEADLOCK FALSE
