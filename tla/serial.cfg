CONSTANTS
    Invoices = {i1, i2}
    Legacy = {i2}
    Sessions = {s1}
    Environments = {"eCF", "TesteCF"}
    Offers <- TwinRanges
    Requests = {"submit", "retry", "api", "cancel", "edit", "switch"}
    NoSession = NoSession
    i1 = i1
    i2 = i2
    s1 = s1
SPECIFICATION Spec
INVARIANTS  NumbersUnique
PROPERTIES NumbersFromActiveRange
CHECK_DEADLOCK FALSE
