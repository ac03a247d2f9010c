CONSTANTS
    Invoices = {i1, i2, i3}
    Legacy = {i3}
    Sessions = {s1, s2}
    Environments = {"eCF"}
    Offers <- TwoRanges
    Requests = {"submit", "retry", "cancel"}
    NoSession = NoSession
    i1 = i1
    i2 = i2
    i3 = i3
    s1 = s1
    s2 = s2
SPECIFICATION Spec
SYMMETRY Symmetric
INVARIANTS TypeOK NumbersUnique NoNumberLost HandoutIsFresh
PROPERTIES ImplementsNumbering
CHECK_DEADLOCK FALSE
