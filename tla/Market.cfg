SPECIFICATION Spec
CHECK_DEADLOCK FALSE
CONSTANTS
    p1 = p1  p2 = p2
    Payers = {p1, p2}
    Visitors = {v1}
    Orders = {0, 1}
    Malformed = Malformed
    Durations = {1}
    Terms <- MCTerms
    Limit = 4
    MaxRequests = 2
    Horizon = 3
SYMMETRY Symmetry
INVARIANTS
    TypeOK
    OneTransaction
    WaitsForItsOwn
PROPERTIES
    RenewalHolds
    NeverLate
