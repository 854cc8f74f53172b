SPECIFICATION Spec
CONSTANTS
    Lanes = {l1, l2, l3}
    Revisions = {v1, v2}
    Approvals = {a1, a2}
    Users = {u1, u2}
    p1 = p1
    p2 = p2
    Rates = {p1, p2}
    Asks <- Asked3
    MaxDay = 2
    MaxRequests = 3
    None = None
SYMMETRY Symmetric
INVARIANTS
    OneRateInForce
    WaitingIsDecidable
    SignedForGood
    ShownIsWaiting
PROPERTIES
    RepricesFromItsDay
CHECK_DEADLOCK FALSE
