SPECIFICATION Spec
CONSTANTS
    Vendors = {v1, v2}
    Quotes = {q1, q2}
    Trips = {t1, t2}
    Amounts = {5, 10}
    BidMax = 5
    AdvancePct = 60
    None = None
SYMMETRY Symmetric
CONSTRAINT Bound
INVARIANTS
    OneLiveQuotePerVendor
    ConsistentUnlessLateQuote
    AdvanceSecured
PROPERTY NoWayBack
