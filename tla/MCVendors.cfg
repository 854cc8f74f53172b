CONSTANTS
    b1 = b1
    p1 = p1
    Leads = {l1, l2}
    Vendors = {v1, v2}
    Branches = {b1, b2}
    Pcts = {p1, p2}
    Identity = {pan}
    Always = {tds}
    Legal = {rc, licence}
    Rc = rc
    Tds = tds
    YearEnd = 0
    Requests = {r1, r2}
    Approvals = {a1}
    Warn = 0
    MaxDay = 1
    Starts <- EmptyOrOne
    None = None
SPECIFICATION Spec
CONSTRAINT Bound
SYMMETRY Symmetry
INVARIANTS ClearedOnPapers LeadsMatch WarnedInTime
PROPERTIES BranchByApproval LapseWasChased
CHECK_DEADLOCK FALSE
