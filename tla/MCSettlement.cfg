SPECIFICATION Spec
CONSTANTS
    Staff = {adm}
    Admins = {adm}
    Keys = {k1, k2}
    Bills = {b1}
    Balance = 3
    Figures = {4}
    Deductions = {2}
    PenaltyPerDay = 3
    TransitPenalty = 2
    MinPayable = 1
    TransitDays = 0
    Tat = 0
    Forfeit = 1
    None = None
    MaxDay = 2
    MaxDelivery = 1
    MaxRows = 1
    MaxSdr = 1
INVARIANTS
    PaidOnGrounds
    ClosedWhenSettled
    BooksBalance
PROPERTY KeepsAccount
