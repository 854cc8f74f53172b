SPECIFICATION FairSpec
CONSTANTS
    Staff = {s1, adm}
    Admins = {adm}
    Keys = {}
    Bills = {}
    Balance = 3
    Figures = {}
    Deductions = {}
    PenaltyPerDay = 1
    TransitPenalty = 2
    MinPayable = 1
    TransitDays = 0
    Tat = 0
    Forfeit = 1
    None = None
    MaxDay = 3
    MaxDelivery = 1
    MaxRows = 2
    MaxSdr = 0
INVARIANTS
    ClockMatchesProof
    FourEyes
PROPERTIES
    EveryProofSettles
