SPECIFICATION Spec
CONSTANTS
    Trucks = {v1, v2}
    Supervisors = {s1}
    None = None
SYMMETRY Symmetric
INVARIANTS
    MilestonesInOrder
    OneTruck
    LeftWithPapers
PROPERTY LrOnlyAdvances
