SPECIFICATION Spec
CONSTANTS
    Jobs = {r1, r2}
    Invoices = {i1}
    Starts <- Points
    MaxChanges = 2
    i1 = i1
    None = None
SYMMETRY Symmetric
INVARIANTS
    InStep
PROPERTIES
    ReopenedForCause
CHECK_DEADLOCK FALSE
