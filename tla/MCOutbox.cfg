SPECIFICATION Spec
CONSTANTS
    Occasions = {o1}
    Workers = {w1, w2}
    Browsers = {b1}
    Addresses = {a1}
    MaxRows = 2
    MaxAttempts = 2
    Batch = 2
    MaxStops = 1
    Setups <- Tried6
    o1 = o1
    None = None
SYMMETRY Symmetric
INVARIANTS
    OnlyWithItsChange
    ToldOnce
    NotGivenUpEarly
PROPERTIES
    AnsweredForGood
CHECK_DEADLOCK FALSE
