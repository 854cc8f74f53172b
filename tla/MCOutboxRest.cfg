SPECIFICATION LiveSpec
CONSTANTS
    Occasions = {o1}
    Workers = {w1, w2}
    Browsers = {b1, b2}
    Addresses = {a1}
    MaxRows = 1
    MaxAttempts = 3
    Batch = 2
    MaxStops = 1
    Setups <- Tried6
    o1 = o1
    None = None
INVARIANTS
    SentHasArrived
PROPERTIES
    ComesToRest
CHECK_DEADLOCK FALSE
