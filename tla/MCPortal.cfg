SPECIFICATION FairSpec
CONSTANTS
    Pages = {p1, p2, p3}
    Tries <- OneTwice
    Bodies = {1, 2}
    MaxKeys = 3
    MaxLost = 1
    MaxStops = 1
    Setups <- SomePages
    p1 = p1
    p2 = p2
    p3 = p3
INVARIANTS
    OneWritePerSubmission
    LedgerMatches
    ToldTrue
PROPERTIES
    ToldInTheEnd
CHECK_DEADLOCK FALSE
