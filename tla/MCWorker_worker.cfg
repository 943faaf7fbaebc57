SPECIFICATION FairSpec
CONSTANTS
    c1 = c1
    c2 = c2
    c3 = c3
    Callers = {c1, c2, c3}
    Length = 2
    LengthKnown = TRUE
    RangeSupport = {TRUE, FALSE}
    MaxRetries = 1
    Sources = {origin, mirror}
    Ops <- AllCalls
    MaxCalls = 3
INVARIANTS
    TypeOK
    OneLoop
    ProgressIsWritten
    CompleteMeansWhole
    AtMostOneSliceAfterStop
PROPERTIES
    StopsWhenTold
    RunEnds
CHECK_DEADLOCK FALSE
