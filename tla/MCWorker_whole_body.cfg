SPECIFICATION Spec
CONSTANTS
    c1 = c1
    c2 = c2
    c3 = c3
    Callers = {c1}
    Length = 2
    LengthKnown = TRUE
    RangeSupport = {FALSE}
    MaxRetries = 1
    Sources = {origin}
    Ops <- StartOnly
    MaxCalls = 1
INVARIANTS
    FullBodyIsAccepted
CHECK_DEADLOCK FALSE
