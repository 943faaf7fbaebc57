SPECIFICATION FairSpec
CONSTANTS
    t1 = t1
    t2 = t2
    x1 = x1
    c1 = c1
    c2 = c2
    Tasks = {t1, t2}
    Clients = {c1, c2}
    Loop = Loop
    Permits = {x1}
    NoPermit = NoPermit
    Capacity = 3
    Ops <- StartOnly
    MaxCalls <- Once
    Faults = FALSE
INVARIANTS
    OperationsWithinLimit
    TransfersWithinLimit
PROPERTIES
    CallersReturn
CHECK_DEADLOCK FALSE
