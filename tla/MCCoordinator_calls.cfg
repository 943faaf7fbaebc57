SPECIFICATION Spec
CONSTANTS
    t1 = t1
    t2 = t2
    x1 = x1
    c1 = c1
    c2 = c2
    Tasks = {t1, t2}
    Clients = {c1}
    Loop = Loop
    Permits = {x1}
    NoPermit = NoPermit
    Capacity = 1
    Ops <- AllCalls
    MaxCalls <- TwiceAndOnce
    Faults = TRUE
INVARIANTS
    TypeOK
    PermitsAccountedFor
    NoDuplicateQueueEntries
CHECK_DEADLOCK FALSE
