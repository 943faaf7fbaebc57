SPECIFICATION Spec
CONSTANTS
    t1 = t1
    t2 = t2
    x1 = x1
    c1 = c1
    c2 = c2
    Tasks = {t1, t2}
    Clients = {c1}
    Loop = Loop
    Permits = {x1}
    NoPermit = NoPermit
    Capacity = 2
    Ops <- StartResume
    MaxCalls <- TwiceAndOnce
    Faults = FALSE
INVARIANTS
    NoSelfDeadlock
CHECK_DEADLOCK FALSE
