SPECIFICATION Spec
CONSTANTS
    w1 = w1
    w2 = w2
    r1 = r1
    p1 = p1
    p2 = p2
    Writers = {w1, w2}
    Threads = {r1}
    Pages = {p1, p2}
    LastEvent = 1
    Silent = {}
    MaxVisits = 3
    MaxFaults = 1
SYMMETRY Symmetric
INVARIANT
    TrailVerifies
CHECK_DEADLOCK FALSE
