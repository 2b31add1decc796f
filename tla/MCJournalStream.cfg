SPECIFICATION Spec
CONSTANTS
    w1 = w1
    w2 = w2
    r1 = r1
    p1 = p1
    p2 = p2
    Writers = {w1, w2}
    Threads = {r1}
    Pages = {p1, p2}
    LastEvent = 2
    Silent = {2}
    MaxVisits = 3
    MaxFaults = 1
SYMMETRY Symmetric
INVARIANTS
    ReadsAreTrue
    ChainNeverForks
    ViewsAreRecorded
    PageShowsLog
CHECK_DEADLOCK FALSE
