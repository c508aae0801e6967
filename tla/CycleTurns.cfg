SPECIFICATION FairSpec
CONSTANTS
    d1 = d1
    d2 = d2
    d3 = d3
    r1 = r1
    r2 = r2
    Domains = {d1, d2}
    Requests = {r1}
    MaxCycles = 3
    NoTask = NoTask
    Env = {"scanfails", "dedupfails", "restart"}
INVARIANTS
    CycleInv
    DedupAfterAllDomains
PROPERTIES
    TakesTurns
    ScanReachesReview
CHECK_DEADLOCK FALSE
