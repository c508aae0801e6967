SPECIFICATION FairSpec
CONSTANTS
    p1 = p1
    p2 = p2
    t1 = t1
    t2 = t2
    c1 = c1
    r1 = r1
    r2 = r2
    Handles = {p1, p2}
    Tags = {t1, t2}
    Titles = {c1}
    Prices = {1, 2}
    NoTitle = NoTitle
    MaxCids = 2
    MaxEdits = 1
    Runs = {r1, r2}
    Settings <- Several
INVARIANTS
    SyncInv
PROPERTIES
    SyncConverges
    PutKeepsOthers
    ExecutionEnds
CHECK_DEADLOCK FALSE
