SPECIFICATION FairSpec
CONSTANTS
    p1 = p1
    p2 = p2
    s1 = s1
    s2 = s2
    s3 = s3
    l1 = l1
    l2 = l2
    v1 = v1
    v2 = v2
    x1 = x1
    x2 = x2
    Pages = {p1, p2}
    Stores = {s1, s2, s3}
    Unscanned = {s3}
    Labels = {l1, l2}
    Variants = {x1, x2}
    Values = {v1, v2}
    Gone = Gone
    None = None
    MaxWrites = 1
    MaxPushes = 2
    Scopes <- Kinds
INVARIANTS
    PushInv
PROPERTIES
    NoEditLost
    PushLeavesTheRest
    PushEnds
CHECK_DEADLOCK FALSE
