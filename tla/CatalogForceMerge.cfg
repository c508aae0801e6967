SPECIFICATION FairSpec
CONSTANTS
    s1 = s1
    s2 = s2
    a1 = a1
    a2 = a2
    b1 = b1
    sku = sku
    de = de
    alpha = alpha
    beta = beta
    t1 = t1
    t2 = t2
    Listings = {s1, s2, a1, b1}
    SiteOf <- Sites
    KeyOf <- SameKey
    Keys = {sku}
    NoKey = NoKey
    SoR = de
    SecondarySites <- TwoStores
    MaxProducts = 3
    NoProduct = NoProduct
    Threads = {t1, t2}
    Nobody = Nobody
    Ops = {"rescan", "archive", "reject", "delete"}
    DedupRuns = 0
INVARIANTS
    TypeOK
    NoListingLost
    LockPreventsDuplicateInsert
PROPERTIES
    LockReleased
    GroupsOnlyGrow
CHECK_DEADLOCK FALSE
