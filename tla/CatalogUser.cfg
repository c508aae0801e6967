SPECIFICATION Spec
CONSTANTS
    s1 = s1
    s2 = s2
    a1 = a1
    a2 = a2
    b1 = b1
    sku = sku
    de = de
    alpha = alpha
    beta = beta
    t1 = t1
    t2 = t2
    Listings = {s1, a1, a2}
    SiteOf <- Sites
    KeyOf <- SameKey
    Keys = {sku}
    NoKey = NoKey
    SoR = de
    SecondarySites <- OneStore
    MaxProducts = 3
    NoProduct = NoProduct
    Threads = {t1}
    Nobody = Nobody
    Ops = {"merge", "reject", "edit", "delete", "deactivate"}
    DedupRuns = 1
INVARIANTS
    MergedPairHasLoser
SYMMETRY AlphaListings
CHECK_DEADLOCK FALSE
