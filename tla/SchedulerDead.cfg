SPECIFICATION ServerFairSpec
CONSTANTS
    r1 = r1
    r2 = r2
    a1 = a1
    a2 = a2
    b1 = b1
    b2 = b2
    home = home
    c1 = c1
    c2 = c2
    c3 = c3
    p1 = p1
    p2 = p2
    p3 = p3
    map1 = map1
    map2 = map2
    map3 = map3
    A = A
    B = B
    C = C
    l1 = l1
    l2 = l2
    m1 = m1
    x = x
    y = y
    Parts = {"scheduler"}
    Jobs = {1, 2}
    Asked <- TheAsked
    JobReqs = {r1, r2}
    CommitMayFail = FALSE
    Sites = {a1}
    Shops = {a1, a2}
    Entered <- TheEntered
    TokenReqs = {r1, r2}
    Life = 2
    Margin = 1
    Retries = 2
    MaxTime = 3
    SiteDomains = {a1, a2}
    Wants <- TheWants
    SettingReqs = {r1, r2}
    Yaml <- TheYaml
    MaxDicts = 4
    MaxLists = 2
    Sockets = {1, 2, 3}
    Broadcasts = {b1, b2}
    NoSocket = 0
    Urls = {home, c1, c2, c3, p1, p2, p3, map1, map2, map3}
    Base = home
    ProductUrls = {p1, p2, p3}
    CategoryUrls = {c1, c2, c3}
    Links <- TheLinks
    NextOf <- TheNext
    NoUrl = NoUrl
    Sitemaps <- TheMaps
    SubSitemaps = {map2, map3}
    EnoughUrls = 2
    MaxPages = 4
    MaxRetries = 1
    FastFails = 2
    Breaker = 2
    MaxBreaks = 2
    None = None
    Alike <- TheAlike
    Products = {1, 2}
    Offers = {1, 2, 3, 4}
    StoreOf <- TheStores
    Columns = {A, B}
    Contents <- TheContents
    Normal <- TheNormal
    Cents <- TheCents
    Facts <- TheFacts
    Queries <- TheQueries
    PerPage = 1
    Listings = {l1, l2, m1}
    SoRListings = {l1, l2}
    Prices = {100, 101, 150}
    NoProduct = NoProduct
    MaxMerges = 1
    PriceSettings <- ThePriceSettings
    Hooks = {x, y}
    MaxIds = 4
    Handlers = {r1, r2}
    NoHook = NoHook
    Nobody = Nobody
    Surroundings <- TheSurroundings
PROPERTIES
    QueuedJobRuns
CHECK_DEADLOCK FALSE
