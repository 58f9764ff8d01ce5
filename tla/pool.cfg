SPECIFICATION PoolSpec
CONSTANTS
    s1 = s1
    s2 = s2
    s3 = s3
    Actors = {a1}
    Secrets = {s1, s2, s3}
    Social = {s1, s2}
    UserOf <- Users
    MaxId = 2
    Priorities = {0}
    Regions = {r0, r1}
    Tasks = {t1, t2}
    Kinds = {"ensure", "usage", "background", "reprobe", "force", "resolve"}
    MaxToken = 2
    NoTask = NoTask
    Flows = {"manual", "helper", "idc", "builder", "iam", "kiro"}
    Handlers = {h1, h2, h3}
    Ranked = {1, 2, 3}
    Ranks = {0, 1}
    Weights = {0, 2, 3}
    MaxRequests = 9
    AffinityCreds = {s1, s2}
    RouteKeys = {s1, s2}
    Routed = {t1, t2}
    Removers = {a1}
    AffinityTtl = 1
    MaxEntries = 1
    MaxUses = 1
    PoolCreds = {s1, s2}
    ProxyAdmins = {t1, t2}
    PROXY_DEAD_THRESHOLD = 1
    MaxProxies = 2
    Fingerprints = {s1, s2}
    CacheTtls = {1, 2}
    CacheRequests = {t1, t2}
    MaxCacheTime = 2
SYMMETRY PoolSymmetry
CHECK_DEADLOCK FALSE
INVARIANTS
    RestartRestores
    RefreshTokenKept
    GrantUsedOnce
    SharedByWeight
    
    BindingKeepsItsProxy
    CleanMeansSaved
