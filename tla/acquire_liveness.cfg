SPECIFICATION FairSpec
CONSTANTS
    c1 = c1
    c2 = c2
    p1 = p1
    global = global
    NoProxy = NoProxy
    NoCred = NoCred
    Creds = {c1}
    Proxies = {p1}
    Global = global
    Requests = {r1, r2, r3}
    Limit <- TwoOnCred
    ProxyOf <- NoProxies
    GlobalEnabled = TRUE
    MaxAttempts = 2
PROPERTIES
    WaitEnds
