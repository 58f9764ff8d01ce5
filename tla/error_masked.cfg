SPECIFICATION ProviderSpec
CONSTANTS
    Creds = {c1}
    Alternatives = 0
    PoolProxies = {p1}
CHECK_DEADLOCK FALSE
INVARIANTS
    TooLongIsTold
