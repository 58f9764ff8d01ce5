SPECIFICATION AdminSpec
CONSTANTS
    Global = global
    Unset = unset
    Creds = {c1}
    Admins = {a1}
    MaxLimit = 3
    BalanceCreds = {s1}
    BalanceAdmins = {a1}
    BalanceWorkers = {t1}
    QUOTA = 1
    OVERAGE_CAP = 1
    BALANCE_PERMITS = 1
    AllowOverUsage = FALSE
    Unknown = unknown
    secret1 = secret1
    secret2 = secret2
    user1 = user1
    email1 = email1
    account1 = account1
    GitHubEmails = {email1}
    Absent = absent
    Packages <- SomePackages
    MaxImportId = 2
    MaxImports = 2
    ConfigAdmins = {o1, o2}
    MaxUpdates = 2
    MaxFieldsSent = 2
    KeyValues = {k1, k2}
    KeyNames = {n1, n2}
    FirstName = n1
    ConfigKey = k1
    Clients = {o1, o2}
    KeyAdmins = {a1}
    UsageLimit = 1
    MaxKeys = 2
    Editable = {2}
    ListCreds = {1, 2}
    Listers = {l1}
    Catalogs <- SomeCatalogs
    ModelKeys = {"a", "b"}
    ModelProviders = {"p"}
    PAGE_SIZE = 1
    MAX_ATTEMPTS = 2
    PlaceOf <- SomePlaces
    MaxLists = 3
    RegionNames = {"", "bad", "east", "west", "moon"}
    CredentialFiles <- SomeFiles
    RegionSettings <- SomeSettings
    RepairCalls <- SomeCalls
    MaxRepairs = 2
SYMMETRY AdminSymmetry
CHECK_DEADLOCK FALSE
INVARIANTS
    LimitsMatchConfig
    BalancesAgree
    
    CopiesFollowConfig
    KeysKeptAndCounted
    ListsAreWhole
    RepairIsSafe
