SPECIFICATION IntentSpec
CONSTANTS
    NoCred = NoCred
    Creds = {c1}
    ApiKeyCreds = {}
    Requests = {r1}
    MAX_FAILURES_PER_CREDENTIAL = 2
    MODEL_UNAVAILABLE_THRESHOLD = 2
    MaxBackoffLevel = 2
    AllowOverUsage = FALSE
INVARIANTS
    ManualIsSticky
