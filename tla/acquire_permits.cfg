SPECIFICATION Spec
CONSTANTS
    c1 = c1
    c2 = c2
    p1 = p1
    global = global
    NoProxy = NoProxy
    NoCred = NoCred
    Creds = {c1, c2}
    Proxies = {p1}
    Global = global
    Requests = {r1, r2, r3}
    Limit <- OnePermitEach
    ProxyOf <- FirstBehindProxy
    GlobalEnabled = TRUE
    MaxAttempts = 1
SYMMETRY RequestSymmetry
INVARIANTS
    PermitsConserved
    NoHoldAndWait
    CallIsCovered
PROPERTIES
    AdmissionSpec
