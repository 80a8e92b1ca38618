\* Two instances, two requests at a time, everything may expire.
SPECIFICATION Spec
CONSTANTS
    c1 = c1
    c2 = c2
    u1 = u1
    u2 = u2
    Client = {c1, c2}
    CimdClient = {}
    Uri = {u1, u2}
    Redirects <- MCRedirects
    Instance = {i1, i2}
    Slot = {r1, r2}
    Txn = {t1, t2}
    Code = {k1, k2}
    None = None
    TxnTtl = 0
    CodeTtl = 0
    ConsentRequired = TRUE
    Deployment <- MCDeployment
SYMMETRY ClientSymmetry
INVARIANTS
    CodeRedeemedOnce
    CallbackOnce
    TokensReachTheCodesClient
    AcceptedClientCompletes
PROPERTIES
    SpentStaysSpent
    ImplementsCodeGrant
CHECK_DEADLOCK FALSE
