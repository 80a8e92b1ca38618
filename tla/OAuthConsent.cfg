\* A callback of a transaction whose consent page was shown.
SPECIFICATION Spec
CONSTANTS
    c1 = c1
    c2 = c2
    u1 = u1
    u2 = u2
    Client = {c1, c2}
    CimdClient = {}
    Uri = {u1, u2}
    Redirects <- MCRedirects
    Instance = {i1}
    Slot = {r1, r2}
    Txn = {t1}
    Code = {k1, k2}
    None = None
    TxnTtl = 1
    CodeTtl = 1
    ConsentRequired = TRUE
    Deployment <- Single
SYMMETRY Symmetry
INVARIANT ConsentPrecedesCode
CHECK_DEADLOCK FALSE
