\* The deployments of MCTokenSwap.
SPECIFICATION Spec
CONSTANTS
    MaxGrants = 1
    MaxJwts = 6
    Instance = {i1, i2}
    Slot = {r1, r2}
    None = None
    Lifetime = {1, 2, 3}
    MaxRotations = 2
    Deployment <- MCDeployment
SYMMETRY MCSymmetry
INVARIANTS
    TypeOK
    RefreshRedeemedOnce
    OneRefreshTokenPerChain
    CurrentAccessTokenResolves
    StaysLoggedIn
CHECK_DEADLOCK FALSE
