\* Two URLs, two callers; clears of both kinds and expiry at any moment.
SPECIFICATION FairSpec
CONSTANTS
    Url = {u1, u2}
    Caller = {c1, c2}
    Fetch = {f1, f2}
    None = None
    Ttl = 1
    MaxTime = 1
    MaxClears = 2
INVARIANTS
    NeverOlderThanClear
    CacheSurvivesNoClear
    OneFetchPerEpoch
PROPERTY EveryGetReturns
CHECK_DEADLOCK FALSE
