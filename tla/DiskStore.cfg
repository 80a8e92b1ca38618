\* One key saved twice by two calls at a time, sweeps at any moment.
SPECIFICATION FairSpec
CONSTANTS
    p1 = p1
    p2 = p2
    r1 = r1
    r2 = r2
    Key = {k1}
    MaxSaves = 2
    Process = {p1}
    Slot = {r1, r2}
    Of <- OneProcess
    None = None
    Garbled = Garbled
    Ttl = {0, 1}
    MaxTime = 2
    MaxCrashes = 1
INVARIANTS
    TakenOnce
PROPERTIES
    LeftoversReaped
    ImplementsTokenStorage
CHECK_DEADLOCK FALSE
