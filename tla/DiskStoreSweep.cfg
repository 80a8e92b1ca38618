\* Two processes share the directory; nothing crashes.
SPECIFICATION Spec
CONSTANTS
    p1 = p1
    p2 = p2
    r1 = r1
    r2 = r2
    Key = {k1}
    MaxSaves = 2
    Process = {p1, p2}
    Slot = {r1, r2}
    Of <- TwoProcesses
    None = None
    Garbled = Garbled
    Ttl = {0}
    MaxTime = 0
    MaxCrashes = 0
PROPERTY CleanupRemovesExpired
CHECK_DEADLOCK FALSE
