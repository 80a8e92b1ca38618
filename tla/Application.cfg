\* Two starts in any order with stops and failures, two requests at a time,
\* tools with and without a deadline.
SPECIFICATION AppFairSpec
CONSTANTS
    Slot = {r1, r2}
    MaxStarts = 2
    MaxConnected = 1
    Deadlines = {TRUE, FALSE}
    MaxProxies = 2
    AllowAnonymous = FALSE
INVARIANTS
    AppTypeOK
    NoRollbackOfSuccess
    AbandonedToolIsTold
    ServesThroughCurrentHandler
    ChangesReachListeners
    StopReleasesAll
    TokensVerify
    NothingServedAfterDestroy
    DestroyIsFinal
PROPERTIES
    StopReturns
CHECK_DEADLOCK FALSE
