\* One client, whose owner replaces its document once: every pair of documents
\* that are good, forbidden or invalid with a short, no or default lifetime;
\* two calls at a time.
SPECIFICATION FairSpec
CONSTANTS
    Client = {c1}
    Slot = {r1, r2}
    None = None
    MaxVersion = 2
    Lifetime = {1}
    DefaultTtl = 2
    Timeout = 2
    Horizon = 5
INVARIANTS
    AnswersAreFresh
PROPERTIES
    EveryFetchEnds
CHECK_DEADLOCK FALSE
