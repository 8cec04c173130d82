\* Two requests fan out over two providers or go to one of them; one
\* provider is cached, limited and retried, and every failure opens a
\* breaker.  No symmetry: liveness.
CONSTANTS
    FailureThreshold = 1
    DegradedAfter = 1
    DownAfter = 1
    Unlimited = Unlimited
    p1 = p1
    Providers = {p1, p2}
    Requests = {r1, r2}
    Keys = {k1}
    Cached = {p1}
    EnableFallback = TRUE
    Administered = {}
    Quota <- MCQuota
    MaxAttempts <- MCMaxAttempts
SPECIFICATION FairSpec
PROPERTIES
    FallbackShields
    EveryRequestAnswered
CHECK_DEADLOCK FALSE
