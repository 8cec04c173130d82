\* One provider with every feature on, three concurrent requests: two to
\* open its breaker and one to meet it open, half open or closed again.
CONSTANTS
    FailureThreshold = 2
    DegradedAfter = 1
    DownAfter = 2
    Unlimited = Unlimited
    p1 = p1
    Providers = {p1}
    Requests = {r1, r2, r3}
    Keys = {k1}
    Cached = {p1}
    EnableFallback = TRUE
    Administered = {p1}
    Quota <- MCQuota
    MaxAttempts <- MCMaxAttempts
SPECIFICATION Spec
SYMMETRY Symmetry
INVARIANTS
    FallbackCoversCache
    StatsBalance
PROPERTIES
    DefaultTargetsClosed
    ImplementsAvailability
CHECK_DEADLOCK FALSE
