\* Six dispatches: enough to reach the threshold, cool down, probe,
\* reopen, and still have a call admitted before the opening answer late.
\* No symmetry: liveness.
CONSTANTS
    FailureThreshold = 3
    DegradedAfter = 1
    DownAfter = 2
    Unlimited = Unlimited
    Providers = {p1}
    Requests = {r1, r2, r3, r4, r5, r6}
SPECIFICATION FairSpec
INVARIANTS
    BreakerConsistent
    OpenImpliesDown
PROPERTY NeverShutOut
CHECK_DEADLOCK FALSE
