\* One account, that two ids ask for under an email written in two ways; four
\* tokens, so that one session rotates until after its end while another is
\* opened; windows that meet within the clock, and a request that may take as
\* long as an access token lives.
CONSTANTS
    Users = {u1, u2}
    Sessions = {s1, s2}
    Tokens = {t1, t2, t3, t4}
    NoSession = NoSession
    NoToken = NoToken
    Ttl = 2
    Pause = 1
    MaxTime = 4
    Emails = {"a@x.io", "A@x.io"}
    Normal <- MCNormal
    Usernames = {n1}
    Profiles = {p1}
    Ips = {i1}
    MaxFailures = 2
    FailureWindow = 2
    MaxRequests = 3
    RequestWindow = 2
    AccessTtl = 1
    NoAccount = NoAccount
    NoEntry = NoEntry
SPECIFICATION SpecAccounts
SYMMETRY Symmetry
INVARIANTS
    OneWayIn
    ReuseClosesSession
    AttemptsBounded
    TurnedAwayForCause
PROPERTIES
    AccessEnds
    RevokedIsFinal
    SessionNotProlonged
CHECK_DEADLOCK FALSE
