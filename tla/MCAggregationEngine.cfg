\* Three requests: two overlapping searches and one served what they
\* left.  The clock passes the longest life of an answer.
CONSTANTS
    Anyone = Anyone
    Providers = {p1}
    Named = {{p1}}
    Requests = {r1, r2, r3}
    Ttl = 2
    MaxWait = 1
    MaxTime = 3
SPECIFICATION Spec
SYMMETRY Symmetry
INVARIANTS
    AgeBounded
    QuietInvalidationHolds
    MetricsBalance
CHECK_DEADLOCK FALSE
