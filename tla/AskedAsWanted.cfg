\* Violated; README.md, section 3, says by what.
CONSTANTS
    Anyone = Anyone
    Providers = {p1}
    Named = {{}, {p1}}
    Requests = {r1, r2}
    Ttl = 2
    MaxWait = 1
    MaxTime = 2
SPECIFICATION Spec
SYMMETRY Symmetry
INVARIANT AskedAsWanted
CHECK_DEADLOCK FALSE
