\* Four dispatches with up to three attempts: bursts on both sides of the
\* edge of a window, one refused, and time for one dispatch to use up
\* everything it is allowed.
CONSTANTS
    Dispatches = {d1, d2, d3, d4}
    MaxRequests = 2
    Period = 3
    Attempts = 3
    Base = 1
    Multiplier = 2
    Timeout = 1
    MaxTime = 7
SPECIFICATION PacingSpec
SYMMETRY Symmetry
INVARIANTS
    BurstBounded
    WaitBounded
CHECK_DEADLOCK FALSE
