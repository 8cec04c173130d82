------------------------- MODULE ProviderControls -------------------------
(***************************************************************************)
(* The per-provider bookkeeping that ProviderManager._dispatch consults    *)
(* and updates: circuit breaker, health and fixed-window rate limit, each  *)
(* a record and each method an operator from the record before to the      *)
(* record after.                                                           *)
(*                                                                         *)
(* A time stamp is kept only as the answer to the one question the code    *)
(* asks of it, "has the period elapsed since?", so a step of the clock is  *)
(* the change of that answer (CooledDown, WindowOver).                     *)
(***************************************************************************)
EXTENDS Integers

CONSTANTS FailureThreshold,   \* CircuitBreakerConfig.failure_threshold
          DegradedAfter,      \* HealthTracker degraded_after
          DownAfter,          \* HealthTracker down_after
          Unlimited           \* "no RateLimitConfig": RateLimiter.allow(_, None)

ASSUME ThresholdsAssumption ==
    /\ FailureThreshold \in Nat \ {0}
    /\ DegradedAfter \in Nat \ {0}
    /\ DownAfter \in Nat
    /\ DegradedAfter <= DownAfter

ASSUME UnlimitedAssumption == Unlimited \notin Nat

---------------------------------------------------------------------------
(* CircuitBreaker.  opened: has opened_at been set, and if so has the      *)
(* cooldown elapsed since?                                                 *)

BreakerType == [state    : {"CLOSED", "OPEN", "HALF_OPEN"},
                failures : Nat,
                opened   : {"none", "recent", "elapsed"}]

NewBreaker == [state |-> "CLOSED", failures |-> 0, opened |-> "none"]

CooledDown(b) == [b EXCEPT !.opened = "elapsed"]

(* current_state: reading an OPEN breaker after its cooldown makes it      *)
(* HALF_OPEN.                                                              *)
Observed(b) ==
    IF b.state = "OPEN" /\ b.opened = "elapsed"
    THEN [b EXCEPT !.state = "HALF_OPEN"]
    ELSE b

AllowsCall(b) == Observed(b).state # "OPEN"

(* Wrong variant: a success closes the breaker but keeps its failure count.*)
SuccessKeepsFailures(b) == [b EXCEPT !.state = "CLOSED", !.opened = "none"]

BreakerAfterSuccess(b) ==
    [b EXCEPT !.state = "CLOSED", !.failures = 0, !.opened = "none"]

(* Wrong variant: a reopening that forgets opened_at.                      *)
ReopensWithoutTime(b) ==
    IF b.state = "HALF_OPEN"
    THEN [b EXCEPT !.state = "OPEN", !.opened = "none"]
    ELSE IF b.failures + 1 >= FailureThreshold
    THEN [state |-> "OPEN", failures |-> b.failures + 1, opened |-> "recent"]
    ELSE [b EXCEPT !.failures = b.failures + 1]

(* A failed HALF_OPEN probe reopens without counting; any other failure    *)
(* counts, and at the threshold (re)stamps opened_at, even if the breaker  *)
(* was OPEN already.                                                       *)
BreakerAfterFailure(b) ==
    IF b.state = "HALF_OPEN"
    THEN [b EXCEPT !.state = "OPEN", !.opened = "recent"]
    ELSE IF b.failures + 1 >= FailureThreshold
    THEN [state |-> "OPEN", failures |-> b.failures + 1, opened |-> "recent"]
    ELSE [b EXCEPT !.failures = b.failures + 1]

(* A breaker the three methods can leave behind: CLOSED exactly below the  *)
(* threshold, opened_at set exactly when not CLOSED, HALF_OPEN only after  *)
(* the cooldown.                                                           *)
SoundBreaker(b) ==
    /\ b.state = "CLOSED" <=> b.failures < FailureThreshold
    /\ b.state = "CLOSED" <=> b.opened = "none"
    /\ b.state = "HALF_OPEN" => b.opened = "elapsed"

---------------------------------------------------------------------------
(* ProviderHealth, through HealthTracker.                                  *)

HealthType == [status   : {"UNKNOWN", "HEALTHY", "DEGRADED", "DOWN"},
               failures : Nat]

NewHealth == [status |-> "UNKNOWN", failures |-> 0]

HealthAfterSuccess(h) == [h EXCEPT !.status = "HEALTHY", !.failures = 0]

HealthAfterFailure(h) ==
    LET n == h.failures + 1
    IN  [status   |-> IF n >= DownAfter THEN "DOWN"
                      ELSE IF n >= DegradedAfter THEN "DEGRADED"
                      ELSE h.status,
         failures |-> n]

(* A status its failure count calls for.                                   *)
SoundHealth(h) ==
    /\ h.status = "DOWN" <=> h.failures >= DownAfter
    /\ h.status = "DEGRADED" <=> h.failures >= DegradedAfter /\ h.failures < DownAfter

Available(h) == h.status # "DOWN"

---------------------------------------------------------------------------
(* RateLimiter.  over: has period_seconds elapsed since window_start?      *)

WindowType == [count : Nat, over : BOOLEAN]

NewWindow == [count |-> 0, over |-> FALSE]

WindowOver(w) == [w EXCEPT !.over = TRUE]

CurrentWindow(w) == IF w.over THEN NewWindow ELSE w

(* allow: the verdict, and the window left behind.                         *)
WithinQuota(w, quota) == quota # Unlimited => CurrentWindow(w).count < quota

WindowAfterAllow(w, quota) ==
    IF quota = Unlimited THEN w
    ELSE IF WithinQuota(w, quota)
    THEN [CurrentWindow(w) EXCEPT !.count = @ + 1]
    ELSE CurrentWindow(w)
===========================================================================
