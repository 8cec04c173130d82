-------------------------- MODULE ProviderPacing --------------------------
(***************************************************************************)
(* The timing of the calls to one provider: RateLimiter's fixed window,    *)
(* wait_for's timeout and RetryPolicy's backoff, on an explicit clock.     *)
(* ProviderManager forgets durations; this module keeps them and forgets   *)
(* everything else: cache, breaker and health let every dispatch through.  *)
(*                                                                         *)
(* The event loop is taken to be punctual: the clock does not move past a  *)
(* timer that is due.                                                      *)
(***************************************************************************)
EXTENDS Naturals, FiniteSets

CONSTANTS Dispatches,
          MaxRequests, Period,            \* RateLimitConfig
          Attempts, Base, Multiplier,  \* RetryConfig
          Timeout,                        \* ProviderConfiguration.timeout_seconds
          MaxTime                         \* bound of the clock

(* What __post_init__ of the three accepts, in whole units of time.        *)
ValidConfiguration ==
    /\ MaxRequests \in Nat /\ MaxRequests > 0
    /\ Period \in Nat /\ Period > 0
    /\ Attempts \in Nat /\ Attempts >= 1
    /\ Base \in Nat
    /\ Multiplier \in Nat /\ Multiplier >= 1
    /\ Timeout \in Nat /\ Timeout > 0

ASSUME PacingAssumption == ValidConfiguration /\ MaxTime \in Nat

VARIABLES now,
          quotaWindow, \* [start, count]; count 0: RateLimiter knows no window yet
          dispatch, \* dispatch[d]: stage, attempts made, when the stage was entered
          sent      \* history: sent[d][i], when attempt i of d reached the adapter

pacingVars == <<now, quotaWindow, dispatch, sent>>

PacingInit ==
    /\ now = 0
    /\ quotaWindow = [start |-> 0, count |-> 0]
    /\ dispatch = [d \in Dispatches |-> [at |-> "idle", tries |-> 0, since |-> 0, begun |-> 0]]
    /\ sent = {}

---------------------------------------------------------------------------
(* Wrong variant: windows aligned to the clock, not to a request.          *)
AlignedStart == now - (now % Period)

(* RateLimiter.allow: a missing or finished window starts now.             *)
WindowStart ==
    IF quotaWindow.count = 0 \/ now - quotaWindow.start >= Period THEN now ELSE quotaWindow.start

WindowCount == IF WindowStart = quotaWindow.start THEN quotaWindow.count ELSE 0

(* An attempt of d reaches the adapter.                                    *)
Sends(d, tries, begun) ==
    /\ dispatch' = [dispatch EXCEPT ![d] = [at |-> "attempt", tries |-> tries,
                                            since |-> now, begun |-> begun]]
    /\ sent' = sent \cup {<<d, tries, now>>}

Enters(d, stage) ==
    /\ dispatch' = [dispatch EXCEPT ![d].at = stage, ![d].since = now]
    /\ UNCHANGED sent

Admit(d) ==
    /\ dispatch[d].at = "idle"
    /\ WindowCount < MaxRequests
    /\ quotaWindow' = [start |-> WindowStart, count |-> WindowCount + 1]
    /\ Sends(d, 1, now)
    /\ UNCHANGED now

Limit(d) ==
    /\ dispatch[d].at = "idle"
    /\ WindowCount >= MaxRequests
    /\ quotaWindow' = [start |-> WindowStart, count |-> WindowCount]
    /\ Enters(d, "limited")
    /\ UNCHANGED now

Succeed(d) ==
    /\ dispatch[d].at = "attempt"
    /\ Enters(d, "ended")
    /\ UNCHANGED <<now, quotaWindow>>

(* It raises, or wait_for gives up on it; then it sleeps or gives up.      *)
Fail(d) ==
    /\ dispatch[d].at = "attempt"
    /\ Enters(d, IF dispatch[d].tries < Attempts THEN "backoff" ELSE "ended")
    /\ UNCHANGED <<now, quotaWindow>>

(* The sleep before attempt i + 1: backoff_base * multiplier ^ (i - 1).    *)
Power[n \in Nat] == IF n = 0 THEN 1 ELSE Power[n - 1] * Multiplier

Delay(i) == Base * Power[i - 1]

TryAgain(d) ==
    /\ dispatch[d].at = "backoff"
    /\ now = dispatch[d].since + Delay(dispatch[d].tries)
    /\ Sends(d, dispatch[d].tries + 1, dispatch[d].begun)
    /\ UNCHANGED <<now, quotaWindow>>

(* Wrong variant: only the first attempt has a timeout.                    *)
FirstTimeoutDue(d) ==
    \/ dispatch[d].at = "attempt" /\ dispatch[d].tries = 1 /\ now = dispatch[d].since + Timeout
    \/ dispatch[d].at = "backoff" /\ now = dispatch[d].since + Delay(dispatch[d].tries)

(* A timer of d is due.                                                    *)
Due(d) ==
    \/ dispatch[d].at = "attempt" /\ now = dispatch[d].since + Timeout
    \/ dispatch[d].at = "backoff" /\ now = dispatch[d].since + Delay(dispatch[d].tries)

Tick ==
    /\ now < MaxTime
    /\ \A d \in Dispatches : ~Due(d)
    /\ now' = now + 1
    /\ UNCHANGED <<quotaWindow, dispatch, sent>>

PacingNext ==
    \/ \E d \in Dispatches :
          Admit(d) \/ Limit(d) \/ Succeed(d) \/ Fail(d) \/ TryAgain(d)
    \/ Tick

PacingSpec == PacingInit /\ [][PacingNext]_pacingVars

---------------------------------------------------------------------------
PacingTypeOK ==
    /\ now \in 0..MaxTime
    /\ quotaWindow \in [start : 0..now, count : 0..MaxRequests]
    /\ dispatch \in [Dispatches -> [at : {"idle", "attempt", "backoff", "ended", "limited"},
                                    tries : 0..Attempts, since : 0..now, begun : 0..now]]
    /\ sent \subseteq Dispatches \X (1..Attempts) \X (0..now)

(* First attempts in [t, t + Period): what the limiter let through.        *)
AdmittedFrom(t) == {s \in sent : s[2] = 1 /\ s[3] >= t /\ s[3] < t + Period}

(* A fixed window allows bursts on both sides of its edge, but since a     *)
(* window starts with a request and not with the clock, any stretch of one *)
(* period sees at most one less than twice max_requests.                   *)
BurstBounded ==
    \A t \in 0..now : Cardinality(AdmittedFrom(t)) < 2 * MaxRequests

(* What attempts and sleeps can add up to.                                 *)
Waits[n \in Nat] == IF n = 0 THEN 0 ELSE Waits[n - 1] + Timeout + Delay(n)

Deadline == Waits[Attempts - 1] + Timeout

(* A caller never waits longer than its attempts, each cut off by its own  *)
(* timeout, and the sleeps between them: a hanging adapter cannot hold it. *)
WaitBounded ==
    \A d \in Dispatches :
        dispatch[d].at \in {"attempt", "backoff"} => now <= dispatch[d].begun + Deadline

(* domain/providers/value_objects.py on RateLimitConfig: a limit of the    *)
(* requests a provider allows in a window of time.  Requests that reach    *)
(* the adapter in the limiter's current window, retries included.          *)
RequestsWithinQuota ==
    Cardinality({s \in sent : s[3] >= quotaWindow.start /\ s[3] < quotaWindow.start + Period})
        <= MaxRequests
===========================================================================
