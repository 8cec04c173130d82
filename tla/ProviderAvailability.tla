----------------------- MODULE ProviderAvailability -----------------------
(***************************************************************************)
(* What ProviderManager promises about one provider at a time: how the     *)
(* answers of concurrent calls move its circuit breaker and its health.    *)
(*                                                                         *)
(* A dispatch is the pair <<r, p>>: request r reaching provider p.  It     *)
(* either ends at the gate (cached answer, unknown provider, breaker or    *)
(* rate limit), or is in flight until its last attempt answers.  How many  *)
(* attempts it makes, what is cached and who asked is left to              *)
(* ProviderManager, which implements this specification.                   *)
(*                                                                         *)
(* Every dispatch happens once, so Requests bounds a behaviour; nothing    *)
(* else does.                                                              *)
(***************************************************************************)
EXTENDS ProviderControls

CONSTANTS Providers, Requests

VARIABLES breaker,   \* CircuitBreaker._states
          health,    \* HealthTracker._health
          call       \* call[r][p]: where dispatch <<r, p>> stands

vars == <<breaker, health, call>>

Init ==
    /\ breaker = [p \in Providers |-> NewBreaker]
    /\ health  = [p \in Providers |-> NewHealth]
    /\ call    = [r \in Requests |-> [p \in Providers |-> "idle"]]

---------------------------------------------------------------------------
(* A dispatch moves from one stage to another.                             *)
Move(r, p, from, to) ==
    /\ call[r][p] = from
    /\ call' = [call EXCEPT ![r][p] = to]

(* Ends without a verdict on the provider: a cache hit or an unknown        *)
(* provider, which never look at the breaker, and the cancellation of the  *)
(* request, which ends all its dispatches at once.  asyncio.CancelledError *)
(* is no Exception, so _dispatch lets it pass and records nothing.         *)
Leave(r, S) ==
    /\ S # {}
    /\ \A p \in S : call[r][p] # "ended"
    /\ call' = [call EXCEPT ![r] =
                   [p \in Providers |-> IF p \in S THEN "ended" ELSE @[p]]]
    /\ UNCHANGED <<breaker, health>>

(* The breaker is read, which may make it HALF_OPEN, and lets the call     *)
(* through; the rate limiter may still turn it away.                       *)
Admit(r, p) ==
    /\ AllowsCall(breaker[p])
    /\ \E to \in {"inflight", "ended"} : Move(r, p, "idle", to)
    /\ breaker' = [breaker EXCEPT ![p] = Observed(@)]
    /\ UNCHANGED health

Refuse(r, p) ==
    /\ ~AllowsCall(breaker[p])
    /\ Move(r, p, "idle", "ended")
    /\ breaker' = [breaker EXCEPT ![p] = Observed(@)]
    /\ UNCHANGED health

Succeed(r, p) ==
    /\ Move(r, p, "inflight", "ended")
    /\ health'  = [health  EXCEPT ![p] = HealthAfterSuccess(@)]
    /\ breaker' = [breaker EXCEPT ![p] = BreakerAfterSuccess(@)]

Fail(r, p) ==
    /\ Move(r, p, "inflight", "ended")
    /\ health'  = [health  EXCEPT ![p] = HealthAfterFailure(@)]
    /\ breaker' = [breaker EXCEPT ![p] = BreakerAfterFailure(@)]

(* cooldown_seconds pass since opened_at.                                  *)
CooldownElapses(p) ==
    /\ breaker[p].opened = "recent"
    /\ breaker' = [breaker EXCEPT ![p] = CooledDown(@)]
    /\ UNCHANGED <<health, call>>

Dispatch(r, p) ==
    Admit(r, p) \/ Refuse(r, p) \/ Succeed(r, p) \/ Fail(r, p)

Next ==
    \/ \E r \in Requests, S \in SUBSET Providers : Leave(r, S)
    \/ \E r \in Requests, p \in Providers : Dispatch(r, p)
    \/ \E p \in Providers : CooldownElapses(p)

Spec == Init /\ [][Next]_vars

(* Time passes: the only fairness recovery needs.                          *)
FairSpec == Spec /\ \A p \in Providers : WF_vars(CooldownElapses(p))

---------------------------------------------------------------------------
TypeOK ==
    /\ breaker \in [Providers -> BreakerType]
    /\ health  \in [Providers -> HealthType]
    /\ call    \in [Requests -> [Providers -> {"idle", "inflight", "ended"}]]

(* The breaker is CLOSED exactly below the failure threshold, opened_at is *)
(* set exactly when it is not CLOSED, and HALF_OPEN is only reached after  *)
(* the cooldown (circuit_breaker.py, record_success / record_failure /     *)
(* current_state), whatever order late answers arrive in.                  *)
BreakerConsistent == \A p \in Providers : SoundBreaker(breaker[p])

(* The health status is the one its failure count calls for, so a provider *)
(* is DOWN exactly after DownAfter failures in a row                       *)
(* (ProviderHealth.record_failure).                                        *)
HealthConsistent == \A p \in Providers : SoundHealth(health[p])

(* The two trackers, updated side by side by _dispatch, never disagree the *)
(* wrong way: the breaker does not count a failure the health tracker has  *)
(* not seen.  (It may count fewer: a failed probe adds to health only.)    *)
BreakerBehindHealth ==
    \A p \in Providers : breaker[p].failures <= health[p].failures

(* With failure_threshold at least down_after, as the defaults 5 and 3     *)
(* are on purpose, a provider whose breaker is not CLOSED is DOWN, so an   *)
(* aggregate request that chooses its own providers never lands on it.     *)
OpenImpliesDown ==
    DownAfter <= FailureThreshold =>
        \A p \in Providers :
            breaker[p].state # "CLOSED" => ~Available(health[p])

(* No provider is shut out for good: again and again its breaker would let *)
(* a call through, even though failures of calls admitted earlier restart  *)
(* the cooldown.                                                           *)
NeverShutOut ==
    \A p \in Providers : []<>AllowsCall(breaker[p])

(* The state machine drawn in circuit_breaker.py: OPEN is left only for    *)
(* HALF_OPEN.                                                              *)
DocumentedTransitions ==
    [][\A p \in Providers :
          breaker[p].state = "OPEN" => breaker'[p].state # "CLOSED"]_vars
===========================================================================
