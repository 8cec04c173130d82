--------------------- MODULE ProviderAvailabilityProofs ---------------------
(***************************************************************************)
(* Proofs about ProviderAvailability, for every set of providers and       *)
(* requests and every threshold.                                           *)
(*                                                                         *)
(* The argument is per provider.  The lemmas below say what each method of *)
(* the breaker and of the health record does to a sound pair; the theorems *)
(* lift them to the steps of the specification.                            *)
(***************************************************************************)
EXTENDS ProviderAvailability, TLAPS

(* A breaker and a health record that agree.                               *)
SoundPair(b, h) ==
    /\ b \in BreakerType /\ h \in HealthType
    /\ SoundBreaker(b) /\ SoundHealth(h)
    /\ b.failures <= h.failures

(* New providers start with a sound pair.                                  *)
LEMMA NewPairSound == SoundPair(NewBreaker, NewHealth)
BY ThresholdsAssumption
DEF SoundPair, BreakerType, HealthType, SoundBreaker, SoundHealth, NewBreaker, NewHealth

(* current_state, whether or not it turns the breaker HALF_OPEN.           *)
LEMMA ObservedSound ==
    ASSUME NEW b, NEW h, SoundPair(b, h)
    PROVE  SoundPair(Observed(b), h)
<1>1. CASE b.state = "OPEN" /\ b.opened = "elapsed"
  <2> DEFINE o == [b EXCEPT !.state = "HALF_OPEN"]
  <2>1. Observed(b) = o
    BY <1>1 DEF Observed
  <2>2. o \in BreakerType /\ o.state = "HALF_OPEN"
        /\ o.failures = b.failures /\ o.opened = "elapsed"
    BY <1>1 DEF SoundPair, BreakerType
  <2> QED
    BY <1>1, <2>1, <2>2 DEF SoundPair, SoundBreaker
<1>2. CASE ~(b.state = "OPEN" /\ b.opened = "elapsed")
  BY <1>2 DEF Observed
<1> QED
  BY <1>1, <1>2

(* record_success on both sides.                                           *)
LEMMA SuccessSound ==
    ASSUME NEW b, NEW h, SoundPair(b, h)
    PROVE  SoundPair(BreakerAfterSuccess(b), HealthAfterSuccess(h))
<1> DEFINE c == BreakerAfterSuccess(b)
           g == HealthAfterSuccess(h)
<1>1. c \in BreakerType /\ c.state = "CLOSED" /\ c.failures = 0 /\ c.opened = "none"
  BY DEF SoundPair, BreakerType, BreakerAfterSuccess
<1>2. g \in HealthType /\ g.status = "HEALTHY" /\ g.failures = 0
  BY DEF SoundPair, HealthType, HealthAfterSuccess
<1> HIDE DEF c, g
<1> QED
  BY <1>1, <1>2, ThresholdsAssumption DEF SoundPair, SoundBreaker, SoundHealth, c, g

(* record_failure on both sides: health counts every failure, the breaker  *)
(* all but those of HALF_OPEN probes.                                      *)
LEMMA FailureSound ==
    ASSUME NEW b, NEW h, SoundPair(b, h)
    PROVE  SoundPair(BreakerAfterFailure(b), HealthAfterFailure(h))
<1> DEFINE c == BreakerAfterFailure(b)
           g == HealthAfterFailure(h)
<1>1. b.failures \in Nat /\ h.failures \in Nat /\ b.failures <= h.failures
  BY DEF SoundPair, BreakerType, HealthType
<1>2. g \in HealthType /\ SoundHealth(g) /\ g.failures = h.failures + 1
  BY <1>1, ThresholdsAssumption
  DEF SoundPair, HealthType, SoundHealth, HealthAfterFailure
<1>3. c \in BreakerType /\ SoundBreaker(c) /\ c.failures <= b.failures + 1
  <2>1. CASE b.state = "HALF_OPEN"
    <3>1. c = [b EXCEPT !.state = "OPEN", !.opened = "recent"]
      BY <2>1 DEF BreakerAfterFailure
    <3>2. c \in BreakerType /\ c.state = "OPEN" /\ c.opened = "recent"
          /\ c.failures = b.failures
      BY <3>1 DEF SoundPair, BreakerType
    <3>3. ~(b.failures < FailureThreshold)
      BY <2>1 DEF SoundPair, SoundBreaker
    <3> HIDE DEF c
    <3> QED
      BY <3>2, <3>3, <1>1 DEF SoundBreaker
  <2>2. CASE b.state # "HALF_OPEN" /\ b.failures + 1 >= FailureThreshold
    BY <2>2, <1>1, ThresholdsAssumption
    DEF SoundPair, BreakerType, SoundBreaker, BreakerAfterFailure
  <2>3. CASE b.state # "HALF_OPEN" /\ ~(b.failures + 1 >= FailureThreshold)
    BY <2>3, <1>1, ThresholdsAssumption
    DEF SoundPair, BreakerType, SoundBreaker, BreakerAfterFailure
  <2> QED
    BY <2>1, <2>2, <2>3
<1>4. c.failures \in Nat
  BY <1>3 DEF BreakerType
<1> HIDE DEF c, g
<1>5. c.failures <= g.failures
  BY <1>1, <1>2, <1>3, <1>4
<1> QED
  BY <1>2, <1>3, <1>5 DEF SoundPair, c, g

(* The cooldown elapses on a breaker that is not CLOSED.                   *)
LEMMA CooledDownSound ==
    ASSUME NEW b, NEW h, SoundPair(b, h), b.opened = "recent"
    PROVE  SoundPair(CooledDown(b), h)
<1> DEFINE c == CooledDown(b)
<1>1. c \in BreakerType /\ c.state = b.state /\ c.failures = b.failures
      /\ c.opened = "elapsed"
  BY DEF SoundPair, BreakerType, CooledDown
<1> HIDE DEF c
<1> QED
  BY <1>1 DEF SoundPair, SoundBreaker, c

---------------------------------------------------------------------------
(* The inductive invariant: every provider's pair is sound.                *)
CallType == [Requests -> [Providers -> {"idle", "inflight", "ended"}]]

IInv ==
    /\ breaker = [p \in Providers |-> breaker[p]]
    /\ health = [p \in Providers |-> health[p]]
    /\ call \in CallType
    /\ \A p \in Providers : SoundPair(breaker[p], health[p])

(* A step that touches one provider keeps the invariant if it keeps that   *)
(* provider's pair sound.                                                  *)
LEMMA OneProvider ==
    ASSUME IInv, NEW p \in Providers, NEW b, NEW h, SoundPair(b, h),
           breaker' = [breaker EXCEPT ![p] = b],
           health' = [health EXCEPT ![p] = h],
           call' \in CallType
    PROVE  IInv'
BY DEF IInv, CallType

(* A dispatch moves to another stage.                                      *)
LEMMA MoveType ==
    ASSUME call \in CallType, NEW r \in Requests, NEW p \in Providers, NEW from,
           NEW to \in {"idle", "inflight", "ended"}, Move(r, p, from, to)
    PROVE  call' \in CallType
BY DEF CallType, Move

(* Initially every pair is new.                                            *)
LEMMA InitSound == Init => IInv
<1> SUFFICES ASSUME Init PROVE IInv
  OBVIOUS
<1>1. call \in CallType
  BY DEF Init, CallType
<1>2. \A p \in Providers : breaker[p] = NewBreaker /\ health[p] = NewHealth
  BY DEF Init
<1> QED
  BY <1>1, <1>2, NewPairSound DEF Init, IInv

(* Every step keeps every pair sound, in whatever order answers arrive.    *)
LEMMA NextSound == IInv /\ [Next]_vars => IInv'
<1> SUFFICES ASSUME IInv, [Next]_vars PROVE IInv'
  OBVIOUS
<1> USE DEF IInv
<1>1. ASSUME NEW r \in Requests, NEW S \in SUBSET Providers, Leave(r, S)
      PROVE  IInv'
  BY <1>1 DEF Leave, CallType
<1>2. ASSUME NEW r \in Requests, NEW p \in Providers, Admit(r, p)
      PROVE  IInv'
  <2>1. PICK to \in {"inflight", "ended"} : Move(r, p, "idle", to)
    BY <1>2 DEF Admit
  <2>2. call' \in CallType
    BY <2>1, MoveType
  <2>3. breaker' = [breaker EXCEPT ![p] = Observed(breaker[p])]
        /\ health' = [health EXCEPT ![p] = health[p]]
    BY <1>2 DEF Admit
  <2> QED
    BY <2>2, <2>3, ObservedSound, OneProvider
<1>3. ASSUME NEW r \in Requests, NEW p \in Providers, Refuse(r, p)
      PROVE  IInv'
  <2>1. call' \in CallType
    BY <1>3, MoveType DEF Refuse
  <2>2. breaker' = [breaker EXCEPT ![p] = Observed(breaker[p])]
        /\ health' = [health EXCEPT ![p] = health[p]]
    BY <1>3 DEF Refuse
  <2> QED
    BY <2>1, <2>2, ObservedSound, OneProvider
<1>4. ASSUME NEW r \in Requests, NEW p \in Providers, Succeed(r, p)
      PROVE  IInv'
  <2>1. call' \in CallType
    BY <1>4, MoveType DEF Succeed
  <2>2. breaker' = [breaker EXCEPT ![p] = BreakerAfterSuccess(breaker[p])]
        /\ health' = [health EXCEPT ![p] = HealthAfterSuccess(health[p])]
    BY <1>4 DEF Succeed
  <2> QED
    BY <2>1, <2>2, SuccessSound, OneProvider
<1>5. ASSUME NEW r \in Requests, NEW p \in Providers, Fail(r, p)
      PROVE  IInv'
  <2>1. call' \in CallType
    BY <1>5, MoveType DEF Fail
  <2>2. breaker' = [breaker EXCEPT ![p] = BreakerAfterFailure(breaker[p])]
        /\ health' = [health EXCEPT ![p] = HealthAfterFailure(health[p])]
    BY <1>5 DEF Fail
  <2> QED
    BY <2>1, <2>2, FailureSound, OneProvider
<1>6. ASSUME NEW p \in Providers, CooldownElapses(p)
      PROVE  IInv'
  <2>1. call' \in CallType
    BY <1>6 DEF CooldownElapses
  <2>2. breaker' = [breaker EXCEPT ![p] = CooledDown(breaker[p])]
        /\ health' = [health EXCEPT ![p] = health[p]]
    BY <1>6 DEF CooldownElapses
  <2>3. breaker[p].opened = "recent"
    BY <1>6 DEF CooldownElapses
  <2> QED
    BY <2>1, <2>2, <2>3, CooledDownSound, OneProvider
<1>7. CASE UNCHANGED vars
  BY <1>7 DEF vars
<1> QED
  BY <1>1, <1>2, <1>3, <1>4, <1>5, <1>6, <1>7 DEF Next, Dispatch

(* The invariant holds throughout.                                         *)
THEOREM Soundness == Spec => []IInv
BY InitSound, NextSound, PTL DEF Spec

---------------------------------------------------------------------------
(* Type correctness, for every value of the constants.                     *)
THEOREM TypeCorrect == Spec => []TypeOK
<1>1. IInv => TypeOK
  BY DEF IInv, TypeOK, SoundPair, CallType
<1> QED
  BY <1>1, Soundness, PTL

(* The breaker's three fields always fit together, and so do health's two. *)
THEOREM Consistency == Spec => [](BreakerConsistent /\ HealthConsistent)
<1>1. IInv => BreakerConsistent /\ HealthConsistent
  BY DEF IInv, BreakerConsistent, HealthConsistent, SoundPair
<1> QED
  BY <1>1, Soundness, PTL

(* The breaker never counts a failure health has not seen.                 *)
THEOREM Agreement == Spec => []BreakerBehindHealth
<1>1. IInv => BreakerBehindHealth
  BY DEF IInv, BreakerBehindHealth, SoundPair
<1> QED
  BY <1>1, Soundness, PTL

(* Whenever failure_threshold >= down_after, a provider whose breaker is   *)
(* not CLOSED is DOWN: the breaker has counted failure_threshold failures, *)
(* health at least as many.                                                *)
THEOREM OpenIsDown == Spec => []OpenImpliesDown
<1>1. IInv => OpenImpliesDown
  <2> SUFFICES ASSUME IInv, DownAfter <= FailureThreshold,
                      NEW p \in Providers, breaker[p].state # "CLOSED"
               PROVE  health[p].status = "DOWN"
    BY DEF OpenImpliesDown, Available
  <2>1. SoundPair(breaker[p], health[p])
    BY DEF IInv
  <2>2. /\ breaker[p].failures \in Nat /\ health[p].failures \in Nat
        /\ ~(breaker[p].failures < FailureThreshold)
        /\ breaker[p].failures <= health[p].failures
    BY <2>1 DEF SoundPair, SoundBreaker, BreakerType, HealthType
  <2>3. health[p].failures >= DownAfter
    BY <2>2, ThresholdsAssumption
  <2> QED
    BY <2>1, <2>3 DEF SoundPair, SoundHealth
<1> QED
  BY <1>1, Soundness, PTL
===========================================================================
