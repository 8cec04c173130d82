----------------------- MODULE ProviderManagerProofs -----------------------
(***************************************************************************)
(* ProviderManager: its types, that it implements ProviderAvailability,    *)
(* what follows for fan-outs and fallbacks, and that statistics add up.    *)
(* ProviderPacing: how many dispatches a period sees, and how long one     *)
(* waits, for every quota, number of attempts and factor of the backoff.   *)
(***************************************************************************)
EXTENDS ProviderManager, ProviderPacing, OrderedProofs

(* The facts about constants that the proofs use.                          *)
LEMMA Constants ==
    /\ Keys # {} /\ EnableFallback \in BOOLEAN
    /\ Quota \in [Providers -> (Nat \ {0}) \cup {Unlimited}]
    /\ MaxAttempts \in [Providers -> Nat \ {0}]
BY ManagerAssumption

---------------------------------------------------------------------------
(* Type correctness, one shared effect at a time.                          *)

CallType == [Requests -> [Providers -> [at : Stages, tries : Nat]]]
StatsType == [Providers -> [Counters -> Nat]]
CacheType == [Providers -> [Keys -> {"absent", "live", "expired"}]]

(* A dispatch goes to a stage; its calls stay well-typed.                  *)
LEMMA GoesType ==
    ASSUME call \in CallType, NEW r \in Requests, NEW p \in Providers,
           NEW stage \in Stages, NEW tries \in Nat, Goes(r, p, stage, tries)
    PROVE  call' \in CallType
BY DEF CallType, Goes

(* Counting keeps natural counters.                                        *)
LEMMA CountType ==
    ASSUME stats \in StatsType, NEW p \in Providers, NEW S, Count(p, S)
    PROVE  stats' \in StatsType
<1> DEFINE row == [c \in Counters |-> IF c \in S THEN stats[p][c] + 1 ELSE stats[p][c]]
<1>1. row \in [Counters -> Nat]
  BY DEF StatsType
<1>2. stats' = [stats EXCEPT ![p] = row]
  BY DEF Count, StatsType
<1> HIDE DEF row
<1> QED
  BY <1>1, <1>2 DEF StatsType

(* The breaker's methods keep its type.                                    *)
LEMMA BreakerTypes ==
    ASSUME NEW b \in BreakerType
    PROVE  /\ Observed(b) \in BreakerType
           /\ BreakerAfterSuccess(b) \in BreakerType
           /\ BreakerAfterFailure(b) \in BreakerType
           /\ CooledDown(b) \in BreakerType
<1>1. Observed(b) \in BreakerType
  BY DEF BreakerType, Observed
<1>2. BreakerAfterSuccess(b) \in BreakerType
  BY DEF BreakerType, BreakerAfterSuccess
<1>3. BreakerAfterFailure(b) \in BreakerType
  <2>1. [b EXCEPT !.state = "OPEN", !.opened = "recent"] \in BreakerType
    BY DEF BreakerType
  <2>2. b.failures + 1 \in Nat
    BY DEF BreakerType
  <2>3. [state |-> "OPEN", failures |-> b.failures + 1, opened |-> "recent"] \in BreakerType
    BY <2>2 DEF BreakerType
  <2>4. [b EXCEPT !.failures = b.failures + 1] \in BreakerType
    BY <2>2 DEF BreakerType
  <2> QED
    BY <2>1, <2>3, <2>4 DEF BreakerAfterFailure
<1>4. CooledDown(b) \in BreakerType
  BY DEF BreakerType, CooledDown
<1> QED
  BY <1>1, <1>2, <1>3, <1>4

(* The health record's methods keep its type.                              *)
LEMMA HealthTypes ==
    ASSUME NEW h \in HealthType
    PROVE  HealthAfterSuccess(h) \in HealthType /\ HealthAfterFailure(h) \in HealthType
<1>1. HealthAfterSuccess(h) \in HealthType
  BY DEF HealthType, HealthAfterSuccess
<1>2. h.failures + 1 \in Nat /\ h.status \in {"UNKNOWN", "HEALTHY", "DEGRADED", "DOWN"}
  BY DEF HealthType
<1>3. HealthAfterFailure(h) \in HealthType
  BY <1>2 DEF HealthType, HealthAfterFailure
<1> QED
  BY <1>1, <1>3

(* Asking the rate limiter keeps the window's type.                        *)
LEMMA WindowAllowType ==
    ASSUME NEW w \in WindowType, NEW q
    PROVE  WindowAfterAllow(w, q) \in WindowType
<1>1. CurrentWindow(w) \in WindowType
  BY DEF WindowType, CurrentWindow, NewWindow
<1> DEFINE v == CurrentWindow(w)
<1>2. [v EXCEPT !.count = @ + 1] \in WindowType
  BY <1>1 DEF WindowType
<1> QED
  BY <1>1, <1>2 DEF WindowAfterAllow

(* Initially.                                                              *)
LEMMA TypeInit == Init => TypeOK
<1> SUFFICES ASSUME Init PROVE TypeOK
  OBVIOUS
<1>1. (CHOOSE k \in Keys : TRUE) \in Keys
  BY Constants
<1>2. request \in [Requests -> [kind : {"new", "directed", "default", "named"},
                               key : Keys, answered : BOOLEAN]]
  BY <1>1 DEF Init
<1>3. call \in [Requests -> [Providers -> [at : Stages, tries : Nat]]]
  BY DEF Init, Stages
<1>4. /\ breaker \in [Providers -> BreakerType]
      /\ health \in [Providers -> HealthType]
      /\ window \in [Providers -> WindowType]
  BY DEF Init, NewBreaker, NewHealth, NewWindow, BreakerType, HealthType, WindowType
<1>5. /\ registry \in [Providers -> {"absent", "enabled", "disabled"}]
      /\ cache \in [Providers -> [Keys -> {"absent", "live", "expired"}]]
      /\ lastGood \in [Providers -> [Keys -> BOOLEAN]]
      /\ stats \in [Providers -> [Counters -> Nat]]
  BY DEF Init
<1> QED
  BY <1>2, <1>3, <1>4, <1>5 DEF TypeOK

(* The stages a dispatch can go to.                                        *)
LEMMA StageNames ==
    /\ {"unknown", "hit", "limited", "attempt", "backoff", "ok", "idle", "scheduled",
        "unstarted", "cancelled", "fallback", "open", "failed"} \subseteq Stages
    /\ \A p, k : \A raised \in Stages : OrFallback(p, k, raised) \in Stages
BY DEF Stages, Ended, Contributed, Raised, InFlight, OrFallback

(* _dispatch up to its first wait.                                         *)
LEMMA DispatchType ==
    ASSUME TypeOK, NEW r \in Requests, NEW p \in Providers, NEW k \in Keys,
           Dispatch(r, p, k)
    PROVE  /\ breaker' \in [Providers -> BreakerType]
           /\ window' \in [Providers -> WindowType]
           /\ cache' \in CacheType
           /\ stats' \in StatsType
           /\ call' \in CallType
<1>0. call \in CallType /\ stats \in StatsType /\ cache \in CacheType
      /\ breaker \in [Providers -> BreakerType] /\ window \in [Providers -> WindowType]
  BY DEF TypeOK, CallType, StatsType, CacheType
<1>1. CASE UnknownProvider(r, p)
  BY <1>0, <1>1, GoesType, StageNames DEF UnknownProvider
<1>2. CASE CacheHit(r, p, k)
  <2>1. stats' \in StatsType
    BY <1>0, <1>2, CountType DEF CacheHit
  <2> QED
    BY <2>1, <1>0, <1>2, GoesType, StageNames DEF CacheHit
<1>3. ASSUME PastCache(p, k)
      PROVE  breaker' \in [Providers -> BreakerType] /\ cache' \in CacheType
  <2>1. breaker' = [breaker EXCEPT ![p] = Observed(breaker[p])]
    BY <1>3, <1>0 DEF PastCache
  <2>2. Purged(p, k) \in CacheType
    BY <1>0 DEF Purged, CacheType
  <2> QED
    BY <2>1, <2>2, <1>0, <1>3, BreakerTypes DEF PastCache
<1>4. CASE BreakerRejects(r, p, k)
  <2>1. stats' \in StatsType
    BY <1>0, <1>4, CountType DEF BreakerRejects
  <2>2. call' \in CallType
    BY <1>0, <1>4, GoesType, StageNames DEF BreakerRejects
  <2> QED
    BY <2>1, <2>2, <1>0, <1>3, <1>4 DEF BreakerRejects
<1>5. ASSUME window' = [window EXCEPT ![p] = WindowAfterAllow(@, Quota[p])]
      PROVE  window' \in [Providers -> WindowType]
  BY <1>0, <1>5, WindowAllowType
<1>6. CASE QuotaRejects(r, p, k)
  <2>1. stats' \in StatsType
    BY <1>0, <1>6, CountType DEF QuotaRejects
  <2>2. call' \in CallType
    BY <1>0, <1>6, GoesType, StageNames DEF QuotaRejects
  <2> QED
    BY <2>1, <2>2, <1>3, <1>5, <1>6 DEF QuotaRejects
<1>7. CASE CallsAdapter(r, p, k)
  <2>1. stats' \in StatsType
    BY <1>0, <1>7, CountType DEF CallsAdapter
  <2>2. call' \in CallType
    BY <1>0, <1>7, GoesType, StageNames DEF CallsAdapter
  <2> QED
    BY <2>1, <2>2, <1>3, <1>5, <1>7 DEF CallsAdapter
<1> QED
  BY <1>1, <1>2, <1>4, <1>6, <1>7 DEF Dispatch

(* What a directed request or a fan-out writes into request.               *)
LEMMA RequestType ==
    ASSUME TypeOK, NEW r \in Requests, NEW k \in Keys,
           NEW kind \in {"directed", "default", "named"},
           request' = [request EXCEPT ![r] = [kind |-> kind, key |-> k, answered |-> FALSE]]
    PROVE  request' \in [Requests -> [kind : {"new", "directed", "default", "named"},
                                      key : Keys, answered : BOOLEAN]]
BY DEF TypeOK

(* A dispatch record that changes stage.                                   *)
LEMMA Restaged ==
    ASSUME NEW c \in [at : Stages, tries : Nat], NEW stage \in Stages
    PROVE  [c EXCEPT !.at = stage] \in [at : Stages, tries : Nat]
OBVIOUS

(* The caller's operations.                                                *)
LEMMA AskType ==
    ASSUME TypeOK, NEW r \in Requests, Ask(r)
    PROVE  TypeOK'
<1>1. PICK k \in Keys : \/ \E p \in Providers : Directed(r, p, k)
                       \/ FanOutDefault(r, k)
                       \/ \E S \in SUBSET Providers : FanOutNamed(r, S, k)
  BY DEF Ask
<1>2. ASSUME NEW p \in Providers, Directed(r, p, k)
      PROVE  TypeOK'
  <2>1. request' \in [Requests -> [kind : {"new", "directed", "default", "named"},
                                   key : Keys, answered : BOOLEAN]]
    BY <1>2, RequestType DEF Directed
  <2>2. /\ breaker' \in [Providers -> BreakerType]
        /\ window' \in [Providers -> WindowType]
        /\ cache' \in CacheType /\ stats' \in StatsType /\ call' \in CallType
    BY <1>2, DispatchType DEF Directed
  <2>3. UNCHANGED <<registry, health, lastGood>>
    BY <1>2 DEF Directed, Dispatch
  <2> QED
    BY <2>1, <2>2, <2>3 DEF TypeOK, CacheType, StatsType, CallType
<1>3. ASSUME NEW kind \in {"default", "named"}, NEW S, FanOut(r, kind, S, k)
      PROVE  TypeOK'
  <2>1. request' \in [Requests -> [kind : {"new", "directed", "default", "named"},
                                   key : Keys, answered : BOOLEAN]]
    BY <1>3, RequestType DEF FanOut
  <2>2. call' \in CallType
    <3> DEFINE row == [p \in Providers |-> IF p \in S THEN [call[r][p] EXCEPT !.at = "scheduled"]
                                          ELSE call[r][p]]
    <3>1. row \in [Providers -> [at : Stages, tries : Nat]]
      <4>1. \A p \in Providers : [call[r][p] EXCEPT !.at = "scheduled"]
                                  \in [at : Stages, tries : Nat]
        BY Restaged, StageNames DEF TypeOK
      <4> QED
        BY <4>1 DEF TypeOK
    <3>2. call' = [call EXCEPT ![r] = row]
      BY <1>3 DEF FanOut, TypeOK
    <3> HIDE DEF row
    <3> QED
      BY <3>1, <3>2 DEF TypeOK, CallType
  <2>3. UNCHANGED <<registry, breaker, health, window, cache, lastGood, stats>>
    BY <1>3 DEF FanOut
  <2> QED
    BY <2>1, <2>2, <2>3 DEF TypeOK, CallType
<1> QED
  BY <1>1, <1>2, <1>3 DEF FanOutDefault, FanOutNamed

(* From an adapter's answer to the caller's.                               *)
LEMMA ProceedType ==
    ASSUME TypeOK, NEW r \in Requests, Proceed(r)
    PROVE  TypeOK'
<1>0. call \in CallType /\ stats \in StatsType /\ cache \in CacheType
  BY DEF TypeOK, CallType, StatsType, CacheType
<1>1. ASSUME NEW p \in Providers, TaskStarts(r, p)
      PROVE  TypeOK'
  <2>1. request[r].key \in Keys
    BY DEF TypeOK
  <2>2. /\ breaker' \in [Providers -> BreakerType]
        /\ window' \in [Providers -> WindowType]
        /\ cache' \in CacheType /\ stats' \in StatsType /\ call' \in CallType
    BY <1>1, <2>1, DispatchType DEF TaskStarts
  <2>3. UNCHANGED <<registry, health, lastGood, request>>
    BY <1>1 DEF TaskStarts, Dispatch
  <2> QED
    BY <2>2, <2>3 DEF TypeOK, CacheType, StatsType, CallType
<1>2. ASSUME NEW p \in Providers, NEW v \in {"value", "none"}, AttemptSucceeds(r, p, v)
      PROVE  TypeOK'
  <2> DEFINE k == request[r].key
  <2>1. k \in Keys /\ call[r][p].tries \in Nat
    BY DEF TypeOK
  <2>2. call' \in CallType
    BY <1>2, <1>0, <2>1, GoesType, StageNames DEF AttemptSucceeds
  <2>3. stats' \in StatsType
    BY <1>2, <1>0, CountType DEF AttemptSucceeds
  <2>4. health' = [health EXCEPT ![p] = HealthAfterSuccess(health[p])]
        /\ breaker' = [breaker EXCEPT ![p] = BreakerAfterSuccess(breaker[p])]
    BY <1>2 DEF AttemptSucceeds
  <2>5. health' \in [Providers -> HealthType] /\ breaker' \in [Providers -> BreakerType]
    BY <2>4, BreakerTypes, HealthTypes DEF TypeOK
  <2>6. lastGood' \in [Providers -> [Keys -> BOOLEAN]]
    <3>1. lastGood' = [lastGood EXCEPT ![p][k] = lastGood[p][k] \/ EnableFallback]
      BY <1>2 DEF AttemptSucceeds
    <3>2. (lastGood[p][k] \/ EnableFallback) \in BOOLEAN
      BY Constants
    <3> QED
      BY <3>1, <3>2, <2>1 DEF TypeOK
  <2>7. cache' \in CacheType
    BY <1>2, <1>0, <2>1 DEF AttemptSucceeds, CacheType
  <2>8. UNCHANGED <<registry, window, request>>
    BY <1>2 DEF AttemptSucceeds
  <2> QED
    BY <2>2, <2>3, <2>5, <2>6, <2>7, <2>8 DEF TypeOK, CacheType, StatsType, CallType
<1>3. ASSUME NEW p \in Providers, AttemptFails(r, p)
      PROVE  TypeOK'
  <2>1. call' \in CallType
    <3>1. call[r][p].tries \in Nat
      BY DEF TypeOK
    <3> QED
      BY <1>3, <1>0, <3>1, GoesType, StageNames DEF AttemptFails
  <2>2. stats' \in StatsType
    BY <1>3, <1>0, CountType DEF AttemptFails
  <2> QED
    BY <1>3, <2>1, <2>2 DEF AttemptFails, TypeOK, StatsType, CallType
<1>4. ASSUME NEW p \in Providers, LastAttemptFails(r, p)
      PROVE  TypeOK'
  <2>1. call[r][p].tries \in Nat
    BY DEF TypeOK
  <2>2. call' \in CallType
    BY <1>4, <1>0, <2>1, GoesType, StageNames DEF LastAttemptFails
  <2>3. stats' \in StatsType
    BY <1>4, <1>0, CountType DEF LastAttemptFails
  <2>4. health' = [health EXCEPT ![p] = HealthAfterFailure(health[p])]
        /\ breaker' = [breaker EXCEPT ![p] = BreakerAfterFailure(breaker[p])]
    BY <1>4 DEF LastAttemptFails
  <2>5. health' \in [Providers -> HealthType] /\ breaker' \in [Providers -> BreakerType]
    BY <2>4, BreakerTypes, HealthTypes DEF TypeOK
  <2> QED
    BY <1>4, <2>2, <2>3, <2>5 DEF LastAttemptFails, TypeOK, StatsType, CallType
<1>5. ASSUME NEW p \in Providers, Retry(r, p)
      PROVE  TypeOK'
  <2>1. call[r][p].tries + 1 \in Nat
    BY DEF TypeOK
  <2>2. call' \in CallType
    BY <1>5, <1>0, <2>1, GoesType, StageNames DEF Retry
  <2> QED
    BY <1>5, <2>2 DEF Retry, TypeOK, CallType
<1>6. CASE Gather(r)
  BY <1>6 DEF Gather, TypeOK
<1> QED
  BY <1>1, <1>2, <1>3, <1>4, <1>5, <1>6 DEF Proceed, AttemptEnds

(* Cancellation ends the request's open dispatches.                        *)
LEMMA CancelType ==
    ASSUME TypeOK, NEW r \in Requests, Cancel(r)
    PROVE  TypeOK'
<1> DEFINE Left(p) == CASE call[r][p].at = "scheduled" -> "unstarted"
                       [] call[r][p].at \in InFlight  -> "cancelled"
                       [] OTHER                       -> call[r][p].at
           row == [p \in Providers |-> [call[r][p] EXCEPT !.at = Left(p)]]
<1>1. call' = [call EXCEPT ![r] = row]
  BY DEF Cancel, TypeOK
<1>2. row \in [Providers -> [at : Stages, tries : Nat]]
  <2>1. \A p \in Providers : Left(p) \in Stages
    BY StageNames DEF TypeOK
  <2> HIDE DEF Left
  <2>2. \A p \in Providers : [call[r][p] EXCEPT !.at = Left(p)]
                              \in [at : Stages, tries : Nat]
    BY <2>1, Restaged DEF TypeOK
  <2> QED
    BY <2>2
<1> HIDE DEF row
<1>3. call' \in [Requests -> [Providers -> [at : Stages, tries : Nat]]]
  BY <1>1, <1>2 DEF TypeOK
<1>4. /\ UNCHANGED <<registry, breaker, health, window, cache, lastGood, stats>>
      /\ request' = [request EXCEPT ![r].answered = TRUE]
  BY DEF Cancel
<1>5. request' \in [Requests -> [kind : {"new", "directed", "default", "named"},
                                 key : Keys, answered : BOOLEAN]]
  BY <1>4 DEF TypeOK
<1> QED
  BY <1>3, <1>4, <1>5 DEF TypeOK

(* Administration and the clock.                                           *)
LEMMA EnvironmentType ==
    ASSUME TypeOK, NEW p \in Providers, Admin(p) \/ Clock(p)
    PROVE  TypeOK'
<1>1. ASSUME NEW from, NEW to \in {"absent", "enabled", "disabled"}, Administer(p, from, to)
      PROVE  TypeOK'
  BY <1>1 DEF Administer, TypeOK
<1>2. ASSUME NEW S, Invalidate(p, S)
      PROVE  TypeOK'
  <2> DEFINE row == [k \in Keys |-> IF k \in S THEN "absent" ELSE cache[p][k]]
  <2>1. row \in [Keys -> {"absent", "live", "expired"}]
    <3>1. cache[p] \in [Keys -> {"absent", "live", "expired"}]
      BY DEF TypeOK
    <3> QED
      BY <3>1
  <2>2. cache' = [cache EXCEPT ![p] = row]
    BY <1>2 DEF Invalidate, TypeOK
  <2> HIDE DEF row
  <2> QED
    BY <1>2, <2>1, <2>2 DEF Invalidate, TypeOK
<1>3. CASE CooldownElapses(p)
  <2>1. breaker' = [breaker EXCEPT ![p] = CooledDown(breaker[p])]
    BY <1>3 DEF CooldownElapses
  <2> QED
    BY <1>3, <2>1, BreakerTypes DEF CooldownElapses, TypeOK
<1>4. CASE WindowElapses(p)
  <2>1. window' = [window EXCEPT ![p] = WindowOver(window[p])]
    BY <1>4 DEF WindowElapses
  <2>2. window[p] \in WindowType
    BY DEF TypeOK
  <2>3. WindowOver(window[p]) \in WindowType
    BY <2>2 DEF WindowType, WindowOver
  <2> QED
    BY <1>4, <2>1, <2>3 DEF WindowElapses, TypeOK
<1>5. ASSUME NEW k \in Keys, EntryExpires(p, k)
      PROVE  TypeOK'
  BY <1>5 DEF EntryExpires, TypeOK
<1> QED
  BY <1>1, <1>2, <1>3, <1>4, <1>5
  DEF Admin, Clock, Register, Unregister, Enable, Disable

(* Every step.                                                             *)
LEMMA TypeNext == TypeOK /\ [Next]_vars => TypeOK'
<1> SUFFICES ASSUME TypeOK, [Next]_vars PROVE TypeOK'
  OBVIOUS
<1>1. CASE UNCHANGED vars
  BY <1>1 DEF vars, TypeOK
<1> QED
  BY <1>1, AskType, ProceedType, CancelType, EnvironmentType DEF Next

(* Type correctness, for every value of the constants.                     *)
THEOREM TypeCorrect == Spec => []TypeOK
BY TypeInit, TypeNext, PTL DEF Spec

---------------------------------------------------------------------------
(* Refinement.  A dispatch of ProviderManager is, for ProviderAvailability,*)
(* only "idle", "inflight" or "ended".                                     *)

Mapped == [r \in Requests |-> [p \in Providers |-> Image(call[r][p].at)]]

(* One dispatch moves and so does its image.                               *)
LEMMA MappedGoes ==
    ASSUME call \in CallType, NEW r \in Requests, NEW p \in Providers,
           NEW stage, NEW tries, Goes(r, p, stage, tries)
    PROVE  /\ Mapped[r][p] = Image(call[r][p].at)
           /\ Mapped' = [Mapped EXCEPT ![r][p] = Image(stage)]
BY DEF CallType, Goes, Mapped

(* What each stage is mapped to.                                           *)
LEMMA StageImages ==
    /\ Image("idle") = "idle" /\ Image("scheduled") = "idle"
    /\ Image("attempt") = "inflight" /\ Image("backoff") = "inflight"
    /\ \A stage \in Ended : Image(stage) = "ended"
BY DEF Image, InFlight, Ended, Contributed, Raised

(* The endings by name.                                                    *)
LEMMA Endings ==
    /\ {"unknown", "hit", "limited", "ok", "unstarted", "cancelled", "fallback",
        "open", "failed"} \subseteq Ended
    /\ \A p, k : OrFallback(p, k, "open") \in Ended /\ OrFallback(p, k, "failed") \in Ended
BY DEF Ended, Contributed, Raised, OrFallback

(* The initial states agree.                                               *)
LEMMA InitRefines == Init => Availability!Init
<1> SUFFICES ASSUME Init PROVE Availability!Init
  OBVIOUS
<1>1. Mapped = [r \in Requests |-> [p \in Providers |-> "idle"]]
  <2>1. \A r \in Requests, p \in Providers : call[r][p].at = "idle"
    BY DEF Init
  <2>2. \A r \in Requests, p \in Providers : Image(call[r][p].at) = "idle"
    BY <2>1, StageImages
  <2> QED
    BY <2>2 DEF Mapped
<1> QED
  BY <1>1 DEF Init, Availability!Init, Mapped, NewBreaker, NewHealth,
              Availability!NewBreaker, Availability!NewHealth

(* A step of one dispatch: from is its image before, to its image after.   *)
LEMMA MappedMove ==
    ASSUME call \in CallType, NEW r \in Requests, NEW p \in Providers,
           NEW stage, NEW tries, Goes(r, p, stage, tries),
           NEW from, NEW to, Image(call[r][p].at) = from,
           Image(stage) = to
    PROVE  Availability!Move(r, p, from, to)
BY MappedGoes DEF Availability!Move, Mapped

(* A dispatch that changes neither breaker nor health and ends leaves.     *)
LEMMA MappedLeave ==
    ASSUME call \in CallType, NEW r \in Requests, NEW p \in Providers,
           NEW stage \in Ended, NEW tries, Goes(r, p, stage, tries),
           Image(call[r][p].at) # "ended", UNCHANGED <<breaker, health>>
    PROVE  Availability!Leave(r, {p})
<1>1. Image(stage) = "ended"
  BY StageImages
<1>2. Mapped' = [Mapped EXCEPT ![r][p] = "ended"]
  BY <1>1, MappedGoes
<1>3. Mapped[r][p] # "ended"
  BY DEF Mapped
<1>4. Mapped' = [Mapped EXCEPT ![r] =
                   [q \in Providers |-> IF q \in {p} THEN "ended" ELSE Mapped[r][q]]]
  BY <1>2 DEF Mapped
<1> QED
  BY <1>3, <1>4 DEF Availability!Leave, Mapped

(* The entry of _dispatch is an Admit, a Refuse or a Leave.                *)
LEMMA DispatchRefines ==
    ASSUME TypeOK, NEW r \in Requests, NEW p \in Providers, NEW k \in Keys,
           call[r][p].at \in {"idle", "scheduled"}, Dispatch(r, p, k)
    PROVE  Availability!Next
<1>0. call \in CallType /\ Image(call[r][p].at) = "idle"
  BY StageImages DEF TypeOK, CallType
<1>1. UNCHANGED health
  BY DEF Dispatch
<1>2. CASE UnknownProvider(r, p)
  <2>1. Availability!Leave(r, {p})
    BY <1>0, <1>1, <1>2, MappedLeave, Endings DEF UnknownProvider
  <2> QED
    BY <2>1 DEF Availability!Next
<1>3. CASE CacheHit(r, p, k)
  <2>1. Availability!Leave(r, {p})
    BY <1>0, <1>1, <1>3, MappedLeave, Endings DEF CacheHit
  <2> QED
    BY <2>1 DEF Availability!Next
<1>4. ASSUME PastCache(p, k)
      PROVE  breaker' = [breaker EXCEPT ![p] = Availability!Observed(@)]
  BY <1>4 DEF PastCache, Observed, Availability!Observed
<1>5. AllowsCall(breaker[p]) <=> Availability!AllowsCall(breaker[p])
  BY DEF AllowsCall, Availability!AllowsCall, Observed, Availability!Observed
<1>6. CASE BreakerRejects(r, p, k)
  <2>1. Image(OrFallback(p, k, "open")) = "ended"
    BY StageImages, Endings
  <2>2. Availability!Move(r, p, "idle", "ended")
    BY <1>0, <1>6, <2>1, MappedMove DEF BreakerRejects
  <2>3. Availability!Refuse(r, p)
    BY <2>2, <1>1, <1>4, <1>5, <1>6 DEF BreakerRejects, Availability!Refuse
  <2> QED
    BY <2>3 DEF Availability!Next, Availability!Dispatch
<1>7. CASE QuotaRejects(r, p, k)
  <2>1. Image("limited") = "ended"
    BY StageImages, Endings
  <2>2. Availability!Move(r, p, "idle", "ended")
    BY <1>0, <1>7, <2>1, MappedMove DEF QuotaRejects
  <2>3. Availability!Admit(r, p)
    BY <2>2, <1>1, <1>4, <1>5, <1>7 DEF QuotaRejects, Availability!Admit
  <2> QED
    BY <2>3 DEF Availability!Next, Availability!Dispatch
<1>8. CASE CallsAdapter(r, p, k)
  <2>1. Image("attempt") = "inflight"
    BY StageImages
  <2>2. Availability!Move(r, p, "idle", "inflight")
    BY <1>0, <1>8, <2>1, MappedMove DEF CallsAdapter
  <2>3. Availability!Admit(r, p)
    BY <2>2, <1>1, <1>4, <1>5, <1>8 DEF CallsAdapter, Availability!Admit
  <2> QED
    BY <2>3 DEF Availability!Next, Availability!Dispatch
<1> QED
  BY <1>2, <1>3, <1>6, <1>7, <1>8 DEF Dispatch

(* Nothing ProviderAvailability sees changes.                              *)
LEMMA MappedStutters ==
    ASSUME UNCHANGED <<breaker, health>>, Mapped' = Mapped
    PROVE  UNCHANGED Availability!vars
BY DEF Availability!vars, Mapped

(* Asking: a directed request is dispatched at once, a fan-out is not seen.*)
LEMMA AskRefines ==
    ASSUME TypeOK, NEW r \in Requests, Ask(r),
           \A p \in Providers : request[r].kind = "new" => call[r][p].at = "idle"
    PROVE  [Availability!Next]_(Availability!vars)
<1>1. PICK k \in Keys : \/ \E p \in Providers : Directed(r, p, k)
                       \/ FanOutDefault(r, k)
                       \/ \E S \in SUBSET Providers : FanOutNamed(r, S, k)
  BY DEF Ask
<1>2. ASSUME NEW p \in Providers, Directed(r, p, k)
      PROVE  Availability!Next
  BY <1>2, DispatchRefines DEF Directed
<1>3. ASSUME NEW kind, NEW S, FanOut(r, kind, S, k)
      PROVE  UNCHANGED Availability!vars
  <2>1. \A q \in Requests, p \in Providers :
           Image(call'[q][p].at) = Image(call[q][p].at)
    <3>1. \A p \in Providers : call[r][p].at = "idle"
      BY <1>3 DEF FanOut
    <3>2. \A q \in Requests, p \in Providers :
             call'[q][p] = IF q = r /\ p \in S
                           THEN [call[q][p] EXCEPT !.at = "scheduled"] ELSE call[q][p]
      BY <1>3 DEF FanOut, TypeOK
    <3>3. \A q \in Requests, p \in Providers :
             [call[q][p] EXCEPT !.at = "scheduled"].at = "scheduled"
      BY DEF TypeOK
    <3> SUFFICES ASSUME NEW q \in Requests, NEW p \in Providers
                 PROVE  Image(call'[q][p].at) = Image(call[q][p].at)
      OBVIOUS
    <3>4. CASE q = r /\ p \in S
      <4>1. call'[q][p] = [call[q][p] EXCEPT !.at = "scheduled"]
        BY <3>2, <3>4
      <4>2. call'[q][p].at = "scheduled"
        BY <4>1, <3>3
      <4>3. call[q][p].at = "idle"
        BY <3>1, <3>4
      <4> QED
        BY <4>2, <4>3, StageImages
    <3>5. CASE ~(q = r /\ p \in S)
      BY <3>2, <3>5
    <3> QED
      BY <3>4, <3>5
  <2>2. Mapped' = Mapped
    BY <2>1 DEF Mapped
  <2> QED
    BY <2>2, <1>3, MappedStutters DEF FanOut
<1> QED
  BY <1>1, <1>2, <1>3 DEF FanOutDefault, FanOutNamed

(* The methods mean the same in both specifications.                       *)
LEMMA SameMethods ==
    \A x : /\ BreakerAfterSuccess(x) = Availability!BreakerAfterSuccess(x)
          /\ BreakerAfterFailure(x) = Availability!BreakerAfterFailure(x)
          /\ CooledDown(x) = Availability!CooledDown(x)
          /\ HealthAfterSuccess(x) = Availability!HealthAfterSuccess(x)
          /\ HealthAfterFailure(x) = Availability!HealthAfterFailure(x)
BY DEF BreakerAfterSuccess, Availability!BreakerAfterSuccess,
       BreakerAfterFailure, Availability!BreakerAfterFailure,
       CooledDown, Availability!CooledDown,
       HealthAfterSuccess, Availability!HealthAfterSuccess,
       HealthAfterFailure, Availability!HealthAfterFailure

(* Running tasks: retries are not seen, outcomes are.                      *)
LEMMA ProceedRefines ==
    ASSUME TypeOK, NEW r \in Requests, Proceed(r)
    PROVE  [Availability!Next]_(Availability!vars)
<1>0. call \in CallType
  BY DEF TypeOK, CallType
<1>1. ASSUME NEW p \in Providers, TaskStarts(r, p)
      PROVE  Availability!Next
  <2>1. request[r].key \in Keys
    BY DEF TypeOK
  <2> QED
    BY <1>1, <2>1, DispatchRefines DEF TaskStarts
<1>2. ASSUME NEW p \in Providers, NEW v, AttemptSucceeds(r, p, v)
      PROVE  Availability!Next
  <2>1. Image(call[r][p].at) = "inflight" /\ Image("ok") = "ended"
    BY <1>2, StageImages, Endings DEF AttemptSucceeds
  <2>2. Availability!Move(r, p, "inflight", "ended")
    BY <1>0, <1>2, <2>1, MappedMove DEF AttemptSucceeds
  <2>3. Availability!Succeed(r, p)
    BY <1>2, <2>2, SameMethods DEF AttemptSucceeds, Availability!Succeed
  <2> QED
    BY <2>3 DEF Availability!Next, Availability!Dispatch
<1>3. ASSUME NEW p \in Providers, NEW stage, NEW tries, Goes(r, p, stage, tries),
             Image(call[r][p].at) = Image(stage), UNCHANGED <<breaker, health>>
      PROVE  UNCHANGED Availability!vars
  <2>1. Mapped' = [Mapped EXCEPT ![r][p] = Mapped[r][p]]
    BY <1>0, <1>3, MappedGoes
  <2>2. Mapped' = Mapped
    BY <2>1 DEF Mapped
  <2> QED
    BY <1>3, <2>2, MappedStutters
<1>4. ASSUME NEW p \in Providers, AttemptFails(r, p)
      PROVE  UNCHANGED Availability!vars
  BY <1>3, <1>4, StageImages DEF AttemptFails
<1>5. ASSUME NEW p \in Providers, LastAttemptFails(r, p)
      PROVE  Availability!Next
  <2> DEFINE stage == OrFallback(p, request[r].key, "failed")
  <2>1. Image(call[r][p].at) = "inflight" /\ Image(stage) = "ended"
    BY <1>5, StageImages, Endings DEF LastAttemptFails
  <2>2. Availability!Move(r, p, "inflight", "ended")
    BY <1>0, <1>5, <2>1, MappedMove DEF LastAttemptFails
  <2>3. Availability!Fail(r, p)
    BY <1>5, <2>2, SameMethods DEF LastAttemptFails, Availability!Fail
  <2> QED
    BY <2>3 DEF Availability!Next, Availability!Dispatch
<1>6. ASSUME NEW p \in Providers, Retry(r, p)
      PROVE  UNCHANGED Availability!vars
  BY <1>3, <1>6, StageImages DEF Retry
<1>7. CASE Gather(r)
  <2>1. Mapped' = Mapped
    BY <1>7 DEF Gather, Mapped
  <2> QED
    BY <1>7, <2>1, MappedStutters DEF Gather
<1> QED
  BY <1>1, <1>2, <1>4, <1>5, <1>6, <1>7 DEF Proceed, AttemptEnds

(* Cancelling a request ends its open dispatches together.                 *)
LEMMA CancelRefines ==
    ASSUME TypeOK, NEW r \in Requests, Cancel(r)
    PROVE  Availability!Next
<1> DEFINE Left(p) == CASE call[r][p].at = "scheduled" -> "unstarted"
                       [] call[r][p].at \in InFlight  -> "cancelled"
                       [] OTHER                       -> call[r][p].at
           S == {p \in Providers : Left(p) # call[r][p].at}
<1>1. S # {}
  BY DEF Cancel
<1>2. \A q \in Requests, p \in Providers :
         call'[q][p].at = IF q = r THEN Left(p) ELSE call[q][p].at
  <2> DEFINE row == [p \in Providers |-> [call[r][p] EXCEPT !.at = Left(p)]]
  <2>1. call' = [call EXCEPT ![r] = row]
    BY DEF Cancel, TypeOK
  <2>2. \A p \in Providers : row[p].at = Left(p)
    <3> HIDE DEF Left
    <3> QED
      BY DEF TypeOK
  <2> HIDE DEF Left, row
  <2> QED
    BY <2>1, <2>2 DEF TypeOK
<1>3. \A p \in Providers : p \in S <=> call[r][p].at \in {"scheduled", "attempt", "backoff"}
  BY DEF InFlight
<1>4. \A p \in S : Image(call[r][p].at) # "ended" /\ Image(Left(p)) = "ended"
  <2> SUFFICES ASSUME NEW p \in S
               PROVE  Image(call[r][p].at) # "ended" /\ Image(Left(p)) = "ended"
    OBVIOUS
  <2>1. call[r][p].at \in {"scheduled", "attempt", "backoff"}
    BY <1>3
  <2>2. Left(p) \in {"unstarted", "cancelled"}
    BY <2>1 DEF InFlight
  <2> HIDE DEF Left
  <2> QED
    BY <2>1, <2>2, StageImages, Endings
<1>5. \A q \in Requests, p \in Providers :
         Image(call'[q][p].at) = IF q = r /\ p \in S THEN "ended" ELSE Image(call[q][p].at)
  BY <1>2, <1>4
<1> HIDE DEF Left, S
<1>6. Mapped' = [Mapped EXCEPT ![r] =
                   [p \in Providers |-> IF p \in S THEN "ended" ELSE Mapped[r][p]]]
  BY <1>5 DEF Mapped
<1>7. \A p \in S : Mapped[r][p] # "ended"
  BY <1>4 DEF Mapped, S
<1>8. Availability!Leave(r, S)
  BY <1>1, <1>6, <1>7 DEF Availability!Leave, Cancel, Mapped
<1> QED
  BY <1>8 DEF Availability!Next, S

(* Administration is not seen, nor is the clock but for the cooldown.      *)
LEMMA EnvironmentRefines ==
    ASSUME NEW p \in Providers, Admin(p) \/ Clock(p)
    PROVE  [Availability!Next]_(Availability!vars)
<1>1. CASE CooldownElapses(p)
  <2>1. Mapped' = Mapped
    BY <1>1 DEF CooldownElapses, Mapped
  <2>2. Availability!CooldownElapses(p)
    BY <1>1, <2>1, SameMethods DEF CooldownElapses, Availability!CooldownElapses, Mapped
  <2> QED
    BY <2>2 DEF Availability!Next
<1>2. CASE ~CooldownElapses(p)
  <2>1. UNCHANGED <<breaker, health, call>>
    BY <1>2 DEF Admin, Clock, Register, Unregister, Enable, Disable, Administer,
                Invalidate, WindowElapses, EntryExpires
  <2>2. Mapped' = Mapped
    BY <2>1 DEF Mapped
  <2> QED
    BY <2>1, <2>2, MappedStutters
<1> QED
  BY <1>1, <1>2

---------------------------------------------------------------------------
(* The invariant the refinement needs: a request that has not been made    *)
(* has no dispatches yet.                                                  *)

NewIsIdle ==
    \A r \in Requests, p \in Providers :
        request[r].kind = "new" => call[r][p].at = "idle"

IInv == TypeOK /\ NewIsIdle

(* Nothing has been asked yet, nor dispatched.                             *)
LEMMA NewIsIdleInit == Init => NewIsIdle
BY DEF Init, NewIsIdle

(* A dispatch moves only where its request is, or just became, not new.    *)
LEMMA NewIsIdleNext == IInv /\ [Next]_vars => NewIsIdle'
<1> SUFFICES ASSUME IInv, [Next]_vars PROVE NewIsIdle'
  OBVIOUS
<1> USE DEF IInv
<1>0. ASSUME NEW r \in Requests, NEW p \in Providers, NEW stage, NEW tries,
             Goes(r, p, stage, tries), request' = request, call[r][p].at # "idle"
      PROVE  NewIsIdle'
  BY <1>0 DEF Goes, NewIsIdle, TypeOK
<1>1. ASSUME NEW r \in Requests, NEW kind \in {"directed", "default", "named"}, NEW k,
             request' = [request EXCEPT ![r] = [kind |-> kind, key |-> k,
                                                answered |-> FALSE]],
             \A q \in Requests \ {r} : call'[q] = call[q]
      PROVE  NewIsIdle'
  BY <1>1 DEF NewIsIdle, TypeOK
<1>2. ASSUME NEW r \in Requests, NEW p \in Providers, NEW k, Dispatch(r, p, k)
      PROVE  \E stage, tries : Goes(r, p, stage, tries)
  BY <1>2 DEF Dispatch, UnknownProvider, CacheHit, BreakerRejects, QuotaRejects, CallsAdapter
<1>3. ASSUME NEW r \in Requests, Ask(r)
      PROVE  NewIsIdle'
  <2>1. ASSUME NEW p \in Providers, NEW k, Directed(r, p, k)
        PROVE  NewIsIdle'
    <3>1. PICK stage, tries : Goes(r, p, stage, tries)
      BY <1>2, <2>1 DEF Directed
    <3>2. \A q \in Requests \ {r} : call'[q] = call[q]
      BY <3>1 DEF Goes, TypeOK
    <3> QED
      BY <1>1, <2>1, <3>2 DEF Directed
  <2>2. ASSUME NEW kind \in {"default", "named"}, NEW S, NEW k, FanOut(r, kind, S, k)
        PROVE  NewIsIdle'
    <3>1. \A q \in Requests \ {r} : call'[q] = call[q]
      BY <2>2 DEF FanOut, TypeOK
    <3> QED
      BY <1>1, <2>2, <3>1 DEF FanOut
  <2> QED
    BY <1>3, <2>1, <2>2 DEF Ask, FanOutDefault, FanOutNamed
<1>4. ASSUME NEW r \in Requests, Proceed(r)
      PROVE  NewIsIdle'
  <2>1. ASSUME NEW p \in Providers, TaskStarts(r, p)
        PROVE  NewIsIdle'
    BY <1>0, <1>2, <2>1 DEF TaskStarts
  <2>2. ASSUME NEW p \in Providers, AttemptEnds(r, p) \/ Retry(r, p)
        PROVE  NewIsIdle'
    BY <1>0, <2>2 DEF AttemptEnds, AttemptSucceeds, AttemptFails, LastAttemptFails, Retry
  <2>3. CASE Gather(r)
    BY <2>3 DEF Gather, NewIsIdle, TypeOK
  <2> QED
    BY <1>4, <2>1, <2>2, <2>3 DEF Proceed
<1>5. ASSUME NEW r \in Requests, Cancel(r)
      PROVE  NewIsIdle'
  <2>1. request[r].kind # "new"
    BY <1>5 DEF Cancel, NewIsIdle, InFlight
  <2>2. \A q \in Requests : request'[q].kind = request[q].kind
    BY <1>5 DEF Cancel, TypeOK
  <2>3. \A q \in Requests \ {r} : call'[q] = call[q]
    BY <1>5 DEF Cancel, TypeOK
  <2> QED
    BY <2>1, <2>2, <2>3 DEF NewIsIdle
<1>6. ASSUME NEW p \in Providers, Admin(p) \/ Clock(p)
      PROVE  NewIsIdle'
  BY <1>6 DEF NewIsIdle, Admin, Clock, Register, Unregister, Enable, Disable, Administer,
              Invalidate, CooldownElapses, WindowElapses, EntryExpires
<1>7. CASE UNCHANGED vars
  BY <1>7 DEF vars, NewIsIdle
<1> QED
  BY <1>3, <1>4, <1>5, <1>6, <1>7 DEF Next

(* The invariant holds throughout.                                         *)
LEMMA Invariance == Spec => []IInv
BY TypeInit, TypeNext, NewIsIdleInit, NewIsIdleNext, PTL DEF Spec, IInv

(* Every step is a step of ProviderAvailability or a stutter.              *)
LEMMA NextRefines == IInv /\ [Next]_vars => [Availability!Next]_(Availability!vars)
<1> SUFFICES ASSUME IInv, [Next]_vars
             PROVE  [Availability!Next]_(Availability!vars)
  OBVIOUS
<1>1. ASSUME NEW r \in Requests, Ask(r)
      PROVE  [Availability!Next]_(Availability!vars)
  BY <1>1, AskRefines DEF IInv, NewIsIdle
<1>2. ASSUME NEW r \in Requests, Proceed(r)
      PROVE  [Availability!Next]_(Availability!vars)
  BY <1>2, ProceedRefines DEF IInv
<1>3. ASSUME NEW r \in Requests, Cancel(r)
      PROVE  [Availability!Next]_(Availability!vars)
  BY <1>3, CancelRefines DEF IInv
<1>4. CASE UNCHANGED vars
  BY <1>4 DEF vars, Availability!vars
<1> QED
  BY <1>1, <1>2, <1>3, <1>4, EnvironmentRefines DEF Next

(* ProviderManager implements ProviderAvailability: whatever requests are  *)
(* made, cancelled, cached, retried, throttled or served from a fallback,  *)
(* breaker and health move as the abstract specification says.             *)
THEOREM Refinement == Spec => ImplementsAvailability
<1>1. Spec => []IInv /\ [][Next]_vars /\ Init
  BY Invariance, PTL DEF Spec
<1> QED
  BY <1>1, InitRefines, NextRefines, PTL DEF ImplementsAvailability, Availability!Spec

---------------------------------------------------------------------------
(* Default fan-outs, from the invariant of ProviderAvailability.           *)

AP == INSTANCE ProviderAvailabilityProofs
    WITH call <- [r \in Requests |-> [p \in Providers |-> Image(call[r][p].at)]]

(* The two instances of ProviderAvailability are one specification.        *)
LEMMA SameSpec == Availability!Spec => AP!Spec
<1>1. Availability!Init => AP!Init
  BY DEF Availability!Init, AP!Init, Availability!NewBreaker, AP!NewBreaker,
         Availability!NewHealth, AP!NewHealth
<1>2. Availability!vars = AP!vars
  BY DEF Availability!vars, AP!vars
<1>3. Availability!Next => AP!Next
  BY DEF Availability!Next, AP!Next, Availability!Dispatch, AP!Dispatch,
         Availability!Leave, AP!Leave, Availability!Admit, AP!Admit,
         Availability!Refuse, AP!Refuse, Availability!Succeed, AP!Succeed,
         Availability!Fail, AP!Fail, Availability!CooldownElapses, AP!CooldownElapses,
         Availability!Move, AP!Move, Availability!AllowsCall, AP!AllowsCall,
         Availability!Observed, AP!Observed, Availability!CooledDown, AP!CooledDown,
         Availability!BreakerAfterSuccess, AP!BreakerAfterSuccess,
         Availability!BreakerAfterFailure, AP!BreakerAfterFailure,
         Availability!HealthAfterSuccess, AP!HealthAfterSuccess,
         Availability!HealthAfterFailure, AP!HealthAfterFailure
<1>4. [Availability!Next]_(Availability!vars) => [AP!Next]_(AP!vars)
  <2>1. UNCHANGED Availability!vars => UNCHANGED AP!vars
    BY DEF Availability!vars, AP!vars
  <2> QED
    BY <1>3, <2>1
<1> QED
  BY <1>1, <1>4, PTL DEF Availability!Spec, AP!Spec

(* Under ProviderManager too, a breaker that is not CLOSED means DOWN.     *)
LEMMA OpenIsDownHere == Spec => []AP!OpenImpliesDown
BY Refinement, SameSpec, AP!OpenIsDown, ThresholdsAssumption, UnlimitedAssumption, PTL
DEF ImplementsAvailability

(* Only FanOutDefault turns a new request into a default fan-out.          *)
LEMMA OnlyDefault ==
    ASSUME IInv, [Next]_vars, NEW r \in Requests,
           request[r].kind = "new", request'[r].kind = "default"
    PROVE  \E k \in Keys : FanOutDefault(r, k)
<1> USE DEF IInv
<1>1. ASSUME NEW q \in Requests, NEW k \in Keys, NEW p \in Providers, Directed(q, p, k)
      PROVE  FALSE
  BY <1>1 DEF Directed, TypeOK
<1>2. ASSUME NEW q \in Requests, NEW k \in Keys, NEW S, FanOutNamed(q, S, k)
      PROVE  FALSE
  BY <1>2 DEF FanOutNamed, FanOut, TypeOK
<1>3. ASSUME NEW q \in Requests, NEW k \in Keys, FanOutDefault(q, k)
      PROVE  q = r
  BY <1>3 DEF FanOutDefault, FanOut, TypeOK
<1>4. ASSUME request' = request
      PROVE  FALSE
  BY <1>4
<1>5. ASSUME NEW q \in Requests, Gather(q) \/ Cancel(q)
      PROVE  FALSE
  <2>1. request' = [request EXCEPT ![q].answered = TRUE]
    BY <1>5 DEF Gather, Cancel
  <2>2. request'[r].kind = request[r].kind
    BY <2>1 DEF TypeOK
  <2> QED
    BY <2>2
<1>6. CASE UNCHANGED vars
  BY <1>4, <1>6 DEF vars
<1>7. ASSUME NEW q \in Requests, Proceed(q)
      PROVE  FALSE
  <2>1. Gather(q) \/ request' = request
    BY <1>7 DEF Proceed, TaskStarts, AttemptEnds, AttemptSucceeds, AttemptFails,
                LastAttemptFails, Retry
  <2> QED
    BY <1>4, <1>5, <2>1
<1>8. ASSUME NEW p \in Providers, Admin(p) \/ Clock(p)
      PROVE  FALSE
  <2>1. request' = request
    BY <1>8 DEF Admin, Clock, Register, Unregister, Enable, Disable, Administer,
                Invalidate, CooldownElapses, WindowElapses, EntryExpires
  <2> QED
    BY <1>4, <2>1
<1> QED
  BY <1>1, <1>2, <1>3, <1>5, <1>6, <1>7, <1>8 DEF Next, Ask

(* A fan-out that picks its own providers never picks one whose breaker is *)
(* not CLOSED, for every failure_threshold >= down_after.                  *)
THEOREM DefaultsAvoidOpen == Spec => DefaultTargetsClosed
<1>1. ASSUME IInv, AP!OpenImpliesDown, [Next]_vars, DownAfter <= FailureThreshold,
             NEW r \in Requests, NEW p \in Providers,
             request[r].kind = "new", request'[r].kind = "default",
             call'[r][p].at = "scheduled"
      PROVE  breaker[p].state = "CLOSED"
  <2>1. PICK k \in Keys : FanOutDefault(r, k)
    BY <1>1, OnlyDefault
  <2>2. call[r][p].at = "idle"
    BY <1>1 DEF IInv, NewIsIdle
  <2>3. p \in DefaultTargets
    BY <1>1, <2>1, <2>2 DEF FanOutDefault, FanOut, IInv, TypeOK
  <2>4. health[p].status # "DOWN"
    BY <2>3 DEF DefaultTargets, Available
  <2> QED
    BY <1>1, <2>4 DEF AP!OpenImpliesDown, AP!Available
<1>2. IInv /\ AP!OpenImpliesDown /\ [Next]_vars =>
        [DownAfter <= FailureThreshold =>
            \A r \in Requests, p \in Providers :
                request[r].kind = "new" /\ request'[r].kind = "default"
                    /\ call'[r][p].at = "scheduled"
                => breaker[p].state = "CLOSED"]_vars
  BY <1>1
<1> QED
  BY <1>2, Invariance, OpenIsDownHere, PTL DEF Spec, DefaultTargetsClosed

---------------------------------------------------------------------------
(* The fallback.  The invariant adds that nothing is kept as last good     *)
(* when the fallback is off.                                               *)

LastGoodEnabled == \A p \in Providers, k \in Keys : lastGood[p][k] => EnableFallback

FInv == IInv /\ LastGoodEnabled /\ FallbackCoversCache

(* Only a success writes lastGood, and it never takes a value back.        *)
LEMMA LastGoodSteps ==
    ASSUME IInv, [Next]_vars
    PROVE  \/ UNCHANGED lastGood
           \/ \E r \in Requests, p \in Providers, v \in {"value", "none"} :
                  AttemptSucceeds(r, p, v)
<1> USE DEF IInv
<1>1. CASE UNCHANGED vars
  BY <1>1 DEF vars
<1>2. ASSUME NEW r \in Requests, Ask(r)
      PROVE  UNCHANGED lastGood
  BY <1>2 DEF Ask, Directed, Dispatch, FanOutDefault, FanOutNamed, FanOut
<1>3. ASSUME NEW r \in Requests, Proceed(r)
      PROVE  \/ UNCHANGED lastGood
             \/ \E p \in Providers, v \in {"value", "none"} : AttemptSucceeds(r, p, v)
  BY <1>3 DEF Proceed, TaskStarts, Dispatch, AttemptEnds, AttemptFails, LastAttemptFails,
              Retry, Gather
<1>4. ASSUME NEW r \in Requests, Cancel(r)
      PROVE  UNCHANGED lastGood
  BY <1>4 DEF Cancel
<1>5. ASSUME NEW p \in Providers, Admin(p) \/ Clock(p)
      PROVE  UNCHANGED lastGood
  BY <1>5 DEF Admin, Clock, Register, Unregister, Enable, Disable, Administer,
              Invalidate, CooldownElapses, WindowElapses, EntryExpires
<1> QED
  BY <1>1, <1>2, <1>3, <1>4, <1>5 DEF Next

(* Any other step only takes entries out of the cache or ages them.        *)
LEMMA CacheSteps ==
    ASSUME IInv, [Next]_vars, UNCHANGED lastGood,
           \A r \in Requests, p \in Providers : \A v : ~AttemptSucceeds(r, p, v)
    PROVE  \A p \in Providers, k \in Keys : cache'[p][k] # "absent" => cache[p][k] # "absent"
<1> USE DEF IInv
<1> DEFINE Fewer == \A p \in Providers, k \in Keys :
                       cache'[p][k] # "absent" => cache[p][k] # "absent"
<1>1. ASSUME cache' = cache
      PROVE  Fewer
  BY <1>1
<1>2. ASSUME NEW p \in Providers, NEW k \in Keys, cache' = Purged(p, k)
      PROVE  Fewer
  BY <1>2 DEF Purged, TypeOK
<1>3. ASSUME NEW r \in Requests, NEW p \in Providers, NEW k \in Keys, Dispatch(r, p, k)
      PROVE  Fewer
  <2>1. cache' = cache \/ cache' = Purged(p, k)
    BY <1>3 DEF Dispatch, UnknownProvider, CacheHit, BreakerRejects, QuotaRejects,
                CallsAdapter, PastCache
  <2> QED
    BY <1>1, <1>2, <2>1
<1>4. ASSUME NEW r \in Requests, Ask(r)
      PROVE  Fewer
  <2>1. ASSUME NEW k \in Keys, NEW kind, NEW S, FanOut(r, kind, S, k)
        PROVE  Fewer
    BY <1>1, <2>1 DEF FanOut
  <2> QED
    BY <1>3, <1>4, <2>1 DEF Ask, Directed, FanOutDefault, FanOutNamed
<1>5. ASSUME NEW r \in Requests, Proceed(r)
      PROVE  Fewer
  <2>1. ASSUME NEW p \in Providers, TaskStarts(r, p)
        PROVE  Fewer
    <3>1. request[r].key \in Keys
      BY DEF TypeOK
    <3> QED
      BY <1>3, <2>1, <3>1 DEF TaskStarts
  <2>2. ASSUME NEW p \in Providers, AttemptEnds(r, p)
        PROVE  Fewer
    BY <1>1, <2>2 DEF AttemptEnds, AttemptFails, LastAttemptFails
  <2>3. ASSUME NEW p \in Providers, Retry(r, p)
        PROVE  Fewer
    BY <1>1, <2>3 DEF Retry
  <2>4. CASE Gather(r)
    BY <1>1, <2>4 DEF Gather
  <2> QED
    BY <1>5, <2>1, <2>2, <2>3, <2>4 DEF Proceed
<1>6. ASSUME NEW r \in Requests, Cancel(r)
      PROVE  Fewer
  BY <1>1, <1>6 DEF Cancel
<1>7. ASSUME NEW p \in Providers, Admin(p) \/ Clock(p)
      PROVE  Fewer
  <2>1. ASSUME NEW S, Invalidate(p, S)
        PROVE  Fewer
    BY <2>1 DEF Invalidate, TypeOK
  <2>2. ASSUME NEW k \in Keys, EntryExpires(p, k)
        PROVE  Fewer
    BY <2>2 DEF EntryExpires, TypeOK
  <2>3. CASE CooldownElapses(p) \/ WindowElapses(p)
    BY <1>1, <2>3 DEF CooldownElapses, WindowElapses
  <2>4. CASE Register(p) \/ Unregister(p) \/ Enable(p) \/ Disable(p)
    BY <1>1, <2>4 DEF Register, Unregister, Enable, Disable, Administer
  <2> QED
    BY <1>7, <2>1, <2>2, <2>3, <2>4 DEF Admin, Clock
<1>8. CASE UNCHANGED vars
  BY <1>1, <1>8 DEF vars
<1> QED
  BY <1>4, <1>5, <1>6, <1>7, <1>8 DEF Next

(* What a success leaves in lastGood and in the cache.                     *)
LEMMA SuccessKeeps ==
    ASSUME IInv, NEW r \in Requests, NEW p \in Providers, NEW v, AttemptSucceeds(r, p, v)
    PROVE  /\ \A q \in Providers, k \in Keys :
                 lastGood'[q][k] = (lastGood[q][k] \/
                                    (q = p /\ k = request[r].key /\ EnableFallback))
           /\ \A q \in Providers, k \in Keys :
                 ~(q = p /\ k = request[r].key) => cache'[q][k] = cache[q][k]
<1> DEFINE k0 == request[r].key
<1>0. k0 \in Keys
  BY DEF IInv, TypeOK
<1>1. lastGood' = [lastGood EXCEPT ![p][k0] = lastGood[p][k0] \/ EnableFallback]
  BY DEF AttemptSucceeds
<1>2. \E e : cache' = [cache EXCEPT ![p][k0] = e]
  <2>1. CASE p \in Cached
    BY <2>1 DEF AttemptSucceeds
  <2>2. CASE p \notin Cached
    <3>1. cache' = [cache EXCEPT ![p][k0] = cache[p][k0]]
      BY <2>2 DEF AttemptSucceeds, IInv, TypeOK
    <3> QED
      BY <3>1
  <2> QED
    BY <2>1, <2>2
<1> HIDE DEF k0
<1>3. \A q \in Providers, k \in Keys :
         lastGood'[q][k] = IF q = p /\ k = k0 THEN lastGood[p][k0] \/ EnableFallback
                           ELSE lastGood[q][k]
  BY <1>0, <1>1 DEF IInv, TypeOK
<1>4. \A q \in Providers, k \in Keys : lastGood[q][k] \in BOOLEAN
  BY DEF IInv, TypeOK
<1>5. \A q \in Providers, k \in Keys :
         lastGood'[q][k] = (lastGood[q][k] \/ (q = p /\ k = k0 /\ EnableFallback))
  BY <1>3, <1>4, Constants
<1>6. \A q \in Providers, k \in Keys : ~(q = p /\ k = k0) => cache'[q][k] = cache[q][k]
  BY <1>0, <1>2 DEF IInv, TypeOK
<1> QED
  BY <1>5, <1>6 DEF k0

(* Nothing is cached initially, so the fallback covers it.                 *)
LEMMA FInvInit == Init => LastGoodEnabled /\ FallbackCoversCache
BY DEF Init, LastGoodEnabled, FallbackCoversCache

(* A success fills both stores; every other step only empties the cache.   *)
LEMMA FInvNext == FInv /\ [Next]_vars => (LastGoodEnabled /\ FallbackCoversCache)'
<1> SUFFICES ASSUME FInv, [Next]_vars PROVE LastGoodEnabled' /\ FallbackCoversCache'
  OBVIOUS
<1> USE DEF FInv
<1>1. ASSUME NEW r \in Requests, NEW p \in Providers, NEW v, AttemptSucceeds(r, p, v)
      PROVE  LastGoodEnabled' /\ FallbackCoversCache'
  <2> DEFINE here(q, k) == q = p /\ k = request[r].key
  <2>1. \A q \in Providers, k \in Keys :
           lastGood'[q][k] = (lastGood[q][k] \/ (here(q, k) /\ EnableFallback))
    BY <1>1, SuccessKeeps
  <2>2. \A q \in Providers, k \in Keys : ~here(q, k) => cache'[q][k] = cache[q][k]
    BY <1>1, SuccessKeeps
  <2> HIDE DEF here
  <2>3. LastGoodEnabled'
    BY <2>1 DEF LastGoodEnabled
  <2>4. ASSUME EnableFallback, NEW q \in Providers, NEW k \in Keys, cache'[q][k] # "absent"
        PROVE  lastGood'[q][k]
    <3>1. CASE here(q, k)
      BY <2>1, <2>4, <3>1
    <3>2. CASE ~here(q, k)
      BY <2>1, <2>2, <2>4, <3>2 DEF FallbackCoversCache
    <3> QED
      BY <3>1, <3>2
  <2> QED
    BY <2>3, <2>4 DEF FallbackCoversCache
<1>2. CASE \A r \in Requests, p \in Providers : \A v : ~AttemptSucceeds(r, p, v)
  <2>1. UNCHANGED lastGood
    BY <1>2, LastGoodSteps
  <2>2. \A p \in Providers, k \in Keys : cache'[p][k] # "absent" => cache[p][k] # "absent"
    BY <1>2, <2>1, CacheSteps
  <2> QED
    BY <2>1, <2>2 DEF LastGoodEnabled, FallbackCoversCache
<1> QED
  BY <1>1, <1>2

(* The cache and the fallback stay in step throughout.                     *)
LEMMA FallbackInvariance == Spec => []FInv
<1>1. Spec => []IInv /\ [][Next]_vars /\ Init
  BY Invariance, PTL DEF Spec
<1> QED
  BY <1>1, FInvInit, FInvNext, PTL DEF FInv

(* Whatever the cache can serve, the fallback can serve too.               *)
THEOREM FallbackCovers == Spec => []FallbackCoversCache
BY FallbackInvariance, PTL DEF FInv

(* A dispatch for a key with a fallback cannot raise.                      *)
LEMMA Shielded ==
    ASSUME FInv, NEW p \in Providers, NEW k \in Keys, lastGood[p][k]
    PROVE  \A raised : OrFallback(p, k, raised) = "fallback"
BY DEF FInv, LastGoodEnabled, OrFallback, HasFallback

(* Where the dispatches of one request can go in a step of that request.   *)
LEMMA NeverRaises ==
    ASSUME FInv, [Next]_vars, NEW r \in Requests, NEW p \in Providers, NEW k \in Keys,
           lastGood[p][k], request'[r].key = k, call[r][p].at \notin Ended
    PROVE  call'[r][p].at \notin {"open", "failed"}
<1> USE DEF FInv, IInv
<1> DEFINE Good == call'[r][p].at \notin {"open", "failed"}
<1>0. call[r][p].at \notin {"open", "failed"}
  BY Endings
<1>1. ASSUME call'[r][p].at = call[r][p].at
      PROVE  Good
  BY <1>0, <1>1
<1>2. ASSUME NEW q \in Requests, NEW u \in Providers, NEW stage, NEW tries,
             Goes(q, u, stage, tries), q = r /\ u = p => stage \notin {"open", "failed"}
      PROVE  Good
  BY <1>0, <1>2 DEF Goes, TypeOK
<1>3. ASSUME NEW q \in Requests, NEW u \in Providers, NEW j, Dispatch(q, u, j),
             q = r => j = k
      PROVE  Good
  <2>1. CASE BreakerRejects(q, u, j)
    <3>1. q = r /\ u = p => OrFallback(u, j, "open") = "fallback"
      BY <1>3, Shielded
    <3> QED
      BY <1>2, <2>1, <3>1 DEF BreakerRejects
  <2>2. CASE UnknownProvider(q, u)
    BY <1>2, <2>2 DEF UnknownProvider
  <2>3. CASE CacheHit(q, u, j)
    BY <1>2, <2>3 DEF CacheHit
  <2>4. CASE QuotaRejects(q, u, j)
    BY <1>2, <2>4 DEF QuotaRejects
  <2>5. CASE CallsAdapter(q, u, j)
    BY <1>2, <2>5 DEF CallsAdapter
  <2> QED
    BY <1>3, <2>1, <2>2, <2>3, <2>4, <2>5 DEF Dispatch
<1>4. ASSUME NEW q \in Requests, Ask(q)
      PROVE  Good
  <2>1. ASSUME NEW u \in Providers, NEW j \in Keys, Directed(q, u, j)
        PROVE  Good
    <3>1. q = r => j = k
      BY <2>1 DEF Directed, TypeOK
    <3> QED
      BY <1>3, <2>1, <3>1 DEF Directed
  <2>2. ASSUME NEW kind, NEW S, NEW j, FanOut(q, kind, S, j)
        PROVE  Good
    <3>1. call'[r][p].at \in {call[r][p].at, "scheduled"}
      <4>1. call'[r][p] = call[r][p] \/ call'[r][p] = [call[r][p] EXCEPT !.at = "scheduled"]
        BY <2>2 DEF FanOut, TypeOK
      <4>2. [call[r][p] EXCEPT !.at = "scheduled"].at = "scheduled"
        BY DEF TypeOK
      <4> QED
        BY <4>1, <4>2
    <3> QED
      BY <1>0, <3>1
  <2> QED
    BY <1>4, <2>1, <2>2 DEF Ask, FanOutDefault, FanOutNamed
<1>5. ASSUME NEW q \in Requests, Proceed(q)
      PROVE  Good
  <2>1. ASSUME NEW u \in Providers, TaskStarts(q, u)
        PROVE  Good
    BY <1>3, <2>1 DEF TaskStarts
  <2>2. ASSUME NEW u \in Providers, NEW v, AttemptSucceeds(q, u, v)
        PROVE  Good
    BY <1>2, <2>2 DEF AttemptSucceeds
  <2>3. ASSUME NEW u \in Providers, AttemptFails(q, u) \/ Retry(q, u)
        PROVE  Good
    BY <1>2, <2>3 DEF AttemptFails, Retry
  <2>4. ASSUME NEW u \in Providers, LastAttemptFails(q, u)
        PROVE  Good
    <3>1. request' = request
      BY <2>4 DEF LastAttemptFails
    <3>2. q = r /\ u = p => OrFallback(u, request[q].key, "failed") = "fallback"
      BY <3>1, Shielded
    <3> QED
      BY <1>2, <2>4, <3>2 DEF LastAttemptFails
  <2>5. CASE Gather(q)
    BY <1>1, <2>5 DEF Gather
  <2> QED
    BY <1>5, <2>1, <2>2, <2>3, <2>4, <2>5 DEF Proceed, AttemptEnds
<1>6. ASSUME NEW q \in Requests, Cancel(q)
      PROVE  Good
  <2> DEFINE Left(u) == CASE call[q][u].at = "scheduled" -> "unstarted"
                         [] call[q][u].at \in InFlight  -> "cancelled"
                         [] OTHER                       -> call[q][u].at
  <2>1. call' = [call EXCEPT ![q] = [u \in Providers |-> [call[q][u] EXCEPT !.at = Left(u)]]]
    BY <1>6 DEF Cancel, TypeOK
  <2>2. q = r => Left(p) \in {"unstarted", "cancelled", call[r][p].at}
    OBVIOUS
  <2>3. \A u \in Providers : [call[q][u] EXCEPT !.at = Left(u)].at = Left(u)
    <3> HIDE DEF Left
    <3> QED
      BY DEF TypeOK
  <2> HIDE DEF Left
  <2>4. call'[r][p].at = IF q = r THEN Left(p) ELSE call[r][p].at
    BY <2>1, <2>3 DEF TypeOK
  <2> QED
    BY <1>0, <2>2, <2>4
<1>7. ASSUME NEW u \in Providers, Admin(u) \/ Clock(u)
      PROVE  Good
  BY <1>1, <1>7 DEF Admin, Clock, Register, Unregister, Enable, Disable, Administer,
                    Invalidate, CooldownElapses, WindowElapses, EntryExpires
<1>8. CASE UNCHANGED vars
  BY <1>1, <1>8 DEF vars
<1> QED
  BY <1>4, <1>5, <1>6, <1>7, <1>8 DEF Next

(* Once a provider has answered a key, its failures never reach a caller   *)
(* that asks for that key.                                                 *)
THEOREM FallbackHolds == Spec => FallbackShields
<1>1. ASSUME FInv, [Next]_vars, NEW p \in Providers, NEW k \in Keys, lastGood[p][k]
      PROVE  lastGood'[p][k]
  <2>1. CASE UNCHANGED lastGood
    BY <1>1, <2>1
  <2>2. ASSUME NEW q \in Requests, NEW u \in Providers, NEW v, AttemptSucceeds(q, u, v)
        PROVE  lastGood'[p][k]
    BY <1>1, <2>2, SuccessKeeps DEF FInv
  <2> QED
    BY <1>1, <2>1, <2>2, LastGoodSteps DEF FInv
<1>2. FInv /\ [Next]_vars =>
        [\A r \in Requests, p \in Providers, k \in Keys :
            lastGood[p][k] =>
                /\ lastGood'[p][k]
                /\ request'[r].key = k /\ call[r][p].at \notin Ended =>
                       call'[r][p].at \notin {"open", "failed"}]_vars
  BY <1>1, NeverRaises
<1> QED
  BY <1>2, FallbackInvariance, PTL DEF Spec, FallbackShields

---------------------------------------------------------------------------
(* The statistics.                                                         *)

(* Requests whose dispatch to p is at one of the stages S.                 *)
Standing(p, S) == {r \in Requests : call[r][p].at \in S}

Number(p, S) == Cardinality(Standing(p, S))

Pending == InFlight \cup {"cancelled"}

Left == InFlight \cup Ended

Uncounted == {"hit", "unknown", "unstarted"}

Shed == {"open", "failed", "fallback"}

(* What StatsBalance says of one provider.                                 *)
Tally(p) ==
    /\ stats[p]["rejected"] + stats[p]["limited"] + stats[p]["successful"] + stats[p]["failed"]
            + Number(p, Pending)
          = Number(p, Left) - Number(p, Uncounted)
    /\ stats[p]["fallbackUsed"] = Number(p, {"fallback"})
    /\ stats[p]["rejected"] + stats[p]["failed"] = Number(p, Shed)

LEMMA TallyBalance == StatsBalance <=> \A p \in Providers : Tally(p)
  BY DEF StatsBalance, Tally, Number, Standing, Pending, Left, Uncounted, Shed

One(s, S) == IF s \in S THEN 1 ELSE 0

(* Counting which when a dispatch goes from one stage to another keeps the *)
(* balance.                                                                *)
Counted(from, to, which) ==
    /\ One("rejected", which) + One("limited", which) + One("successful", which)
            + One("failed", which) + One(to, Pending) - One(from, Pending)
          = One(to, Left) - One(from, Left) - One(to, Uncounted) + One(from, Uncounted)
    /\ One("fallbackUsed", which) = One(to, {"fallback"}) - One(from, {"fallback"})
    /\ One("rejected", which) + One("failed", which) = One(to, Shed) - One(from, Shed)

LEMMA OneStands ==
    ASSUME NEW p, NEW r \in Requests, NEW to, call'[r][p].at = to,
           \A q \in Requests \ {r} : call'[q][p].at = call[q][p].at, NEW S
    PROVE  /\ Number(p, S) \in Nat /\ Number(p, S)' \in Nat
           /\ Number(p, S)' = Number(p, S) + One(to, S) - One(call[r][p].at, S)
<1> DEFINE A == Standing(p, S)
           B == Standing(p, S)'
<1>1. B = {q \in Requests : call'[q][p].at \in S}
  BY DEF Standing
<1>2. A \in SUBSET Requests /\ B \in SUBSET Requests
  BY <1>1 DEF Standing
<1>3. /\ \A q \in Requests : q # r => (q \in A <=> q \in B)
      /\ r \in A <=> call[r][p].at \in S
      /\ r \in B <=> to \in S
  BY <1>1 DEF Standing
<1> HIDE DEF A, B
<1>4. /\ Cardinality(A) \in Nat /\ Cardinality(B) \in Nat
      /\ (r \in A <=> r \in B) => Cardinality(B) = Cardinality(A)
      /\ r \notin A /\ r \in B => Cardinality(B) = Cardinality(A) + 1
      /\ r \in A /\ r \notin B => Cardinality(B) = Cardinality(A) - 1
  BY <1>2, <1>3, ManagerAssumption, OneMoves
<1> QED
  BY <1>3, <1>4 DEF A, B, Number, One

LEMMA TallyMoves ==
    ASSUME TypeOK, NEW p \in Providers, Tally(p), NEW r \in Requests, NEW to,
           call'[r][p].at = to,
           \A q \in Requests \ {r} : call'[q][p].at = call[q][p].at,
           NEW which, \A c \in Counters : stats'[p][c] = stats[p][c] + One(c, which),
           Counted(call[r][p].at, to, which)
    PROVE  Tally(p)'
<1> DEFINE from == call[r][p].at
<1>1. /\ Number(p, Pending) \in Nat
      /\ Number(p, Pending)' = Number(p, Pending) + One(to, Pending) - One(from, Pending)
  BY OneStands
<1>2. /\ Number(p, Left) \in Nat
      /\ Number(p, Left)' = Number(p, Left) + One(to, Left) - One(from, Left)
  BY OneStands
<1>3. /\ Number(p, Uncounted) \in Nat
      /\ Number(p, Uncounted)' = Number(p, Uncounted) + One(to, Uncounted) - One(from, Uncounted)
  BY OneStands
<1>4. /\ Number(p, {"fallback"}) \in Nat
      /\ Number(p, {"fallback"})' =
            Number(p, {"fallback"}) + One(to, {"fallback"}) - One(from, {"fallback"})
  BY OneStands
<1>5. /\ Number(p, Shed) \in Nat
      /\ Number(p, Shed)' = Number(p, Shed) + One(to, Shed) - One(from, Shed)
  BY OneStands
<1>6. \A s, S : One(s, S) \in {0, 1}
  BY DEF One
<1>7. \A c \in {"rejected", "limited", "successful", "failed", "fallbackUsed"} :
          stats[p][c] \in Nat /\ stats'[p][c] = stats[p][c] + One(c, which)
  BY DEF TypeOK, Counters
<1> HIDE DEF from
<1>8. Tally(p)' <=>
         /\ stats'[p]["rejected"] + stats'[p]["limited"] + stats'[p]["successful"]
                 + stats'[p]["failed"] + Number(p, Pending)'
               = Number(p, Left)' - Number(p, Uncounted)'
         /\ stats'[p]["fallbackUsed"] = Number(p, {"fallback"})'
         /\ stats'[p]["rejected"] + stats'[p]["failed"] = Number(p, Shed)'
  BY DEF Tally
<1>9. Counted(from, to, which)
  BY DEF from
<1>10. /\ stats[p]["rejected"] \in Nat /\ stats[p]["limited"] \in Nat
       /\ stats[p]["successful"] \in Nat /\ stats[p]["failed"] \in Nat
       /\ stats'[p]["rejected"] = stats[p]["rejected"] + One("rejected", which)
       /\ stats'[p]["limited"] = stats[p]["limited"] + One("limited", which)
       /\ stats'[p]["successful"] = stats[p]["successful"] + One("successful", which)
       /\ stats'[p]["failed"] = stats[p]["failed"] + One("failed", which)
       /\ One("rejected", which) \in Int /\ One("limited", which) \in Int
       /\ One("successful", which) \in Int /\ One("failed", which) \in Int
  BY <1>6, <1>7
<1>11. /\ One(to, Pending) \in Int /\ One(from, Pending) \in Int
       /\ One(to, Left) \in Int /\ One(from, Left) \in Int
       /\ One(to, Uncounted) \in Int /\ One(from, Uncounted) \in Int
       /\ One(to, Shed) \in Int /\ One(from, Shed) \in Int
       /\ One(to, {"fallback"}) \in Int /\ One(from, {"fallback"}) \in Int
  BY <1>6
<1>12. stats'[p]["rejected"] + stats'[p]["limited"] + stats'[p]["successful"]
            + stats'[p]["failed"] + Number(p, Pending)'
          = Number(p, Left)' - Number(p, Uncounted)'
  <2>1. stats[p]["rejected"] + stats[p]["limited"] + stats[p]["successful"] + stats[p]["failed"]
             + Number(p, Pending)
           = Number(p, Left) - Number(p, Uncounted)
    BY DEF Tally
  <2>2. One("rejected", which) + One("limited", which) + One("successful", which)
             + One("failed", which) + One(to, Pending) - One(from, Pending)
           = One(to, Left) - One(from, Left) - One(to, Uncounted) + One(from, Uncounted)
    BY <1>9 DEF Counted
  <2>3. stats'[p]["rejected"] + stats'[p]["limited"] + stats'[p]["successful"]
             + stats'[p]["failed"]
           = (stats[p]["rejected"] + stats[p]["limited"] + stats[p]["successful"]
                 + stats[p]["failed"])
             + (One("rejected", which) + One("limited", which) + One("successful", which)
                 + One("failed", which))
    BY ONLY <1>10
  <2>4. /\ stats[p]["rejected"] + stats[p]["limited"] + stats[p]["successful"]
               + stats[p]["failed"] \in Int
        /\ One("rejected", which) + One("limited", which) + One("successful", which)
               + One("failed", which) \in Int
    BY ONLY <1>10
  <2> QED
    BY ONLY <1>1, <1>2, <1>3, <1>11, <2>1, <2>2, <2>3, <2>4, SMTT(60)
<1>13. stats'[p]["fallbackUsed"] = Number(p, {"fallback"})'
  BY <1>4, <1>6, <1>7, <1>9, <1>11 DEF Tally, Counted
<1>14. stats'[p]["rejected"] + stats'[p]["failed"] = Number(p, Shed)'
  BY <1>5, <1>9, <1>10, <1>11 DEF Tally, Counted
<1> QED
  BY <1>8, <1>12, <1>13, <1>14

LEMMA TallyStays ==
    ASSUME NEW p \in Providers, Tally(p), stats'[p] = stats[p],
           \A q \in Requests : call'[q][p].at = call[q][p].at
    PROVE  Tally(p)'
<1>1. \A S : Number(p, S)' = Number(p, S)
  <2> TAKE S
  <2>1. Standing(p, S)' = Standing(p, S)
    BY DEF Standing
  <2> QED
    BY <2>1 DEF Number
<1>2. /\ Number(p, Pending)' = Number(p, Pending) /\ Number(p, Left)' = Number(p, Left)
      /\ Number(p, Uncounted)' = Number(p, Uncounted) /\ Number(p, Shed)' = Number(p, Shed)
      /\ Number(p, {"fallback"})' = Number(p, {"fallback"})
  BY <1>1
<1> QED
  BY <1>2 DEF Tally

LEMMA DispatchTallied ==
    ASSUME TypeOK, StatsBalance, NEW r \in Requests, NEW p \in Providers, NEW to, NEW tries,
           Goes(r, p, to, tries), NEW which,
           \/ Count(p, which)
           \/ which = {} /\ stats' = stats,
           Counted(call[r][p].at, to, which)
    PROVE  StatsBalance'
<1>1. /\ call' = [call EXCEPT ![r][p] = [at |-> to, tries |-> tries]]
      /\ call \in [Requests -> [Providers -> [at : Stages, tries : Nat]]]
      /\ stats \in [Providers -> [Counters -> Nat]]
  BY DEF Goes, TypeOK
<1>2. \A c \in Counters : stats'[p][c] = stats[p][c] + One(c, which)
  BY <1>1 DEF Count, One
<1>3. \A q \in Providers \ {p} : stats'[q] = stats[q]
  BY <1>1 DEF Count
<1>4. Tally(p)'
  <2>1. call'[r][p].at = to
    BY <1>1
  <2>2. \A q \in Requests \ {r} : call'[q][p].at = call[q][p].at
    BY <1>1
  <2> QED
    BY <1>2, <2>1, <2>2, TallyBalance, TallyMoves
<1>5. ASSUME NEW o \in Providers \ {p} PROVE Tally(o)'
  <2>1. \A q \in Requests : call'[q][o].at = call[q][o].at
    BY <1>1
  <2> QED
    BY <1>3, <1>5, <2>1, TallyBalance, TallyStays
<1>6. \A o \in Providers : Tally(o)'
  BY <1>4, <1>5
<1> QED
  BY <1>6 DEF StatsBalance, Tally, Number, Standing, Pending, Left, Uncounted, Shed

(* What each way of a dispatch counts is what its stages call for.         *)
LEMMA CountedWays ==
    /\ \A from \in {"idle", "scheduled"}, p \in Providers, k \in Keys :
          /\ Counted(from, "unknown", {})
          /\ Counted(from, "hit", {"hits"})
          /\ Counted(from, OrFallback(p, k, "open"),
                     Missed(p) \cup {"rejected"} \cup FallbackCount(p, k))
          /\ Counted(from, "limited", Missed(p) \cup {"limited"})
          /\ Counted(from, "attempt", Missed(p))
    /\ Counted("attempt", "ok", {"successful"})
    /\ Counted("attempt", "backoff", {"retried"})
    /\ Counted("backoff", "attempt", {})
    /\ \A p \in Providers, k \in Keys :
          Counted("attempt", OrFallback(p, k, "failed"), {"failed"} \cup FallbackCount(p, k))
    /\ \A from \in InFlight : Counted(from, "cancelled", {})
    /\ Counted("idle", "scheduled", {}) /\ Counted("scheduled", "unstarted", {})
  BY DEF Counted, One, OrFallback, FallbackCount, Missed, Pending, Left, Uncounted, Shed,
         InFlight, Ended, Contributed, Raised

LEMMA DispatchBalances ==
    ASSUME TypeOK, StatsBalance, NEW r \in Requests, NEW p \in Providers, NEW k \in Keys,
           Dispatch(r, p, k), call[r][p].at \in {"idle", "scheduled"}
    PROVE  StatsBalance'
<1>1. CASE UnknownProvider(r, p)
  <2>1. Goes(r, p, "unknown", 0) /\ stats' = stats
    BY <1>1 DEF UnknownProvider
  <2> QED
    BY <2>1, CountedWays, DispatchTallied
<1>2. CASE CacheHit(r, p, k)
  <2>1. Goes(r, p, "hit", 0) /\ Count(p, {"hits"})
    BY <1>2 DEF CacheHit
  <2> QED
    BY <2>1, CountedWays, DispatchTallied
<1>3. CASE BreakerRejects(r, p, k)
  <2>1. /\ Goes(r, p, OrFallback(p, k, "open"), 0)
        /\ Count(p, Missed(p) \cup {"rejected"} \cup FallbackCount(p, k))
    BY <1>3 DEF BreakerRejects
  <2> QED
    BY <2>1, CountedWays, DispatchTallied
<1>4. CASE QuotaRejects(r, p, k)
  <2>1. Goes(r, p, "limited", 0) /\ Count(p, Missed(p) \cup {"limited"})
    BY <1>4 DEF QuotaRejects
  <2> QED
    BY <2>1, CountedWays, DispatchTallied
<1>5. CASE CallsAdapter(r, p, k)
  <2>1. Goes(r, p, "attempt", 1) /\ Count(p, Missed(p))
    BY <1>5 DEF CallsAdapter
  <2> QED
    BY <2>1, CountedWays, DispatchTallied
<1> QED
  BY <1>1, <1>2, <1>3, <1>4, <1>5 DEF Dispatch

(* A caller that starts or leaves a fan-out moves several dispatches, each *)
(* of another provider, and counts nothing.                                *)
LEMMA RowBalances ==
    ASSUME TypeOK, StatsBalance, NEW r \in Requests, stats' = stats,
           NEW row, call' = [call EXCEPT ![r] = row],
           \A p \in Providers :
              \/ row[p].at = call[r][p].at
              \/ Counted(call[r][p].at, row[p].at, {})
    PROVE  StatsBalance'
<1>1. \A q \in Requests \ {r} : call'[q] = call[q]
  BY DEF TypeOK
<1>2. call'[r] = row
  BY DEF TypeOK
<1>3. ASSUME NEW p \in Providers PROVE Tally(p)'
  <2>1. CASE row[p].at = call[r][p].at
    <3>1. \A q \in Requests : call'[q][p].at = call[q][p].at
      BY <1>1, <1>2, <2>1
    <3> QED
      BY <3>1, TallyBalance, TallyStays
  <2>2. CASE Counted(call[r][p].at, row[p].at, {})
    <3>1. \A c \in Counters : stats'[p][c] = stats[p][c] + One(c, {})
      <4>1. \A c : One(c, {}) = 0
        BY DEF One
      <4>2. \A c \in Counters : stats[p][c] \in Nat
        BY DEF TypeOK
      <4> QED
        BY <4>1, <4>2
    <3> QED
      BY <1>1, <1>2, <2>2, <3>1, TallyBalance, TallyMoves
  <2> QED
    BY <2>1, <2>2
<1> QED
  BY <1>3 DEF StatsBalance, Tally, Number, Standing, Pending, Left, Uncounted, Shed

LEMMA BalanceNext == IInv /\ StatsBalance /\ [Next]_vars => StatsBalance'
<1> SUFFICES ASSUME IInv, StatsBalance, [Next]_vars PROVE StatsBalance'
  OBVIOUS
<1>0. TypeOK
  BY DEF IInv
<1>1. CASE UNCHANGED <<stats, call>>
  BY <1>1 DEF StatsBalance
<1>2. ASSUME NEW r \in Requests, Ask(r) PROVE StatsBalance'
  <2>1. ASSUME NEW p \in Providers, NEW k \in Keys, Directed(r, p, k) PROVE StatsBalance'
    <3>1. call[r][p].at = "idle" /\ Dispatch(r, p, k)
      BY <2>1 DEF Directed, IInv, NewIsIdle
    <3> QED
      BY <1>0, <3>1, DispatchBalances
  <2>2. ASSUME NEW kind, NEW S, NEW k, FanOut(r, kind, S, k) PROVE StatsBalance'
    <3> DEFINE row == [p \in Providers |-> IF p \in S THEN [call[r][p] EXCEPT !.at = "scheduled"]
                                           ELSE call[r][p]]
    <3>1. call' = [call EXCEPT ![r] = row] /\ stats' = stats
      BY <1>0, <2>2 DEF FanOut, TypeOK
    <3>2. \A p \in Providers : call[r][p].at = "idle" /\ call[r][p] \in [at : Stages, tries : Nat]
      BY <1>0, <2>2 DEF FanOut, IInv, NewIsIdle, TypeOK
    <3>3. \A p \in Providers : \/ row[p].at = call[r][p].at
                               \/ Counted(call[r][p].at, row[p].at, {})
      BY <3>2, CountedWays
    <3> HIDE DEF row
    <3> QED
      BY <1>0, <3>1, <3>3, RowBalances
  <2> QED
    BY <1>2, <2>1, <2>2 DEF Ask, FanOutDefault, FanOutNamed
<1>3. ASSUME NEW r \in Requests, Proceed(r) PROVE StatsBalance'
  <2>1. ASSUME NEW p \in Providers, TaskStarts(r, p) PROVE StatsBalance'
    <3>1. call[r][p].at = "scheduled" /\ Dispatch(r, p, request[r].key)
          /\ request[r].key \in Keys
      BY <1>0, <2>1 DEF TaskStarts, TypeOK
    <3> QED
      BY <1>0, <3>1, DispatchBalances
  <2>2. ASSUME NEW p \in Providers, NEW v, AttemptSucceeds(r, p, v) PROVE StatsBalance'
    <3>1. /\ call[r][p].at = "attempt" /\ Count(p, {"successful"})
          /\ Goes(r, p, "ok", call[r][p].tries)
      BY <2>2 DEF AttemptSucceeds
    <3> QED
      BY <1>0, <3>1, CountedWays, DispatchTallied
  <2>3. ASSUME NEW p \in Providers, AttemptFails(r, p) PROVE StatsBalance'
    <3>1. /\ call[r][p].at = "attempt" /\ Count(p, {"retried"})
          /\ Goes(r, p, "backoff", call[r][p].tries)
      BY <2>3 DEF AttemptFails
    <3> QED
      BY <1>0, <3>1, CountedWays, DispatchTallied
  <2>4. ASSUME NEW p \in Providers, LastAttemptFails(r, p) PROVE StatsBalance'
    <3> DEFINE k == request[r].key
    <3>1. /\ call[r][p].at = "attempt" /\ Count(p, {"failed"} \cup FallbackCount(p, k))
          /\ Goes(r, p, OrFallback(p, k, "failed"), call[r][p].tries)
      BY <2>4 DEF LastAttemptFails
    <3>2. k \in Keys
      BY <1>0 DEF TypeOK
    <3> HIDE DEF k
    <3> QED
      BY <1>0, <3>1, <3>2, CountedWays, DispatchTallied
  <2>5. ASSUME NEW p \in Providers, Retry(r, p) PROVE StatsBalance'
    <3>1. /\ call[r][p].at = "backoff" /\ Goes(r, p, "attempt", call[r][p].tries + 1)
          /\ stats' = stats
      BY <2>5 DEF Retry
    <3> QED
      BY <1>0, <3>1, CountedWays, DispatchTallied
  <2>6. CASE Gather(r)
    BY <1>1, <2>6 DEF Gather
  <2> QED
    BY <1>3, <2>1, <2>2, <2>3, <2>4, <2>5, <2>6 DEF Proceed, AttemptEnds
<1>4. ASSUME NEW r \in Requests, Cancel(r) PROVE StatsBalance'
  <2> DEFINE to(p) == CASE call[r][p].at = "scheduled" -> "unstarted"
                        [] call[r][p].at \in InFlight  -> "cancelled"
                        [] OTHER                       -> call[r][p].at
             row == [p \in Providers |-> [call[r][p] EXCEPT !.at = to(p)]]
  <2>1. call' = [call EXCEPT ![r] = row] /\ stats' = stats
    BY <1>0, <1>4 DEF Cancel, TypeOK
  <2>2. \A p \in Providers : call[r][p] \in [at : Stages, tries : Nat]
    BY <1>0 DEF TypeOK
  <2>3. ASSUME NEW p \in Providers
        PROVE  \/ row[p].at = call[r][p].at
               \/ Counted(call[r][p].at, row[p].at, {})
    <3>1. row[p].at = to(p)
      BY <2>2
    <3>2. CASE call[r][p].at = "scheduled"
      BY <3>1, <3>2, CountedWays
    <3>3. CASE call[r][p].at \in InFlight
      <4>1. call[r][p].at # "scheduled"
        BY <3>3 DEF InFlight
      <4>2. row[p].at = "cancelled"
        BY <3>1, <3>3, <4>1
      <4> QED
        BY <3>3, <4>2, CountedWays
    <3>4. CASE call[r][p].at # "scheduled" /\ call[r][p].at \notin InFlight
      BY <3>1, <3>4
    <3> QED
      BY <3>2, <3>3, <3>4
  <2> HIDE DEF row
  <2> QED
    BY <1>0, <2>1, <2>3, RowBalances
<1>5. ASSUME NEW p \in Providers, Admin(p) \/ Clock(p) PROVE UNCHANGED <<stats, call>>
  BY <1>5 DEF Admin, Clock, Register, Unregister, Enable, Disable, Administer,
              Invalidate, CooldownElapses, WindowElapses, EntryExpires
<1> QED
  BY <1>1, <1>2, <1>3, <1>4, <1>5 DEF Next, vars

(* get_stats accounts for every dispatch, however dispatches of concurrent *)
(* requests end.                                                           *)
THEOREM StatsAddUp == Spec => []StatsBalance
<1>1. Init => StatsBalance
  <2> SUFFICES ASSUME Init, NEW p \in Providers PROVE Tally(p)
    BY TallyBalance
  <2>1. /\ Standing(p, Pending) = {} /\ Standing(p, Left) = {} /\ Standing(p, Uncounted) = {}
        /\ Standing(p, Shed) = {} /\ Standing(p, {"fallback"}) = {}
    BY DEF Init, Standing, Pending, Left, Uncounted, Shed, InFlight, Ended, Contributed, Raised
  <2>2. /\ Number(p, Pending) = 0 /\ Number(p, Left) = 0 /\ Number(p, Uncounted) = 0
        /\ Number(p, Shed) = 0 /\ Number(p, {"fallback"}) = 0
    BY <2>1, FS_EmptySet DEF Number
  <2>3. \A c \in Counters : stats[p][c] = 0
    BY DEF Init
  <2> QED
    BY <2>2, <2>3 DEF Tally, Counters
<1> QED
  BY Invariance, <1>1, BalanceNext, PTL DEF Spec

---------------------------------------------------------------------------
(* ProviderPacing.                                                         *)

LEMMA PacingConstants ==
    /\ MaxRequests \in Nat \ {0} /\ Period \in Nat \ {0} /\ Attempts \in Nat \ {0}
    /\ Base \in Nat /\ Multiplier \in Nat /\ Timeout \in Nat \ {0} /\ MaxTime \in Nat
BY PacingAssumption DEF ValidConfiguration

(* The sleeps, and what they add up to.                                    *)
LEMMA Powers == \A n \in Nat : Power[n] \in Nat
<1> DEFINE F == [p \in Nat \X Nat |-> p[2] * Multiplier]
<1>1. F \in [Nat \X Nat -> Nat] /\ \A n, m \in Nat : F[<<n, m>>] = m * Multiplier
  BY PacingConstants
<1> HIDE DEF F
<1>2. PICK g \in [Nat -> Nat] : Recurs(g, 1, F)
  BY <1>1, Recursion
<1>3. \A n \in Nat : n # 0 => g[n] = g[n - 1] * Multiplier
  <2> SUFFICES ASSUME NEW n \in Nat, n # 0 PROVE g[n] = g[n - 1] * Multiplier
    OBVIOUS
  <2>1. n - 1 \in Nat /\ (n - 1) + 1 = n
    OBVIOUS
  <2> QED
    BY <1>1, <1>2, <2>1 DEF Recurs
<1>4. g = [n \in Nat |-> IF n = 0 THEN 1 ELSE g[n - 1] * Multiplier]
  BY <1>2, <1>3 DEF Recurs
<1>5. Power = [n \in Nat |-> IF n = 0 THEN 1 ELSE Power[n - 1] * Multiplier]
  BY <1>4 DEF Power
<1> DEFINE S == {n \in Nat : Power[n] \in Nat}
<1>6. 0 \in S
  BY <1>5
<1>7. ASSUME NEW n \in Nat, n \in S PROVE n + 1 \in S
  <2>1. Power[n + 1] = Power[n] * Multiplier
    BY <1>5
  <2> QED
    BY <1>7, <2>1, PacingConstants
<1> HIDE DEF S
<1>8. Nat \subseteq S
  BY <1>6, <1>7, EveryNatural
<1> QED
  BY <1>8 DEF S

LEMMA Delays == \A i \in Nat \ {0} : Delay(i) \in Nat
BY Powers, PacingConstants DEF Delay

LEMMA WaitsAddUp ==
    /\ Waits[0] = 0
    /\ \A n \in Nat : Waits[n] \in Nat /\ Waits[n + 1] = Waits[n] + Timeout + Delay(n + 1)
<1> DEFINE F == [p \in Nat \X Nat |-> p[2] + Timeout + Delay(p[1] + 1)]
<1>1. F \in [Nat \X Nat -> Nat] /\ \A n, m \in Nat : F[<<n, m>>] = m + Timeout + Delay(n + 1)
  <2>1. \A n \in Nat : Delay(n + 1) \in Nat
    BY Delays
  <2> QED
    BY <2>1, PacingConstants
<1> HIDE DEF F
<1>2. PICK g \in [Nat -> Nat] : Recurs(g, 0, F)
  BY <1>1, Recursion
<1>3. \A n \in Nat : n # 0 => g[n] = g[n - 1] + Timeout + Delay(n)
  <2> SUFFICES ASSUME NEW n \in Nat, n # 0 PROVE g[n] = g[n - 1] + Timeout + Delay(n)
    OBVIOUS
  <2>1. n - 1 \in Nat /\ (n - 1) + 1 = n
    OBVIOUS
  <2>2. g[(n - 1) + 1] = g[n - 1] + Timeout + Delay((n - 1) + 1)
    BY <1>1, <1>2, <2>1 DEF Recurs
  <2> QED
    BY <2>1, <2>2
<1>4. g = [n \in Nat |-> IF n = 0 THEN 0 ELSE g[n - 1] + Timeout + Delay(n)]
  BY <1>2, <1>3 DEF Recurs
<1>5. Waits = [n \in Nat |-> IF n = 0 THEN 0 ELSE Waits[n - 1] + Timeout + Delay(n)]
  BY <1>4 DEF Waits
<1>6. Waits[0] = 0
  BY <1>5
<1>7. \A n \in Nat : Waits[n + 1] = Waits[n] + Timeout + Delay(n + 1)
  <2> TAKE n \in Nat
  <2>1. n + 1 \in Nat /\ n + 1 # 0 /\ (n + 1) - 1 = n
    OBVIOUS
  <2> QED
    BY <1>5, <2>1
<1> DEFINE S == {n \in Nat : Waits[n] \in Nat}
<1>8. 0 \in S
  BY <1>6
<1>9. ASSUME NEW n \in Nat, n \in S PROVE n + 1 \in S
  <2>1. Delay(n + 1) \in Nat
    BY Delays
  <2> QED
    BY <1>7, <1>9, <2>1, PacingConstants
<1> HIDE DEF S
<1>10. Nat \subseteq S
  BY <1>8, <1>9, EveryNatural
<1> QED
  BY <1>6, <1>7, <1>10 DEF S

LEMMA WaitsGrow == \A m, n \in Nat : m <= n => Waits[m] <= Waits[n]
<1> SUFFICES ASSUME NEW m \in Nat PROVE \A n \in Nat : m <= n => Waits[m] <= Waits[n]
  OBVIOUS
<1> DEFINE S == {n \in Nat : m <= n => Waits[m] <= Waits[n]}
<1>1. 0 \in S
  BY WaitsAddUp
<1>2. ASSUME NEW n \in Nat, n \in S PROVE n + 1 \in S
  <2>1. /\ Waits[n + 1] = Waits[n] + Timeout + Delay(n + 1)
        /\ Waits[m] \in Nat /\ Waits[n] \in Nat /\ Waits[n + 1] \in Nat
    BY WaitsAddUp
  <2>2. Delay(n + 1) \in Nat /\ Timeout \in Nat
    BY Delays, PacingConstants
  <2>3. CASE m = n + 1
    BY <2>1, <2>3
  <2>4. CASE m <= n
    BY <1>2, <2>1, <2>2, <2>4
  <2> QED
    BY <2>3, <2>4
<1> HIDE DEF S
<1>3. Nat \subseteq S
  BY <1>1, <1>2, EveryNatural
<1> QED
  BY <1>3 DEF S

---------------------------------------------------------------------------
(* Of the first attempts: those since a time, and those of the period      *)
(* before it.                                                              *)
FirstsSince(start) == {s \in sent : s[2] = 1 /\ s[3] >= start}

FirstsBefore(start) == {s \in sent : s[2] = 1 /\ s[3] < start /\ s[3] + Period > start}

(* The window counts its first attempts, and the period before it saw      *)
(* fewer than a window's worth, since its first one is out of reach.       *)
WindowCounts ==
    /\ quotaWindow.count = 0 => \A s \in sent : s[2] # 1
    /\ quotaWindow.count > 0 => \E s \in sent : s[2] = 1 /\ s[3] = quotaWindow.start
    /\ \A s \in sent : s[2] = 1 => s[3] < quotaWindow.start + Period
    /\ Cardinality(FirstsSince(quotaWindow.start)) = quotaWindow.count
    /\ Cardinality(FirstsBefore(quotaWindow.start)) < MaxRequests

(* A dispatch has sent nothing before it is admitted; no stage of it       *)
(* outlasts its timer, and none begins later than the ones before allow.   *)
OnTime ==
    \A d \in Dispatches :
        /\ dispatch[d].at = "idle" => \A s \in sent : s[1] # d
        /\ dispatch[d].at = "attempt" =>
              /\ dispatch[d].tries >= 1
              /\ dispatch[d].since <= dispatch[d].begun + Waits[dispatch[d].tries - 1]
              /\ now <= dispatch[d].since + Timeout
        /\ dispatch[d].at = "backoff" =>
              /\ dispatch[d].tries >= 1 /\ dispatch[d].tries < Attempts
              /\ dispatch[d].since
                    <= dispatch[d].begun + Waits[dispatch[d].tries - 1] + Timeout
              /\ now <= dispatch[d].since + Delay(dispatch[d].tries)

PacingInv ==
    /\ PacingTypeOK /\ IsFiniteSet(sent) /\ WindowCounts /\ OnTime /\ BurstBounded

LEMMA PacingTypes ==
    ASSUME PacingTypeOK
    PROVE  /\ now \in Nat /\ quotaWindow.start \in Nat /\ quotaWindow.count \in Nat
           /\ quotaWindow.start <= now /\ quotaWindow.count <= MaxRequests
           /\ \A s \in sent : /\ s \in Dispatches \X (1..Attempts) \X (0..now)
                              /\ s[1] \in Dispatches /\ s[2] \in Nat
                              /\ s[3] \in Nat /\ s[3] <= now
           /\ \A d \in Dispatches :
                 /\ dispatch[d].at \in {"idle", "attempt", "backoff", "ended", "limited"}
                 /\ dispatch[d].tries \in Nat /\ dispatch[d].tries <= Attempts
                 /\ dispatch[d].since \in Nat /\ dispatch[d].since <= now
                 /\ dispatch[d].begun \in Nat /\ dispatch[d].begun <= now
<1>1. now \in Nat
  BY PacingConstants DEF PacingTypeOK
<1>2. /\ quotaWindow.start \in Nat /\ quotaWindow.count \in Nat
      /\ quotaWindow.start <= now /\ quotaWindow.count <= MaxRequests
  BY <1>1, PacingConstants DEF PacingTypeOK
<1>3. ASSUME NEW s \in sent
      PROVE  /\ s \in Dispatches \X (1..Attempts) \X (0..now)
             /\ s[1] \in Dispatches /\ s[2] \in Nat /\ s[3] \in Nat /\ s[3] <= now
  BY <1>1, PacingConstants DEF PacingTypeOK
<1>4. ASSUME NEW d \in Dispatches
      PROVE  /\ dispatch[d].at \in {"idle", "attempt", "backoff", "ended", "limited"}
             /\ dispatch[d].tries \in Nat /\ dispatch[d].tries <= Attempts
             /\ dispatch[d].since \in Nat /\ dispatch[d].since <= now
             /\ dispatch[d].begun \in Nat /\ dispatch[d].begun <= now
  BY <1>1, PacingConstants DEF PacingTypeOK
<1> QED
  BY <1>1, <1>2, <1>3, <1>4

(* Two windows let through fewer than twice the limit if one falls short.  *)
LEMMA TwoWindows ==
    ASSUME NEW S, IsFiniteSet(S), NEW A \in SUBSET S, NEW B \in SUBSET S, A \cap B = {},
           Cardinality(A) <= MaxRequests, Cardinality(B) < MaxRequests,
           NEW C \in SUBSET (A \cup B)
    PROVE  Cardinality(C) < 2 * MaxRequests
<1>1. /\ IsFiniteSet(A) /\ IsFiniteSet(B) /\ IsFiniteSet(A \cup B)
      /\ Cardinality(A) \in Nat /\ Cardinality(B) \in Nat
  BY FS_Subset, FS_CardinalityType, FS_Union
<1>2. Cardinality(A \cup B) = Cardinality(A) + Cardinality(B) - Cardinality({})
  BY <1>1, FS_Union
<1>3. Cardinality({}) = 0
  BY FS_EmptySet
<1>4. Cardinality(C) \in Nat /\ Cardinality(C) <= Cardinality(A \cup B)
  BY <1>1, FS_Subset, FS_CardinalityType
<1> QED
  BY <1>1, <1>2, <1>3, <1>4, PacingConstants

LEMMA PacingInitially == PacingInit => PacingInv
<1> SUFFICES ASSUME PacingInit PROVE PacingInv
  OBVIOUS
<1> USE DEF PacingInit
<1>1. PacingTypeOK
  BY PacingConstants DEF PacingTypeOK
<1>2. IsFiniteSet({}) /\ Cardinality({}) = 0
  BY FS_EmptySet
<1>3. \A n \in Nat : FirstsSince(n) = {} /\ FirstsBefore(n) = {} /\ AdmittedFrom(n) = {}
  BY DEF FirstsSince, FirstsBefore, AdmittedFrom
<1>4. WindowCounts
  BY <1>2, <1>3, PacingConstants DEF WindowCounts
<1>5. OnTime
  BY DEF OnTime
<1>6. BurstBounded
  BY <1>2, <1>3, PacingConstants DEF BurstBounded
<1> QED
  BY <1>1, <1>2, <1>4, <1>5, <1>6 DEF PacingInv

(* What was sent a period ago stays as it was.                             *)
LEMMA BurstsStep ==
    ASSUME PacingInv, PacingTypeOK', IsFiniteSet(sent'), WindowCounts',
           now <= now', \A s \in sent' \ sent : s[3] = now',
           sent \subseteq sent', now' \in {now, now + 1}
    PROVE  BurstBounded'
<1> SUFFICES ASSUME NEW t \in 0..now' PROVE Cardinality(AdmittedFrom(t)') < 2 * MaxRequests
  BY DEF BurstBounded
<1>0. now \in Nat /\ now' \in Nat /\ t \in Nat /\ Period \in Nat \ {0}
  BY PacingTypes, PacingConstants DEF PacingInv
<1>1. CASE t + Period > now'
  <2> DEFINE A == FirstsSince(quotaWindow.start)'
             B == FirstsBefore(quotaWindow.start)'
             C == AdmittedFrom(t)'
  <2>1. \A s \in sent' : s[3] \in Nat
    BY <1>0 DEF PacingTypeOK
  <2>2. /\ quotaWindow'.start \in Nat /\ quotaWindow'.start <= now'
        /\ quotaWindow'.count <= MaxRequests
    BY <1>0, PacingConstants DEF PacingTypeOK
  <2>3. A \in SUBSET sent' /\ B \in SUBSET sent' /\ A \cap B = {}
    BY <2>1, <2>2 DEF FirstsSince, FirstsBefore
  <2>4. C \in SUBSET (A \cup B)
    BY <1>0, <1>1, <2>1, <2>2 DEF AdmittedFrom, FirstsSince, FirstsBefore
  <2>5. Cardinality(A) <= MaxRequests /\ Cardinality(B) < MaxRequests
    BY <2>2 DEF WindowCounts
  <2> HIDE DEF A, B, C
  <2>6. Cardinality(C) < 2 * MaxRequests
    BY <2>3, <2>4, <2>5, TwoWindows
  <2> QED
    BY <2>6 DEF C
<1>2. CASE t + Period <= now'
  <2>1. t \in 0..now
    BY <1>0, <1>2
  <2>2. AdmittedFrom(t)' = AdmittedFrom(t)
    BY <1>0, <1>2 DEF AdmittedFrom
  <2> QED
    BY <2>1, <2>2 DEF PacingInv, BurstBounded
<1> QED
  BY <1>0, <1>1, <1>2

---------------------------------------------------------------------------
(* Attempts are timed alike whatever they do.                              *)

(* First attempts are counted; whatever else is sent, or sent later, is    *)
(* not.                                                                    *)
LEMMA SameFirsts ==
    ASSUME PacingInv, UNCHANGED quotaWindow,
           \A s : s \in sent' /\ s[2] = 1 <=> s \in sent /\ s[2] = 1
    PROVE  WindowCounts'
<1>1. /\ FirstsSince(quotaWindow.start)' = FirstsSince(quotaWindow.start)
      /\ FirstsBefore(quotaWindow.start)' = FirstsBefore(quotaWindow.start)
  BY DEF FirstsSince, FirstsBefore
<1> QED
  BY <1>1 DEF PacingInv, WindowCounts

(* An admission starts a window, or is one more in it.                     *)
LEMMA AdmitCounts ==
    ASSUME PacingInv, NEW d \in Dispatches, Admit(d)
    PROVE  WindowCounts'
<1> DEFINE start == quotaWindow.start
           x == <<d, 1, now>>
<1>1. /\ PacingTypeOK /\ IsFiniteSet(sent) /\ WindowCounts /\ OnTime
      /\ now' = now /\ sent' = sent \cup {x}
      /\ x[1] = d /\ x[2] = 1 /\ x[3] = now
      /\ quotaWindow' = [start |-> WindowStart, count |-> WindowCount + 1]
      /\ WindowCount < MaxRequests
  BY DEF PacingInv, Admit, Sends
<1>2. x \notin sent
  BY <1>1 DEF Admit, OnTime
<1>3. /\ now \in Nat /\ start \in Nat /\ start <= now /\ Period \in Nat \ {0}
      /\ quotaWindow.count \in Nat /\ MaxRequests \in Nat \ {0}
      /\ \A s \in sent : s[3] \in Nat /\ s[3] <= now
  BY <1>1, PacingTypes, PacingConstants
<1>4. quotaWindow'.start = WindowStart /\ quotaWindow'.count = WindowCount + 1
  BY <1>1
<1> HIDE DEF x
<1>5. \A n \in Nat : /\ IsFiniteSet(FirstsSince(n)) /\ IsFiniteSet(FirstsBefore(n))
                     /\ Cardinality(FirstsSince(n)) \in Nat
  <2> TAKE n \in Nat
  <2>1. FirstsSince(n) \in SUBSET sent /\ FirstsBefore(n) \in SUBSET sent
    BY DEF FirstsSince, FirstsBefore
  <2> QED
    BY <1>1, <2>1, FS_Subset, FS_CardinalityType
<1>6. CASE quotaWindow.count > 0 /\ now - start < Period
  <2>1. WindowStart = start /\ WindowCount = quotaWindow.count
    BY <1>3, <1>6 DEF WindowStart, WindowCount
  <2>2. FirstsSince(start)' = FirstsSince(start) \cup {x} /\ x \notin FirstsSince(start)
    BY <1>1, <1>2, <1>3, <1>4, <2>1 DEF FirstsSince
  <2>3. FirstsBefore(start)' = FirstsBefore(start)
    BY <1>1, <1>3, <1>4, <2>1 DEF FirstsBefore
  <2>4. Cardinality(FirstsSince(start) \cup {x}) = quotaWindow.count + 1
    <3>1. Cardinality(FirstsSince(start) \cup {x}) = Cardinality(FirstsSince(start)) + 1
      BY <1>3, <1>5, <2>2, FS_AddElement, Zenon
    <3> QED
      BY <1>1, <3>1 DEF WindowCounts
  <2>5. Cardinality(FirstsSince(start)') = quotaWindow'.count
    BY <1>4, <2>1, <2>2, <2>4
  <2>6. Cardinality(FirstsBefore(start)') < MaxRequests
    BY <1>1, <2>3 DEF WindowCounts
  <2>7. \A s \in sent' : s[2] = 1 => s[3] < quotaWindow'.start + Period
    BY <1>1, <1>3, <1>4, <1>6, <2>1 DEF WindowCounts
  <2>8. \E s \in sent' : s[2] = 1 /\ s[3] = quotaWindow'.start
    BY <1>1, <1>4, <1>6, <2>1 DEF WindowCounts
  <2>9. quotaWindow'.count > 0 /\ quotaWindow'.start = start
    BY <1>3, <1>4, <2>1
  <2> QED
    BY <2>5, <2>6, <2>7, <2>8, <2>9 DEF WindowCounts
<1>7. CASE ~(quotaWindow.count > 0 /\ now - start < Period)
  <2>1. WindowStart = now /\ WindowCount = 0
    BY <1>3, <1>7 DEF WindowStart, WindowCount
  <2>2. \A s \in sent : s[2] = 1 => s[3] < now
    BY <1>1, <1>3, <1>7 DEF WindowCounts
  <2>0. quotaWindow'.start = now /\ quotaWindow'.count = 1
    BY <1>4, <2>1
  <2>3. FirstsSince(quotaWindow.start)' = {x}
    BY <1>1, <1>3, <2>0, <2>2 DEF FirstsSince
  <2>4. FirstsBefore(quotaWindow.start)' = FirstsBefore(now)
    BY <1>1, <1>3, <2>0 DEF FirstsBefore
  <2>5. Cardinality({x}) = 1
    BY FS_Singleton
  <2>6. Cardinality(FirstsBefore(now)) < MaxRequests
    <3>1. CASE quotaWindow.count = 0
      <4>1. FirstsBefore(now) = {}
        BY <1>1, <3>1 DEF WindowCounts, FirstsBefore
      <4>2. Cardinality({}) = 0
        BY FS_EmptySet
      <4> QED
        BY <1>3, <4>1, <4>2
    <3>2. CASE quotaWindow.count > 0
      <4>1. PICK s \in sent : s[2] = 1 /\ s[3] = start
        BY <1>1, <3>2 DEF WindowCounts
      <4>2. s \in FirstsSince(start) /\ s \notin FirstsBefore(now)
        BY <1>3, <1>7, <3>2, <4>1 DEF FirstsSince, FirstsBefore
      <4>3. FirstsBefore(now) \in SUBSET FirstsSince(start)
        BY <1>3, <1>7, <3>2 DEF FirstsSince, FirstsBefore
      <4>6. Cardinality(FirstsBefore(now)) \in Nat /\ Cardinality(FirstsSince(start)) \in Nat
        BY <1>3, <1>5, FS_CardinalityType
      <4>4. Cardinality(FirstsBefore(now)) < Cardinality(FirstsSince(start))
        <5>1. FirstsBefore(now) # FirstsSince(start)
          BY <4>2
        <5>2. IsFiniteSet(FirstsSince(start))
          BY <1>3, <1>5
        <5> QED
          BY <4>3, <4>6, <5>1, <5>2, FS_Subset
      <4>5. Cardinality(FirstsSince(start)) <= MaxRequests
        BY <1>1, PacingTypes DEF WindowCounts
      <4> QED
        BY <1>3, <4>4, <4>5, <4>6
    <3> QED
      BY <1>3, <3>1, <3>2
  <2>7. \A s \in sent' : s[2] = 1 => s[3] < now + Period
    BY <1>1, <1>3, <2>2
  <2>8. \E s \in sent' : s[2] = 1 /\ s[3] = now
    BY <1>1
  <2> QED
    BY <2>0, <2>3, <2>4, <2>5, <2>6, <2>7, <2>8 DEF WindowCounts
<1> QED
  BY <1>6, <1>7

LEMMA PacingTypesStep ==
    ASSUME PacingInv, [PacingNext]_pacingVars
    PROVE  /\ PacingTypeOK' /\ IsFiniteSet(sent') /\ sent \subseteq sent'
           /\ now' \in {now, now + 1}
           /\ \A s \in sent' \ sent : s[3] = now'
<1> USE PacingConstants
<1>1. /\ now \in Nat /\ quotaWindow.start \in Nat /\ quotaWindow.count \in Nat
      /\ quotaWindow.start <= now /\ quotaWindow.count <= MaxRequests
      /\ \A d \in Dispatches :
            /\ dispatch[d].tries \in Nat /\ dispatch[d].begun \in Nat
            /\ dispatch[d].begun <= now
      /\ PacingTypeOK /\ IsFiniteSet(sent) /\ now \in 0..MaxTime
  BY PacingTypes DEF PacingInv, PacingTypeOK
<1>2. WindowStart \in 0..now /\ WindowCount \in 0..MaxRequests
  BY <1>1 DEF WindowStart, WindowCount
<1> DEFINE Stage == [at : {"idle", "attempt", "backoff", "ended", "limited"},
                     tries : 0..Attempts, since : 0..now, begun : 0..now]
<1>3. dispatch \in [Dispatches -> Stage]
  BY <1>1 DEF PacingTypeOK
<1>4. ASSUME NEW d \in Dispatches, NEW tries \in 1..Attempts, NEW begun \in 0..now,
             Sends(d, tries, begun), now' = now
      PROVE  /\ dispatch' \in [Dispatches -> Stage]
             /\ sent' \subseteq Dispatches \X (1..Attempts) \X (0..now)
             /\ IsFiniteSet(sent') /\ sent \subseteq sent'
             /\ \A s \in sent' \ sent : s[3] = now'
  <2> DEFINE new == [at |-> "attempt", tries |-> tries, since |-> now, begun |-> begun]
  <2>1. new \in Stage
    BY <1>1
  <2>2. <<d, tries, now>> \in Dispatches \X (1..Attempts) \X (0..now)
    BY <1>1
  <2>3. dispatch' = [dispatch EXCEPT ![d] = new] /\ sent' = sent \cup {<<d, tries, now>>}
    BY <1>4 DEF Sends
  <2>4. IsFiniteSet(sent')
    BY <1>1, <2>3, FS_AddElement
  <2> HIDE DEF new, Stage
  <2> QED
    BY <1>1, <1>3, <1>4, <2>1, <2>2, <2>3, <2>4 DEF PacingTypeOK
<1>5. ASSUME NEW d \in Dispatches,
             NEW stage \in {"idle", "attempt", "backoff", "ended", "limited"},
             Enters(d, stage)
      PROVE  dispatch' \in [Dispatches -> Stage] /\ sent' = sent
  <2>1. dispatch[d] \in Stage
    BY <1>3
  <2>2. [dispatch[d] EXCEPT !.at = stage, !.since = now] \in Stage
    <3>1. now \in 0..now
      BY <1>1
    <3>2. PICK old \in Stage : old = dispatch[d]
      BY <2>1
    <3>3. [old EXCEPT !.at = stage, !.since = now] \in Stage
      BY <3>1
    <3> HIDE DEF Stage
    <3> QED
      BY <3>2, <3>3
  <2>3. dispatch' = [dispatch EXCEPT ![d] = [dispatch[d] EXCEPT !.at = stage, !.since = now]]
    BY <1>3, <1>5 DEF Enters
  <2> HIDE DEF Stage
  <2> QED
    BY <1>3, <1>5, <2>2, <2>3 DEF Enters
<1>6. ASSUME NEW d \in Dispatches, Admit(d)
      PROVE  PacingTypeOK' /\ IsFiniteSet(sent') /\ sent \subseteq sent' /\ now' = now
             /\ \A s \in sent' \ sent : s[3] = now'
  <2>1. Sends(d, 1, now) /\ now' = now /\ 1 \in 1..Attempts /\ now \in 0..now
    BY <1>1, <1>6 DEF Admit
  <2>2. quotaWindow' \in [start : 0..now, count : 0..MaxRequests]
    BY <1>1, <1>2, <1>6 DEF Admit
  <2> QED
    BY <1>1, <1>4, <2>1, <2>2 DEF PacingTypeOK
<1>7. ASSUME NEW d \in Dispatches, Limit(d)
      PROVE  PacingTypeOK' /\ sent' = sent /\ now' = now
  <2>1. Enters(d, "limited") /\ now' = now
    BY <1>7 DEF Limit
  <2>2. quotaWindow' \in [start : 0..now, count : 0..MaxRequests]
    BY <1>1, <1>2, <1>7 DEF Limit
  <2> QED
    BY <1>1, <1>5, <2>1, <2>2 DEF PacingTypeOK
<1>8. ASSUME NEW d \in Dispatches, Succeed(d) \/ Fail(d)
      PROVE  PacingTypeOK' /\ sent' = sent /\ now' = now
  <2>1. now' = now /\ quotaWindow' = quotaWindow
        /\ \E stage \in {"backoff", "ended"} : Enters(d, stage)
    BY <1>8 DEF Succeed, Fail
  <2> QED
    BY <1>1, <1>5, <2>1 DEF PacingTypeOK
<1>9. ASSUME NEW d \in Dispatches, TryAgain(d)
      PROVE  PacingTypeOK' /\ IsFiniteSet(sent') /\ sent \subseteq sent' /\ now' = now
             /\ \A s \in sent' \ sent : s[3] = now'
  <2>1. /\ now' = now /\ quotaWindow' = quotaWindow
        /\ Sends(d, dispatch[d].tries + 1, dispatch[d].begun)
        /\ dispatch[d].at = "backoff"
    BY <1>9 DEF TryAgain
  <2>2. dispatch[d].tries + 1 \in 1..Attempts /\ dispatch[d].begun \in 0..now
    BY <1>1, <2>1 DEF PacingInv, OnTime
  <2> QED
    BY <1>1, <1>4, <2>1, <2>2 DEF PacingTypeOK
<1>10. CASE Tick
  <2>1. /\ now' = now + 1 /\ now < MaxTime /\ quotaWindow' = quotaWindow
        /\ dispatch' = dispatch /\ sent' = sent
    BY <1>10 DEF Tick
  <2>2. now' \in 0..MaxTime /\ 0..now \subseteq 0..now'
    BY <1>1, <2>1
  <2>3. /\ quotaWindow \in [start : 0..now', count : 0..MaxRequests]
        /\ dispatch \in [Dispatches -> [at : {"idle", "attempt", "backoff", "ended", "limited"},
                                        tries : 0..Attempts, since : 0..now', begun : 0..now']]
        /\ sent \subseteq Dispatches \X (1..Attempts) \X (0..now')
    BY <1>1, <2>2 DEF PacingTypeOK
  <2> QED
    BY <1>1, <2>1, <2>2, <2>3 DEF PacingTypeOK
<1>11. CASE UNCHANGED pacingVars
  BY <1>1, <1>11 DEF pacingVars, PacingTypeOK
<1> QED
  BY <1>1, <1>6, <1>7, <1>8, <1>9, <1>10, <1>11 DEF PacingNext

(* Each dispatch is on time, stage by stage.                               *)
LEMMA OnTimeStep ==
    ASSUME PacingInv, [PacingNext]_pacingVars
    PROVE  OnTime'
<1> USE PacingConstants
<1>1. /\ now \in Nat /\ PacingTypeOK /\ OnTime
      /\ dispatch = [d \in Dispatches |-> dispatch[d]]
      /\ \A d \in Dispatches :
            /\ dispatch[d].tries \in Nat /\ dispatch[d].tries <= Attempts
            /\ dispatch[d].since \in Nat /\ dispatch[d].since <= now
            /\ dispatch[d].begun \in Nat /\ dispatch[d].begun <= now
  BY PacingTypes DEF PacingInv, PacingTypeOK
<1> DEFINE Timed(d, at, tries, since, begun, time) ==
              /\ at = "attempt" => /\ tries >= 1
                                   /\ since <= begun + Waits[tries - 1]
                                   /\ time <= since + Timeout
              /\ at = "backoff" => /\ tries >= 1 /\ tries < Attempts
                                   /\ since <= begun + Waits[tries - 1] + Timeout
                                   /\ time <= since + Delay(tries)
<1>2. \A d \in Dispatches : Timed(d, dispatch[d].at, dispatch[d].tries, dispatch[d].since,
                                  dispatch[d].begun, now)
  BY <1>1 DEF OnTime
<1>3. \A d \in Dispatches : dispatch[d].at = "idle" => \A s \in sent : s[1] # d
  BY <1>1 DEF OnTime
<1>4. \A n \in Nat : n >= 1 => /\ Waits[n - 1] \in Nat /\ Waits[n] \in Nat /\ Delay(n) \in Nat
                               /\ Waits[n] = Waits[n - 1] + Timeout + Delay(n)
  <2> SUFFICES ASSUME NEW n \in Nat, n >= 1
               PROVE  /\ Waits[n - 1] \in Nat /\ Waits[n] \in Nat /\ Delay(n) \in Nat
                      /\ Waits[n] = Waits[n - 1] + Timeout + Delay(n)
    OBVIOUS
  <2>1. n - 1 \in Nat /\ (n - 1) + 1 = n /\ n \in Nat \ {0}
    OBVIOUS
  <2>2. Waits[(n - 1) + 1] = Waits[n - 1] + Timeout + Delay((n - 1) + 1)
    BY <2>1, WaitsAddUp
  <2> QED
    BY <2>1, <2>2, WaitsAddUp, Delays
<1> SUFFICES ASSUME NEW d \in Dispatches
             PROVE  /\ Timed(d, dispatch'[d].at, dispatch'[d].tries, dispatch'[d].since,
                             dispatch'[d].begun, now')
                    /\ dispatch'[d].at = "idle" => \A s \in sent' : s[1] # d
  BY DEF OnTime
<1>5. CASE UNCHANGED <<now, sent>> /\ dispatch'[d] = dispatch[d]
  BY <1>2, <1>3, <1>5
<1>6. ASSUME NEW e \in Dispatches, NEW tries, NEW begun, Sends(e, tries, begun)
      PROVE  IF d = e THEN dispatch'[d] = [at |-> "attempt", tries |-> tries,
                                           since |-> now, begun |-> begun]
             ELSE /\ dispatch'[d] = dispatch[d]
                  /\ \A s \in sent' : s[1] = d => s \in sent
  BY <1>1, <1>6 DEF Sends
<1>7. ASSUME NEW e \in Dispatches, NEW stage, Enters(e, stage)
      PROVE  /\ sent' = sent
             /\ IF d = e THEN /\ dispatch'[d].at = stage
                              /\ dispatch'[d].tries = dispatch[d].tries
                              /\ dispatch'[d].since = now
                              /\ dispatch'[d].begun = dispatch[d].begun
                ELSE dispatch'[d] = dispatch[d]
  <2>1. PICK old : /\ old = dispatch[e]
                   /\ old \in [at : {"idle", "attempt", "backoff", "ended", "limited"},
                               tries : 0..Attempts, since : 0..now, begun : 0..now]
    BY <1>1 DEF PacingTypeOK
  <2>2. dispatch' = [dispatch EXCEPT ![e] = [old EXCEPT !.at = stage, !.since = now]]
    BY <1>1, <1>7, <2>1 DEF Enters
  <2>3. sent' = sent
    BY <1>7 DEF Enters
  <2>4. CASE d = e
    BY <1>1, <2>1, <2>2, <2>3, <2>4
  <2>5. CASE d # e
    BY <1>1, <2>2, <2>3, <2>5
  <2> QED
    BY <2>4, <2>5
<1>8. ASSUME NEW e \in Dispatches, Admit(e)
      PROVE  /\ Timed(d, dispatch'[d].at, dispatch'[d].tries, dispatch'[d].since,
                      dispatch'[d].begun, now')
             /\ dispatch'[d].at = "idle" => \A s \in sent' : s[1] # d
  <2>1. Sends(e, 1, now) /\ now' = now
    BY <1>8 DEF Admit
  <2>2. CASE d = e
    <3>1. dispatch'[d] = [at |-> "attempt", tries |-> 1, since |-> now, begun |-> now]
      BY <1>6, <2>1, <2>2
    <3>2. Waits[1 - 1] = 0
      BY WaitsAddUp
    <3> QED
      BY <1>1, <2>1, <3>1, <3>2
  <2>3. CASE d # e
    <3>1. dispatch'[d] = dispatch[d] /\ \A s \in sent' : s[1] = d => s \in sent
      BY <1>6, <2>1, <2>3
    <3> QED
      BY <1>2, <1>3, <2>1, <3>1
  <2> QED
    BY <2>2, <2>3
<1>9. ASSUME NEW e \in Dispatches, Limit(e)
      PROVE  /\ Timed(d, dispatch'[d].at, dispatch'[d].tries, dispatch'[d].since,
                      dispatch'[d].begun, now')
             /\ dispatch'[d].at = "idle" => \A s \in sent' : s[1] # d
  <2>1. Enters(e, "limited") /\ now' = now
    BY <1>9 DEF Limit
  <2> QED
    BY <1>2, <1>3, <1>7, <2>1
<1>10. ASSUME NEW e \in Dispatches, Succeed(e)
       PROVE  /\ Timed(d, dispatch'[d].at, dispatch'[d].tries, dispatch'[d].since,
                       dispatch'[d].begun, now')
              /\ dispatch'[d].at = "idle" => \A s \in sent' : s[1] # d
  <2>1. Enters(e, "ended") /\ now' = now
    BY <1>10 DEF Succeed
  <2> QED
    BY <1>2, <1>3, <1>7, <2>1
<1>11. ASSUME NEW e \in Dispatches, Fail(e)
       PROVE  /\ Timed(d, dispatch'[d].at, dispatch'[d].tries, dispatch'[d].since,
                       dispatch'[d].begun, now')
              /\ dispatch'[d].at = "idle" => \A s \in sent' : s[1] # d
  <2> DEFINE stage == IF dispatch[e].tries < Attempts THEN "backoff" ELSE "ended"
  <2>1. Enters(e, stage) /\ now' = now /\ dispatch[e].at = "attempt"
    BY <1>11 DEF Fail
  <2>2. CASE d = e
    <3>1. /\ dispatch'[d].at = stage /\ dispatch'[d].tries = dispatch[d].tries
          /\ dispatch'[d].since = now /\ dispatch'[d].begun = dispatch[d].begun
      BY <1>7, <2>1, <2>2
    <3>2. /\ dispatch[d].tries >= 1 /\ now <= dispatch[d].since + Timeout
          /\ dispatch[d].since <= dispatch[d].begun + Waits[dispatch[d].tries - 1]
      BY <1>2, <2>1, <2>2
    <3>3. Waits[dispatch[d].tries - 1] \in Nat /\ Delay(dispatch[d].tries) \in Nat
      BY <1>1, <1>4, <3>2
    <3>4. now <= dispatch[d].begun + Waits[dispatch[d].tries - 1] + Timeout
      BY <1>1, <3>2, <3>3
    <3>5. now' <= dispatch'[d].since + Delay(dispatch[d].tries)
      BY <1>1, <2>1, <3>1, <3>3
    <3>6. stage = "backoff" => dispatch[d].tries < Attempts
      BY <2>2
    <3>7. stage \in {"backoff", "ended"}
      OBVIOUS
    <3> HIDE DEF stage
    <3> QED
      BY <3>1, <3>2, <3>4, <3>5, <3>6, <3>7
  <2>3. CASE d # e
    <3>1. dispatch'[d] = dispatch[d] /\ sent' = sent
      BY <1>7, <2>1, <2>3
    <3> QED
      BY <1>2, <1>3, <2>1, <3>1
  <2> QED
    BY <2>2, <2>3
<1>12. ASSUME NEW e \in Dispatches, TryAgain(e)
       PROVE  /\ Timed(d, dispatch'[d].at, dispatch'[d].tries, dispatch'[d].since,
                       dispatch'[d].begun, now')
              /\ dispatch'[d].at = "idle" => \A s \in sent' : s[1] # d
  <2>1. /\ Sends(e, dispatch[e].tries + 1, dispatch[e].begun) /\ now' = now
        /\ dispatch[e].at = "backoff"
    BY <1>12 DEF TryAgain
  <2>2. CASE d = e
    <3>1. dispatch'[d] = [at |-> "attempt", tries |-> dispatch[d].tries + 1,
                          since |-> now, begun |-> dispatch[d].begun]
      BY <1>6, <2>1, <2>2
    <3>2. /\ dispatch[d].tries >= 1 /\ now <= dispatch[d].since + Delay(dispatch[d].tries)
          /\ dispatch[d].since
                <= dispatch[d].begun + Waits[dispatch[d].tries - 1] + Timeout
      BY <1>2, <2>1, <2>2
    <3>3. /\ Waits[dispatch[d].tries - 1] \in Nat /\ Delay(dispatch[d].tries) \in Nat
          /\ Waits[dispatch[d].tries] \in Nat
          /\ Waits[dispatch[d].tries]
                = Waits[dispatch[d].tries - 1] + Timeout + Delay(dispatch[d].tries)
      BY <1>1, <1>4, <3>2
    <3>4. now <= dispatch[d].begun + Waits[dispatch[d].tries]
      BY <1>1, <3>2, <3>3
    <3>5. (dispatch[d].tries + 1) - 1 = dispatch[d].tries
      BY <1>1
    <3> QED
      BY <1>1, <2>1, <3>1, <3>4, <3>5
  <2>3. CASE d # e
    <3>1. dispatch'[d] = dispatch[d] /\ \A s \in sent' : s[1] = d => s \in sent
      BY <1>6, <2>1, <2>3
    <3> QED
      BY <1>2, <1>3, <2>1, <3>1
  <2> QED
    BY <2>2, <2>3
<1>13. CASE Tick
  <2>1. now' = now + 1 /\ dispatch' = dispatch /\ sent' = sent /\ ~Due(d)
    BY <1>13 DEF Tick
  <2>2. dispatch[d].at = "attempt" => now + 1 <= dispatch[d].since + Timeout
    BY <1>1, <1>2, <2>1 DEF Due
  <2>3. dispatch[d].at = "backoff" => now + 1 <= dispatch[d].since + Delay(dispatch[d].tries)
    <3> SUFFICES ASSUME dispatch[d].at = "backoff"
                 PROVE  now + 1 <= dispatch[d].since + Delay(dispatch[d].tries)
      OBVIOUS
    <3>1. /\ dispatch[d].tries >= 1 /\ now <= dispatch[d].since + Delay(dispatch[d].tries)
          /\ now # dispatch[d].since + Delay(dispatch[d].tries)
      BY <1>2, <2>1 DEF Due
    <3>2. Delay(dispatch[d].tries) \in Nat
      BY <1>1, <1>4, <3>1
    <3> QED
      BY <1>1, <3>1, <3>2
  <2> QED
    BY <1>2, <1>3, <2>1, <2>2, <2>3
<1> HIDE DEF Timed
<1>14. CASE UNCHANGED pacingVars
  BY <1>5, <1>14 DEF pacingVars
<1> QED
  BY <1>8, <1>9, <1>10, <1>11, <1>12, <1>13, <1>14 DEF PacingNext

LEMMA PacingStep == PacingInv /\ [PacingNext]_pacingVars => PacingInv'
<1> SUFFICES ASSUME PacingInv, [PacingNext]_pacingVars PROVE PacingInv'
  OBVIOUS
<1>1. /\ PacingTypeOK' /\ IsFiniteSet(sent') /\ sent \subseteq sent'
      /\ now' \in {now, now + 1}
      /\ \A s \in sent' \ sent : s[3] = now'
  BY PacingTypesStep
<1>2. now <= now'
  BY <1>1, PacingTypes DEF PacingInv
<1>3. WindowCounts'
  <2>1. ASSUME NEW d \in Dispatches, Limit(d) PROVE UNCHANGED <<quotaWindow, sent>>
    <3>1. /\ WindowCount >= MaxRequests /\ MaxRequests \in Nat \ {0}
          /\ quotaWindow' = [start |-> WindowStart, count |-> WindowCount]
          /\ sent' = sent
      BY <2>1, PacingConstants DEF Limit, Enters
    <3>2. WindowStart = quotaWindow.start /\ WindowCount = quotaWindow.count
      BY <3>1 DEF WindowCount
    <3>3. quotaWindow = [start |-> quotaWindow.start, count |-> quotaWindow.count]
      BY DEF PacingInv, PacingTypeOK
    <3> QED
      BY <3>1, <3>2, <3>3
  <2>2. ASSUME NEW d \in Dispatches, Succeed(d) \/ Fail(d) PROVE UNCHANGED <<quotaWindow, sent>>
    BY <2>2 DEF Succeed, Fail, Enters
  <2>3. ASSUME NEW d \in Dispatches, TryAgain(d)
        PROVE  /\ UNCHANGED quotaWindow
               /\ \A s : s \in sent' /\ s[2] = 1 <=> s \in sent /\ s[2] = 1
    <3>1. /\ UNCHANGED quotaWindow
          /\ sent' = sent \cup {<<d, dispatch[d].tries + 1, now>>}
      BY <2>3 DEF TryAgain, Sends
    <3>2. dispatch[d].tries + 1 # 1
      BY <2>3, PacingTypes DEF TryAgain, PacingInv, OnTime
    <3> QED
      BY <3>1, <3>2
  <2>4. CASE Tick \/ UNCHANGED pacingVars
    BY <2>4, SameFirsts DEF Tick, pacingVars
  <2> QED
    BY <2>1, <2>2, <2>3, <2>4, SameFirsts, AdmitCounts DEF PacingNext
<1> QED
  BY <1>1, <1>2, <1>3, OnTimeStep, BurstsStep DEF PacingInv

(* Every dispatch is on time, and the windows let through what they count. *)
THEOREM PacingInvariance == PacingSpec => []PacingInv
<1> QED
  BY PacingInitially, PacingStep, PTL DEF PacingSpec

(* Any stretch of one period, wherever it begins, sees fewer than twice    *)
(* max_requests requests let through by the rate limiter.                  *)
THEOREM Bursts == PacingSpec => []BurstBounded
<1>1. PacingInv => BurstBounded
  BY DEF PacingInv
<1> QED
  BY <1>1, PacingInvariance, PTL

(* No caller waits longer than all attempts and the sleeps between them.   *)
THEOREM Waiting == PacingSpec => []WaitBounded
<1>1. PacingInv => WaitBounded
  <2> SUFFICES ASSUME PacingInv, NEW d \in Dispatches,
                      dispatch[d].at \in {"attempt", "backoff"}
               PROVE  now <= dispatch[d].begun + Deadline
    BY DEF WaitBounded
  <2> DEFINE n == dispatch[d].tries
  <2>1. /\ now \in Nat /\ n \in Nat /\ n <= Attempts /\ n >= 1
        /\ dispatch[d].since \in Nat /\ dispatch[d].begun \in Nat
        /\ Attempts \in Nat /\ Timeout \in Nat
    BY PacingTypes, PacingConstants DEF PacingInv, OnTime
  <2>2. n - 1 \in Nat /\ Attempts - 1 \in Nat /\ n - 1 <= Attempts - 1 /\ (n - 1) + 1 = n
    BY <2>1
  <2> HIDE DEF n
  <2>3. /\ Waits[n - 1] \in Nat /\ Waits[Attempts - 1] \in Nat
        /\ Waits[n - 1] <= Waits[Attempts - 1]
    BY <2>2, WaitsAddUp, WaitsGrow
  <2>4. CASE dispatch[d].at = "attempt"
    <3>1. dispatch[d].since <= dispatch[d].begun + Waits[n - 1] /\ now <= dispatch[d].since + Timeout
      BY <2>4 DEF PacingInv, OnTime, n
    <3> QED
      BY <2>1, <2>3, <3>1 DEF Deadline
  <2>5. CASE dispatch[d].at = "backoff"
    <3>1. /\ dispatch[d].since <= dispatch[d].begun + Waits[n - 1] + Timeout
          /\ now <= dispatch[d].since + Delay(n) /\ n < Attempts
      BY <2>5 DEF PacingInv, OnTime, n
    <3>2. Waits[(n - 1) + 1] = Waits[n - 1] + Timeout + Delay((n - 1) + 1)
      BY <2>2, WaitsAddUp
    <3>3. Waits[n] \in Nat /\ Waits[n] = Waits[n - 1] + Timeout + Delay(n)
      BY <2>1, <2>2, <3>2, WaitsAddUp
    <3>4. n <= Attempts - 1
      BY <2>1, <3>1
    <3>5. Waits[n] <= Waits[Attempts - 1]
      BY <2>1, <2>2, <3>4, WaitsGrow
    <3>6. Delay(n) \in Nat
      BY <2>1, Delays
    <3> QED
      BY <2>1, <2>3, <3>1, <3>3, <3>5, <3>6 DEF Deadline
  <2> QED
    BY <2>4, <2>5
<1> QED
  BY <1>1, PacingInvariance, PTL
===========================================================================
