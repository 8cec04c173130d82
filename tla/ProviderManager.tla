-------------------------- MODULE ProviderManager --------------------------
(***************************************************************************)
(* ProviderManager with the parts it composes: registry, cache, breaker,   *)
(* rate limiter, retries, health, statistics and the last-good fallback,   *)
(* under concurrent requests.                                              *)
(*                                                                         *)
(* The code runs on one asyncio loop, so an action is the code between two *)
(* points where a coroutine really waits: the adapter call under wait_for, *)
(* the backoff sleep, and the start of a gather task.  InMemoryProvider-   *)
(* Cache never waits.  Dispatch <<r, p>> is request r reaching provider p. *)
(***************************************************************************)
EXTENDS ProviderControls, FiniteSets

CONSTANTS Providers, Requests,
          Keys,            \* operation and arguments, the rest of a cache key
          Cached,          \* providers cached: manager has a cache, CacheConfig.enabled
          EnableFallback,
          Quota,           \* RateLimitConfig.max_requests of each provider
          MaxAttempts,     \* RetryConfig.max_attempts of each provider
          Administered     \* providers whose registration changes at run time

ASSUME ManagerAssumption ==
    /\ IsFiniteSet(Requests)
    /\ Keys # {}
    /\ Cached \subseteq Providers
    /\ Administered \subseteq Providers
    /\ EnableFallback \in BOOLEAN
    /\ Quota \in [Providers -> (Nat \ {0}) \cup {Unlimited}]
    /\ MaxAttempts \in [Providers -> Nat \ {0}]

VARIABLES registry,   \* ProviderRegistry._registrations
          breaker, health, window,
          cache,      \* cache[p][k]; an entry holding None reads as a miss: "absent"
          lastGood,   \* cache_key in _last_good
          stats,
          request,    \* the caller: what it asked for
          call        \* call[r][p]: where dispatch <<r, p>> stands

vars == <<registry, breaker, health, window, cache, lastGood, stats, request, call>>

Counters == {"hits", "misses", "rejected", "limited", "retried",
             "successful", "failed", "fallbackUsed"}

(* Stages of a dispatch.  Ended says how it returned or what it raised.    *)
InFlight == {"attempt", "backoff"}
Contributed == {"hit", "ok", "fallback"}
Raised == {"unknown", "open", "limited", "failed"}
Ended == Contributed \cup Raised \cup {"unstarted", "cancelled"}
Stages == {"idle", "scheduled"} \cup InFlight \cup Ended

Init ==
    /\ registry \in [Providers -> {"enabled", "disabled"}]
    /\ \A p \in Providers \ Administered : registry[p] = "enabled"
    /\ breaker  = [p \in Providers |-> NewBreaker]
    /\ health   = [p \in Providers |-> NewHealth]
    /\ window   = [p \in Providers |-> NewWindow]
    /\ cache    = [p \in Providers |-> [k \in Keys |-> "absent"]]
    /\ lastGood = [p \in Providers |-> [k \in Keys |-> FALSE]]
    /\ stats    = [p \in Providers |-> [c \in Counters |-> 0]]
    /\ request  = [r \in Requests |-> [kind |-> "new", key |-> CHOOSE k \in Keys : TRUE,
                                       answered |-> FALSE]]
    /\ call     = [r \in Requests |-> [p \in Providers |-> [at |-> "idle", tries |-> 0]]]

---------------------------------------------------------------------------
(* Effects shared by the actions.                                          *)

Goes(r, p, stage, tries) ==
    call' = [call EXCEPT ![r][p] = [at |-> stage, tries |-> tries]]

Count(p, which) ==
    stats' = [stats EXCEPT ![p] =
                [c \in Counters |-> IF c \in which THEN @[c] + 1 ELSE @[c]]]

(* The cache lookup: counted only when the cache is consulted at all.      *)
Missed(p) == IF p \in Cached THEN {"misses"} ELSE {}

Hit(p, k) == p \in Cached /\ cache[p][k] = "live"

(* InMemoryProviderCache.get drops an expired entry.                       *)
Purged(p, k) ==
    IF p \in Cached /\ cache[p][k] = "expired"
    THEN [cache EXCEPT ![p][k] = "absent"] ELSE cache

(* Wrong variant: a fallback that lives only as long as the cache entry.   *)
FallbackNeedsCache(p, k) == EnableFallback /\ lastGood[p][k] /\ cache[p][k] # "absent"

(* _try_fallback: the stage a dispatch ends in instead of raising.         *)
HasFallback(p, k) == EnableFallback /\ lastGood[p][k]

OrFallback(p, k, raised) == IF HasFallback(p, k) THEN "fallback" ELSE raised

FallbackCount(p, k) == IF HasFallback(p, k) THEN {"fallbackUsed"} ELSE {}

---------------------------------------------------------------------------
(* _dispatch, from its entry to its first wait, for key k.                 *)

UnknownProvider(r, p) ==
    /\ registry[p] = "absent"
    /\ Goes(r, p, "unknown", 0)
    /\ UNCHANGED <<breaker, window, cache, stats>>

CacheHit(r, p, k) ==
    /\ registry[p] # "absent"
    /\ Hit(p, k)
    /\ Count(p, {"hits"})
    /\ Goes(r, p, "hit", 0)
    /\ UNCHANGED <<breaker, window, cache>>

(* Past the cache, the breaker is read, which may make it HALF_OPEN.       *)
PastCache(p, k) ==
    /\ registry[p] # "absent"
    /\ ~Hit(p, k)
    /\ cache' = Purged(p, k)
    /\ breaker' = [breaker EXCEPT ![p] = Observed(@)]

BreakerRejects(r, p, k) ==
    /\ PastCache(p, k)
    /\ ~AllowsCall(breaker[p])
    /\ Count(p, Missed(p) \cup {"rejected"} \cup FallbackCount(p, k))
    /\ Goes(r, p, OrFallback(p, k, "open"), 0)
    /\ UNCHANGED window

(* No fallback here: ProviderRateLimitExceededError always reaches the     *)
(* caller, and neither health nor breaker hears of it.                     *)
QuotaRejects(r, p, k) ==
    /\ PastCache(p, k)
    /\ AllowsCall(breaker[p])
    /\ ~WithinQuota(window[p], Quota[p])
    /\ window' = [window EXCEPT ![p] = WindowAfterAllow(@, Quota[p])]
    /\ Count(p, Missed(p) \cup {"limited"})
    /\ Goes(r, p, "limited", 0)

CallsAdapter(r, p, k) ==
    /\ PastCache(p, k)
    /\ AllowsCall(breaker[p])
    /\ WithinQuota(window[p], Quota[p])
    /\ window' = [window EXCEPT ![p] = WindowAfterAllow(@, Quota[p])]
    /\ Count(p, Missed(p))
    /\ Goes(r, p, "attempt", 1)

Dispatch(r, p, k) ==
    /\ \/ UnknownProvider(r, p)
       \/ CacheHit(r, p, k)
       \/ BreakerRejects(r, p, k)
       \/ QuotaRejects(r, p, k)
       \/ CallsAdapter(r, p, k)
    /\ UNCHANGED <<registry, health, lastGood>>

---------------------------------------------------------------------------
(* The caller's operations.                                                *)

(* get_anime_detail, get_episodes, ...: one named provider, dispatched in  *)
(* the caller's own coroutine.                                             *)
Directed(r, p, k) ==
    /\ request[r].kind = "new"
    /\ request' = [request EXCEPT ![r] = [kind |-> "directed", key |-> k,
                                          answered |-> FALSE]]
    /\ Dispatch(r, p, k)

(* ProviderRegistry.list_enabled, without its order.                       *)
ListEnabled == {p \in Providers : registry[p] = "enabled"}

(* Providers a fan-out picks when the caller names none.                   *)
DefaultTargets ==
    {p \in ListEnabled : Available(health[p])}

(* search, get_latest, get_popular: the targets are fixed now, and each    *)
(* gets a task that runs later.  Named providers are taken as given.       *)
FanOut(r, kind, targets, k) ==
    /\ request[r].kind = "new"
    /\ request' = [request EXCEPT ![r] = [kind |-> kind, key |-> k,
                                          answered |-> FALSE]]
    /\ call' = [call EXCEPT ![r] =
                   [p \in Providers |-> IF p \in targets
                                        THEN [@[p] EXCEPT !.at = "scheduled"]
                                        ELSE @[p]]]
    /\ UNCHANGED <<registry, breaker, health, window, cache, lastGood, stats>>

FanOutDefault(r, k) == FanOut(r, "default", DefaultTargets, k)

FanOutNamed(r, S, k) == FanOut(r, "named", S, k)

TaskStarts(r, p) ==
    /\ call[r][p].at = "scheduled"
    /\ Dispatch(r, p, request[r].key)
    /\ UNCHANGED request

---------------------------------------------------------------------------
(* RetryPolicy.run and the end of _dispatch.                               *)

(* Wrong variant: only the cache keeps what was answered.                  *)
SuccessForgetsLastGood(r, p, v) ==
    LET k == request[r].key
    IN  /\ call[r][p].at = "attempt"
        /\ v = "none" => request[r].kind = "directed"
        /\ health'  = [health  EXCEPT ![p] = HealthAfterSuccess(@)]
        /\ breaker' = [breaker EXCEPT ![p] = BreakerAfterSuccess(@)]
        /\ Count(p, {"successful"})
        /\ cache' = IF p \in Cached THEN [cache EXCEPT ![p][k] = "live"] ELSE cache
        /\ Goes(r, p, "ok", call[r][p].tries)
        /\ UNCHANGED <<registry, window, request, lastGood>>

(* The adapter answers in time.  Only a directed operation can answer None *)
(* (get_anime_detail); _last_good keeps it, the cache reads it as a miss.  *)
AttemptSucceeds(r, p, v) ==
    LET k == request[r].key
    IN  /\ call[r][p].at = "attempt"
        /\ v = "none" => request[r].kind = "directed"
        /\ health'  = [health  EXCEPT ![p] = HealthAfterSuccess(@)]
        /\ breaker' = [breaker EXCEPT ![p] = BreakerAfterSuccess(@)]
        /\ Count(p, {"successful"})
        /\ lastGood' = [lastGood EXCEPT ![p][k] = @ \/ EnableFallback]
        /\ cache' = IF p \in Cached
                    THEN [cache EXCEPT ![p][k] = IF v = "none" THEN "absent" ELSE "live"]
                    ELSE cache
        /\ Goes(r, p, "ok", call[r][p].tries)
        /\ UNCHANGED <<registry, window, request>>

(* It raises or exceeds timeout_seconds, and attempts are left: sleep.     *)
AttemptFails(r, p) ==
    /\ call[r][p].at = "attempt"
    /\ call[r][p].tries < MaxAttempts[p]
    /\ Count(p, {"retried"})
    /\ Goes(r, p, "backoff", call[r][p].tries)
    /\ UNCHANGED <<registry, breaker, health, window, cache, lastGood, request>>

(* The backoff is over.  Neither breaker nor quota is asked again.         *)
Retry(r, p) ==
    /\ call[r][p].at = "backoff"
    /\ Goes(r, p, "attempt", call[r][p].tries + 1)
    /\ UNCHANGED <<registry, breaker, health, window, cache, lastGood, stats, request>>

(* Wrong variant: a failure served from the fallback is not recorded.      *)
FallbackHidesFailure(r, p) ==
    LET k == request[r].key
    IN  /\ call[r][p].at = "attempt"
        /\ call[r][p].tries = MaxAttempts[p]
        /\ health' = IF HasFallback(p, k) THEN health
                     ELSE [health EXCEPT ![p] = HealthAfterFailure(@)]
        /\ breaker' = [breaker EXCEPT ![p] = BreakerAfterFailure(@)]
        /\ Count(p, FallbackCount(p, k))
        /\ Goes(r, p, OrFallback(p, k, "failed"), call[r][p].tries)
        /\ UNCHANGED <<registry, window, cache, lastGood, request>>

LastAttemptFails(r, p) ==
    LET k == request[r].key
    IN  /\ call[r][p].at = "attempt"
        /\ call[r][p].tries = MaxAttempts[p]
        /\ health'  = [health  EXCEPT ![p] = HealthAfterFailure(@)]
        /\ breaker' = [breaker EXCEPT ![p] = BreakerAfterFailure(@)]
        /\ Count(p, {"failed"} \cup FallbackCount(p, k))
        /\ Goes(r, p, OrFallback(p, k, "failed"), call[r][p].tries)
        /\ UNCHANGED <<registry, window, cache, lastGood, request>>

(* Wrong variant: counts the answers that arrive instead of the tasks.     *)
GatherAwaitsValues(r) ==
    /\ request[r].kind \in {"default", "named"}
    /\ ~request[r].answered
    /\ \A p \in Providers : call[r][p].at \in Contributed \cup {"idle"}
    /\ request' = [request EXCEPT ![r].answered = TRUE]
    /\ UNCHANGED <<registry, breaker, health, window, cache, lastGood, stats, call>>

(* gather resumes the caller once every task has ended; what a task raised *)
(* is dropped (return_exceptions), the rest is concatenated.               *)
Gather(r) ==
    /\ request[r].kind \in {"default", "named"}
    /\ ~request[r].answered
    /\ \A p \in Providers : call[r][p].at \in Ended \cup {"idle"}
    /\ request' = [request EXCEPT ![r].answered = TRUE]
    /\ UNCHANGED <<registry, breaker, health, window, cache, lastGood, stats, call>>

(* The caller is cancelled (client gone, shutdown), and with it every task *)
(* of its gather; CancelledError skips _dispatch's bookkeeping.            *)
Cancel(r) ==
    LET Left(p) == CASE call[r][p].at = "scheduled" -> "unstarted"
                     [] call[r][p].at \in InFlight  -> "cancelled"
                     [] OTHER                       -> call[r][p].at
    IN  /\ \E p \in Providers : Left(p) # call[r][p].at
        /\ call' = [call EXCEPT ![r] =
                       [p \in Providers |-> [@[p] EXCEPT !.at = Left(p)]]]
        /\ request' = [request EXCEPT ![r].answered = TRUE]
        /\ UNCHANGED <<registry, breaker, health, window, cache, lastGood, stats>>

---------------------------------------------------------------------------
(* Administration: register, unregister, enable, disable, invalidate.      *)
(* Unregistering keeps the provider's breaker, health, window and values.  *)

Administer(p, from, to) ==
    /\ p \in Administered
    /\ registry[p] \in from
    /\ registry' = [registry EXCEPT ![p] = to]
    /\ UNCHANGED <<breaker, health, window, cache, lastGood, stats, request, call>>

Register(p)   == \E to \in {"enabled", "disabled"} : Administer(p, {"absent"}, to)
Unregister(p) == Administer(p, {"enabled", "disabled"}, "absent")
Enable(p)     == Administer(p, {"disabled"}, "enabled")
Disable(p)    == Administer(p, {"enabled"}, "disabled")

(* invalidate_cache: one key.  invalidate_provider_cache: all of them.     *)
Invalidate(p, S) ==
    /\ \E k \in S : cache[p][k] # "absent"
    /\ cache' = [cache EXCEPT ![p] =
                    [k \in Keys |-> IF k \in S THEN "absent" ELSE @[k]]]
    /\ UNCHANGED <<registry, breaker, health, window, lastGood, stats, request, call>>

---------------------------------------------------------------------------
(* The clock.                                                              *)

CooldownElapses(p) ==
    /\ breaker[p].opened = "recent"
    /\ breaker' = [breaker EXCEPT ![p] = CooledDown(@)]
    /\ UNCHANGED <<registry, health, window, cache, lastGood, stats, request, call>>

WindowElapses(p) ==
    /\ window[p].count > 0 /\ ~window[p].over
    /\ window' = [window EXCEPT ![p] = WindowOver(@)]
    /\ UNCHANGED <<registry, breaker, health, cache, lastGood, stats, request, call>>

EntryExpires(p, k) ==
    /\ cache[p][k] = "live"
    /\ cache' = [cache EXCEPT ![p][k] = "expired"]
    /\ UNCHANGED <<registry, breaker, health, window, lastGood, stats, request, call>>

---------------------------------------------------------------------------
AttemptEnds(r, p) ==
    \/ \E v \in {"value", "none"} : AttemptSucceeds(r, p, v)
    \/ AttemptFails(r, p)
    \/ LastAttemptFails(r, p)

Ask(r) ==
    \E k \in Keys :
        \/ \E p \in Providers : Directed(r, p, k)
        \/ FanOutDefault(r, k)
        \/ \E S \in SUBSET Providers : FanOutNamed(r, S, k)

Proceed(r) ==
    \/ \E p \in Providers : TaskStarts(r, p) \/ AttemptEnds(r, p) \/ Retry(r, p)
    \/ Gather(r)

Admin(p) ==
    \/ Register(p) \/ Unregister(p) \/ Enable(p) \/ Disable(p)
    \/ Invalidate(p, Keys)
    \/ \E k \in Keys : Invalidate(p, {k})

Clock(p) ==
    \/ CooldownElapses(p) \/ WindowElapses(p)
    \/ \E k \in Keys : EntryExpires(p, k)

Next ==
    \/ \E r \in Requests : Ask(r) \/ Proceed(r) \/ Cancel(r)
    \/ \E p \in Providers : Admin(p) \/ Clock(p)

Spec == Init /\ [][Next]_vars

(* Every attempt ends (wait_for), every sleep ends and the loop runs every *)
(* ready task; nobody has to ask, administer or cancel anything.           *)
FairSpec == Spec /\ \A r \in Requests : WF_vars(Proceed(r))

---------------------------------------------------------------------------
TypeOK ==
    /\ registry \in [Providers -> {"absent", "enabled", "disabled"}]
    /\ breaker \in [Providers -> BreakerType]
    /\ health \in [Providers -> HealthType]
    /\ window \in [Providers -> WindowType]
    /\ cache \in [Providers -> [Keys -> {"absent", "live", "expired"}]]
    /\ lastGood \in [Providers -> [Keys -> BOOLEAN]]
    /\ stats \in [Providers -> [Counters -> Nat]]
    /\ request \in [Requests -> [kind : {"new", "directed", "default", "named"},
                                 key : Keys, answered : BOOLEAN]]
    /\ call \in [Requests -> [Providers -> [at : Stages, tries : Nat]]]

(* Whatever the cache can serve, the fallback can serve too: an answer     *)
(* that expires or is invalidated still shields the caller from a failure. *)
FallbackCoversCache ==
    EnableFallback =>
        \A p \in Providers, k \in Keys : cache[p][k] # "absent" => lastGood[p][k]

(* The counters of get_stats account for every dispatch: past the cache a  *)
(* dispatch is turned away, answers, fails, is still in flight or was      *)
(* cancelled, and is counted once whether or not a fallback hid the error. *)
StatsBalance ==
    \A p \in Providers :
        LET n(S) == Cardinality({r \in Requests : call[r][p].at \in S})
            s == stats[p]
        IN  /\ s["rejected"] + s["limited"] + s["successful"] + s["failed"]
                 + n(InFlight \cup {"cancelled"})
               = n(InFlight \cup Ended) - n({"hit", "unknown", "unstarted"})
            /\ s["fallbackUsed"] = n({"fallback"})
            /\ s["rejected"] + s["failed"] = n({"open", "failed", "fallback"})

(* Once a provider has answered a key, no dispatch for that key that is    *)
(* still to end raises because the provider fails or its breaker is open,  *)
(* whatever failures, expirations and invalidations come in between        *)
(* (_try_fallback: the last good value never expires).                     *)
FallbackShields ==
    [][\A r \in Requests, p \in Providers, k \in Keys :
          lastGood[p][k] =>
              /\ lastGood'[p][k]
              /\ request'[r].key = k /\ call[r][p].at \notin Ended =>
                     call'[r][p].at \notin {"open", "failed"}]_vars

(* A fan-out that picks its own providers picks none whose breaker is not  *)
(* CLOSED: the DOWN mark of health is enough to keep it off them, because  *)
(* the breaker's threshold is not below health's (_fan_out never asks the  *)
(* breaker).                                                               *)
DefaultTargetsClosed ==
    [][DownAfter <= FailureThreshold =>
          \A r \in Requests, p \in Providers :
              request[r].kind = "new" /\ request'[r].kind = "default"
                  /\ call'[r][p].at = "scheduled"
              => breaker[p].state = "CLOSED"]_vars

(* The promise of circuit_breaker.py, 'para NO LLAMAR a un provider        *)
(* especifico mientras esta OPEN': no call to an adapter begins while its  *)
(* breaker is OPEN.                                                        *)
OpenBreakerNotCalled ==
    [][\A r \in Requests, p \in Providers :
          call[r][p].at # "attempt" /\ call'[r][p].at = "attempt"
          => breaker'[p].state # "OPEN"]_vars

(* Every request that is made is answered, whichever providers fail, hang, *)
(* are rejected, throttled, unregistered or retried on the way.            *)
EveryRequestAnswered ==
    \A r \in Requests :
        request[r].kind # "new" ~>
            \/ request[r].answered
            \/ request[r].kind = "directed" /\ \E p \in Providers : call[r][p].at \in Ended

---------------------------------------------------------------------------
(* ProviderManager implements ProviderAvailability.                        *)
Image(stage) == CASE stage \in InFlight -> "inflight"
                  [] stage \in Ended    -> "ended"
                  [] OTHER              -> "idle"

Availability == INSTANCE ProviderAvailability
    WITH call <- [r \in Requests |-> [p \in Providers |-> Image(call[r][p].at)]]

(* What concurrent requests do to a provider's breaker and health is what  *)
(* ProviderAvailability allows: caching, retries, quota, fallback and      *)
(* cancellation never lose, repeat or invent the outcome of a call.        *)
ImplementsAvailability == Availability!Spec
===========================================================================
