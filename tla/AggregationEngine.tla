------------------------- MODULE AggregationEngine -------------------------
(***************************************************************************)
(* AggregationEngine: the cache of aggregates and the searches that fill   *)
(* it, interleaved wherever they wait for ProviderManager.  What the       *)
(* manager answers is the set of providers that contributed;               *)
(* Deduplication says what becomes of their results.  since is when the    *)
(* MANAGER was asked, not the providers: it may answer from a cache of its *)
(* own, or with the last good answer of a provider, of any age, and        *)
(* neither is touched by an invalidation here (ProviderManager models      *)
(* both).                                                                  *)
(*                                                                         *)
(* One query and one page: they are part of every key alike.  A listing    *)
(* (search, get_latest, get_popular) names providers or leaves the choice  *)
(* to the manager; a detail names the providers it has references for.     *)
(*                                                                         *)
(* The loop is taken to be punctual and the manager to answer within       *)
(* MaxWait, as ProviderPacing shows it does.                               *)
(***************************************************************************)
EXTENDS Integers, FiniteSets

CONSTANTS Providers, Requests,
          Named,     \* the sets of providers a caller may name
          Anyone,    \* provider_ids=None, as the only member of a selection
          Ttl,       \* cache_ttl_seconds
          MaxWait,   \* bound of a manager call
          MaxTime    \* bound of the clock

ASSUME EngineAssumption ==
    /\ IsFiniteSet(Requests)
    /\ Named \subseteq SUBSET Providers
    /\ Anyone \notin Providers
    /\ Ttl \in Nat \ {0} /\ MaxWait \in Nat /\ MaxTime \in Nat

Default == {Anyone}

Selections == {Default} \cup Named

Kinds == {"listing", "detail"}

(* providers_part: None and an empty sequence are written alike.           *)
KeyOf(kind, sel) ==
    <<kind, IF kind = "listing" /\ sel = {} THEN Default ELSE sel>>

Keys == {KeyOf(kind, sel) : kind \in Kinds, sel \in Selections}

VARIABLES now,
          cache,     \* cache[key]: a set with the entry, or empty
          request,
          metrics,
          cleared    \* history: when the key was last invalidated, and
                     \* whether no search for it was waiting at the time

vars == <<now, cache, request, metrics, cleared>>

Times == 0..MaxTime

(* An answer: who contributed, what was asked for, and when the manager    *)
(* was asked.                                                              *)
Answers == [kind : Kinds, asked : Selections, since : Times, sources : SUBSET Providers]

Entries == [answer : Answers, expires : 0..(MaxTime + Ttl)]

Init ==
    /\ now = 0
    /\ cache = [k \in Keys |-> {}]
    /\ request = [r \in Requests |-> [at |-> "new"]]
    /\ metrics = [hits |-> 0, misses |-> 0, aggregations |-> 0]
    /\ cleared = [k \in Keys |-> [at |-> 0, quiet |-> TRUE]]

---------------------------------------------------------------------------
(* InMemoryProviderCache.get finds an entry before its expiry.             *)
Live(k) == \E e \in cache[k] : now < e.expires

Found(k) == CHOOSE e \in cache[k] : TRUE

Count(name) == metrics' = [metrics EXCEPT ![name] = @ + 1]

(* A detail without references is None at once.                            *)
NoReferences(r) ==
    /\ request[r].at = "new"
    /\ request' = [request EXCEPT ![r] = [at |-> "empty"]]
    /\ UNCHANGED <<now, cache, metrics, cleared>>

(* aggregate_detail needs references; listings take every selection.       *)
Askable(kind, sel) == kind = "detail" => sel \notin {Default, {}}

Serve(r, kind, sel) ==
    LET k == KeyOf(kind, sel)
    IN  /\ request[r].at = "new"
        /\ Askable(kind, sel)
        /\ Live(k)
        /\ request' = [request EXCEPT ![r] = [at |-> "served", kind |-> kind,
                          asked |-> sel, began |-> now, time |-> now,
                          answer |-> Found(k).answer]]
        /\ Count("hits")
        /\ UNCHANGED <<now, cache, cleared>>

(* The miss drops an expired entry, and the manager is asked.              *)
AskManager(r, kind, sel) ==
    LET k == KeyOf(kind, sel)
    IN  /\ request[r].at = "new"
        /\ Askable(kind, sel)
        /\ ~Live(k)
        /\ request' = [request EXCEPT ![r] = [at |-> "waiting", kind |-> kind,
                                              asked |-> sel, since |-> now]]
        /\ cache' = [cache EXCEPT ![k] = {}]
        /\ Count("misses")
        /\ UNCHANGED <<now, cleared>>

Entry(a, time) == [answer |-> a, expires |-> time + Ttl]

(* Wrong variant: storing extends the entry that is there.                 *)
StoreSliding(k, a) ==
    cache' = [cache EXCEPT ![k] =
                 {Entry(IF cache[k] = {} THEN a ELSE Found(k).answer, now)}]

(* _cache_set, at the time it is called.                                   *)
Store(k, a) == cache' = [cache EXCEPT ![k] = {Entry(a, now)}]

(* Providers a manager call for sel can get results from.                  *)
Reach(sel) == IF sel = Default THEN Providers ELSE sel

(* A listing is merged, counted and stored whoever contributed, nobody     *)
(* included, and however old what the manager had of them is.              *)
ListingAnswered(r, S) ==
    LET q == request[r]
        a == [kind |-> "listing", asked |-> q.asked, since |-> q.since, sources |-> S]
    IN  /\ q.at = "waiting" /\ q.kind = "listing"
        /\ S \subseteq Reach(q.asked)
        /\ Store(KeyOf("listing", q.asked), a)
        /\ Count("aggregations")
        /\ request' = [request EXCEPT ![r] = [at |-> "served", kind |-> "listing",
                          asked |-> q.asked, began |-> q.since, time |-> now,
                          answer |-> a]]
        /\ UNCHANGED <<now, cleared>>

(* So is a detail somebody contributed to; otherwise it is None, neither   *)
(* stored nor counted.                                                     *)
DetailAnswered(r, S) ==
    LET q == request[r]
        a == [kind |-> "detail", asked |-> q.asked, since |-> q.since, sources |-> S]
    IN  /\ q.at = "waiting" /\ q.kind = "detail"
        /\ S \subseteq q.asked /\ S # {}
        /\ Store(KeyOf("detail", q.asked), a)
        /\ Count("aggregations")
        /\ request' = [request EXCEPT ![r] = [at |-> "served", kind |-> "detail",
                          asked |-> q.asked, began |-> q.since, time |-> now,
                          answer |-> a]]
        /\ UNCHANGED <<now, cleared>>

(* Wrong variant: a detail nobody has is counted as an aggregation.        *)
NothingCounted(r) ==
    /\ request[r].at = "waiting" /\ request[r].kind = "detail"
    /\ request' = [request EXCEPT ![r] = [at |-> "none"]]
    /\ Count("aggregations")
    /\ UNCHANGED <<now, cache, cleared>>

NothingFound(r) ==
    /\ request[r].at = "waiting" /\ request[r].kind = "detail"
    /\ request' = [request EXCEPT ![r] = [at |-> "none"]]
    /\ UNCHANGED <<now, cache, metrics, cleared>>

(* The caller is cancelled while it waits.                                 *)
Cancel(r) ==
    /\ request[r].at = "waiting"
    /\ request' = [request EXCEPT ![r] = [at |-> "cancelled"]]
    /\ UNCHANGED <<now, cache, metrics, cleared>>

Waiting == {r \in Requests : request[r].at = "waiting"}

WaitingFor(k) == {r \in Waiting : KeyOf(request[r].kind, request[r].asked) = k}

(* Wrong variant: only what has expired is dropped.                        *)
InvalidateExpired(S) ==
    /\ \E k \in S : cache[k] # {} \/ WaitingFor(k) # {}
    /\ cache' = [k \in Keys |-> IF k \in S /\ ~Live(k) THEN {} ELSE cache[k]]
    /\ cleared' = [k \in Keys |-> IF k \in S THEN [at |-> now, quiet |-> WaitingFor(k) = {}]
                                  ELSE cleared[k]]
    /\ UNCHANGED <<now, request, metrics>>

(* Where there is no entry and nobody waits, it changes nothing.           *)
Invalidate(S) ==
    /\ \E k \in S : cache[k] # {} \/ WaitingFor(k) # {}
    /\ cache' = [k \in Keys |-> IF k \in S THEN {} ELSE cache[k]]
    /\ cleared' = [k \in Keys |-> IF k \in S THEN [at |-> now, quiet |-> WaitingFor(k) = {}]
                                  ELSE cleared[k]]
    /\ UNCHANGED <<now, request, metrics>>

(* invalidate_search_cache and invalidate_all_cache.                       *)
InvalidateSearch(sel) == Invalidate({KeyOf("listing", sel)})

InvalidateAll == Invalidate(Keys)

Tick ==
    /\ now < MaxTime
    /\ \A r \in Waiting : now < request[r].since + MaxWait
    /\ now' = now + 1
    /\ UNCHANGED <<cache, request, metrics, cleared>>

Begin(r) ==
    \/ NoReferences(r)
    \/ \E kind \in Kinds, sel \in Selections : Serve(r, kind, sel) \/ AskManager(r, kind, sel)

Answer(r) ==
    \/ \E S \in SUBSET Providers : ListingAnswered(r, S) \/ DetailAnswered(r, S)
    \/ NothingFound(r)

Next ==
    \/ \E r \in Requests : Begin(r) \/ Answer(r) \/ Cancel(r)
    \/ \E sel \in Selections : InvalidateSearch(sel)
    \/ InvalidateAll
    \/ Tick

Spec == Init /\ [][Next]_vars

---------------------------------------------------------------------------
Outcomes ==
    [at : {"new", "empty", "none", "cancelled"}]
        \cup [at : {"waiting"}, kind : Kinds, asked : Selections, since : Times]
        \cup [at : {"served"}, kind : Kinds, asked : Selections, began : Times,
              time : Times, answer : Answers]

TypeOK ==
    /\ now \in Times
    /\ cache \in [Keys -> SUBSET Entries]
    /\ \A k \in Keys : \A e, f \in cache[k] : e = f
    /\ request \in [Requests -> Outcomes]
    /\ metrics \in [{"hits", "misses", "aggregations"} -> Nat]
    /\ cleared \in [Keys -> [at : Times, quiet : BOOLEAN]]

Served == {r \in Requests : request[r].at = "served"}

(* This cache adds less than Ttl + MaxWait to the age of an answer: what   *)
(* is served was asked of the manager less than that ago, even if slow     *)
(* searches overwrite the entries of faster ones that began later.         *)
AgeBounded ==
    \A r \in Served : request[r].time < request[r].answer.since + Ttl + MaxWait

(* Nobody is served a detail without content, or one put together for      *)
(* other references, whatever overlapping searches stored in between:      *)
(* aggregate_detail keeps None out of the cache and listings out of its    *)
(* keys.                                                                   *)
DetailsHaveContent ==
    \A r \in Served :
        request[r].kind = "detail" =>
            LET a == request[r].answer
            IN  a.kind = "detail" /\ a.asked = request[r].asked /\ a.sources # {}

(* The key an answered request looked up.                                  *)
KeyFor(r) == KeyOf(request[r].kind, request[r].asked)

(* After an invalidation made while no search for the key waits, no search *)
(* that begins later is served what was asked of the manager before.  (The *)
(* manager may still answer it from its own cache or its last good answer: *)
(* invalidate_search_cache and invalidate_all_cache reach neither.)        *)
QuietInvalidationHolds ==
    \A r \in Served :
        LET c == cleared[KeyFor(r)]
        IN  c.quiet /\ request[r].began > c.at => request[r].answer.since >= c.at

(* AggregationMetrics accounts for every lookup: a miss is aggregated,     *)
(* found nothing, is waiting or was cancelled.                             *)
MetricsBalance ==
    LET n(S) == Cardinality({r \in Requests : request[r].at \in S})
        m == metrics
    IN  /\ m["hits"] + m["aggregations"] = n({"served"})
        /\ m["misses"] = m["aggregations"] + n({"waiting", "cancelled", "none"})

(* search_router.py: a search asks 'a todos los providers registrados (o a *)
(* los indicados en provider_ids)'.  The answer to a listing was asked of  *)
(* the providers it is for.                                                *)
AskedAsWanted ==
    \A r \in Served : Reach(request[r].answer.asked) = Reach(request[r].asked)
============================================================================
