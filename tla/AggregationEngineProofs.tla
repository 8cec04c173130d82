---------------------- MODULE AggregationEngineProofs ----------------------
(***************************************************************************)
(* AggregationEngine, for any callers, selections and periods: what its    *)
(* cache adds to the age of answers, invalidations, and that metrics add   *)
(* up.  Deduplication, for any number of results, any similarity and any   *)
(* priorities: what is grouped, which fields a record takes, and what a    *)
(* further source does to its rank.                                        *)
(***************************************************************************)
EXTENDS AggregationEngine, Deduplication, OrderedProofs

(* The sets of outcomes are told apart by their stage.                     *)
LEMMA Stages ==
    ASSUME NEW q \in Outcomes
    PROVE  /\ q.at = "waiting" => q \in [at : {"waiting"}, kind : Kinds,
                                         asked : Selections, since : Times]
           /\ q.at = "served" => q \in [at : {"served"}, kind : Kinds, asked : Selections,
                                        began : Times, time : Times, answer : Answers]
  BY DEF Outcomes

LEMMA KeysOf ==
    ASSUME NEW kind \in Kinds, NEW sel \in Selections
    PROVE  KeyOf(kind, sel) \in Keys
  BY DEF Keys

LEMMA FoundEntry ==
    ASSUME NEW k \in Keys, Live(k), \A e, f \in cache[k] : e = f
    PROVE  Found(k) \in cache[k] /\ now < Found(k).expires
  BY DEF Live, Found

(* A caller's outcome of the right kind keeps request well typed.          *)
LEMMA RequestTyped ==
    ASSUME request \in [Requests -> Outcomes], NEW r \in Requests, NEW q \in Outcomes
    PROVE  [request EXCEPT ![r] = q] \in [Requests -> Outcomes]
  OBVIOUS

LEMMA CountTyped ==
    ASSUME metrics \in [{"hits", "misses", "aggregations"} -> Nat],
           NEW name \in {"hits", "misses", "aggregations"}, Count(name)
    PROVE  metrics' \in [{"hits", "misses", "aggregations"} -> Nat]
  BY DEF Count

LEMMA StoreTyped ==
    ASSUME cache \in [Keys -> SUBSET Entries], now \in Times,
           \A k \in Keys : \A e, f \in cache[k] : e = f,
           NEW key \in Keys, NEW a \in Answers, Store(key, a)
    PROVE  /\ cache' \in [Keys -> SUBSET Entries]
           /\ \A k \in Keys : \A e, f \in cache'[k] : e = f
<1>1. Entry(a, now) \in Entries
  BY EngineAssumption DEF Entry, Entries, Times
<1> QED
  BY <1>1 DEF Store

(* What an answered search leaves behind, whatever kind it is of.          *)
LEMMA AnswerTyped ==
    ASSUME TypeOK, NEW r \in Requests, NEW kind \in Kinds, NEW S \in SUBSET Providers,
           request[r].at = "waiting"
    PROVE  LET q == request[r]
               a == [kind |-> kind, asked |-> q.asked, since |-> q.since, sources |-> S]
           IN  /\ a \in Answers
               /\ [at |-> "served", kind |-> kind, asked |-> q.asked, began |-> q.since,
                   time |-> now, answer |-> a] \in Outcomes
<1>1. request[r] \in [at : {"waiting"}, kind : Kinds, asked : Selections, since : Times]
  BY Stages DEF TypeOK
<1> QED
  BY <1>1 DEF TypeOK, Answers, Outcomes

LEMMA TypeInit == Init => TypeOK
  BY EngineAssumption DEF Init, TypeOK, Times, Outcomes, Entries

LEMMA TypeStep ==
    ASSUME TypeOK, [Next]_vars
    PROVE  TypeOK'
<1> USE DEF TypeOK
<1>1. ASSUME NEW r \in Requests, NoReferences(r)
      PROVE  TypeOK'
  <2>1. [at |-> "empty"] \in Outcomes
    BY DEF Outcomes
  <2> QED
    BY <1>1, <2>1, RequestTyped DEF NoReferences
<1>2. ASSUME NEW r \in Requests, NEW kind \in Kinds, NEW sel \in Selections,
             Serve(r, kind, sel)
      PROVE  TypeOK'
  <2> DEFINE k == KeyOf(kind, sel)
  <2>1. k \in Keys
    BY KeysOf
  <2>2. Found(k) \in Entries
    BY <1>2, <2>1, FoundEntry DEF Serve
  <2>3. [at |-> "served", kind |-> kind, asked |-> sel, began |-> now, time |-> now,
         answer |-> Found(k).answer] \in Outcomes
    BY <2>2 DEF Outcomes, Entries
  <2>4. request' \in [Requests -> Outcomes]
    BY <1>2, <2>3, RequestTyped DEF Serve
  <2>5. metrics' \in [{"hits", "misses", "aggregations"} -> Nat]
    BY <1>2, CountTyped DEF Serve
  <2> QED
    BY <1>2, <2>4, <2>5 DEF Serve
<1>3. ASSUME NEW r \in Requests, NEW kind \in Kinds, NEW sel \in Selections,
             AskManager(r, kind, sel)
      PROVE  TypeOK'
  <2>1. [at |-> "waiting", kind |-> kind, asked |-> sel, since |-> now] \in Outcomes
    BY DEF Outcomes
  <2>2. request' \in [Requests -> Outcomes]
    BY <1>3, <2>1, RequestTyped DEF AskManager
  <2>3. metrics' \in [{"hits", "misses", "aggregations"} -> Nat]
    BY <1>3, CountTyped DEF AskManager
  <2>4. /\ cache' \in [Keys -> SUBSET Entries]
        /\ \A k \in Keys : \A e, f \in cache'[k] : e = f
    BY <1>3 DEF AskManager
  <2> QED
    BY <1>3, <2>2, <2>3, <2>4 DEF AskManager
<1>4. ASSUME NEW r \in Requests, NEW S \in SUBSET Providers, NEW kind \in Kinds,
             request[r].at = "waiting",
             Store(KeyOf(kind, request[r].asked),
                   [kind |-> kind, asked |-> request[r].asked,
                    since |-> request[r].since, sources |-> S]),
             Count("aggregations"),
             request' = [request EXCEPT ![r] =
                 [at |-> "served", kind |-> kind, asked |-> request[r].asked,
                  began |-> request[r].since, time |-> now,
                  answer |-> [kind |-> kind, asked |-> request[r].asked,
                              since |-> request[r].since, sources |-> S]]],
             UNCHANGED <<now, cleared>>
      PROVE  TypeOK'
  <2> DEFINE a == [kind |-> kind, asked |-> request[r].asked,
                   since |-> request[r].since, sources |-> S]
  <2>1. /\ a \in Answers
        /\ [at |-> "served", kind |-> kind, asked |-> request[r].asked,
            began |-> request[r].since, time |-> now, answer |-> a] \in Outcomes
    BY <1>4, AnswerTyped
  <2>2. KeyOf(kind, request[r].asked) \in Keys
    BY <1>4, Stages, KeysOf
  <2>3. /\ cache' \in [Keys -> SUBSET Entries]
        /\ \A k \in Keys : \A e, f \in cache'[k] : e = f
    BY <1>4, <2>1, <2>2, StoreTyped
  <2>4. metrics' \in [{"hits", "misses", "aggregations"} -> Nat]
    BY <1>4, CountTyped
  <2>5. request' \in [Requests -> Outcomes]
    BY <1>4, <2>1, RequestTyped
  <2> QED
    BY <1>4, <2>3, <2>4, <2>5
<1>5. ASSUME NEW r \in Requests, NEW S \in SUBSET Providers,
             ListingAnswered(r, S) \/ DetailAnswered(r, S)
      PROVE  TypeOK'
  <2>1. CASE ListingAnswered(r, S)
    BY <1>4, <2>1 DEF ListingAnswered, Kinds
  <2>2. CASE DetailAnswered(r, S)
    BY <1>4, <2>2 DEF DetailAnswered, Kinds
  <2> QED
    BY <1>5, <2>1, <2>2
<1>6. ASSUME NEW r \in Requests, NothingFound(r) \/ Cancel(r)
      PROVE  TypeOK'
  <2>1. [at |-> "none"] \in Outcomes /\ [at |-> "cancelled"] \in Outcomes
    BY DEF Outcomes
  <2> QED
    BY <1>6, <2>1, RequestTyped DEF NothingFound, Cancel
<1>7. ASSUME NEW S, Invalidate(S)
      PROVE  TypeOK'
  BY <1>7 DEF Invalidate
<1>8. CASE Tick
  BY <1>8, EngineAssumption DEF Tick, Times
<1>9. CASE UNCHANGED vars
  BY <1>9 DEF vars
<1> QED
  BY <1>1, <1>2, <1>3, <1>5, <1>6, <1>7, <1>8, <1>9
     DEF Next, Begin, Answer, InvalidateSearch, InvalidateAll

(* The engine's state stays within its types.                              *)
THEOREM TypeCorrect == Spec => []TypeOK
  BY TypeInit, TypeStep, PTL DEF Spec

---------------------------------------------------------------------------
(* The inductive invariant.  An answer a, kept under key k or on its way   *)
(* there, was asked for at most MaxWait before it was stored; a detail has *)
(* content for the key's references; and it is no older than an            *)
(* invalidation of the key that nobody waited through.                     *)
FitsKey(a, k) ==
    k[1] = "detail" => a.kind = "detail" /\ a.asked = k[2] /\ a.sources # {}

EntryFits(k) ==
    \A e \in cache[k] :
        /\ e.expires <= e.answer.since + Ttl + MaxWait
        /\ FitsKey(e.answer, k)
        /\ cleared[k].quiet => e.answer.since >= cleared[k].at

WaiterFits(r) ==
    request[r].at = "waiting" =>
        /\ request[r].since <= now /\ now <= request[r].since + MaxWait
        /\ cleared[KeyFor(r)].quiet => request[r].since >= cleared[KeyFor(r)].at

ServedFits(r) ==
    request[r].at = "served" =>
        /\ request[r].time < request[r].answer.since + Ttl + MaxWait
        /\ request[r].kind = "detail" => FitsKey(request[r].answer, KeyFor(r))
        /\ request[r].began <= now
        /\ cleared[KeyFor(r)].quiet /\ request[r].began > cleared[KeyFor(r)].at
               => request[r].answer.since >= cleared[KeyFor(r)].at

IInv ==
    /\ TypeOK
    /\ \A k \in Keys : cleared[k].at <= now /\ EntryFits(k)
    /\ \A r \in Requests : WaiterFits(r) /\ ServedFits(r)

LEMMA KeyForWaiting ==
    ASSUME TypeOK, NEW r \in Requests, request[r].at \in {"waiting", "served"}
    PROVE  /\ KeyFor(r) \in Keys
           /\ KeyFor(r) = KeyOf(request[r].kind, request[r].asked)
           /\ request[r].kind \in Kinds /\ request[r].asked \in Selections
  BY Stages, KeysOf DEF TypeOK, KeyFor

LEMMA IInit == Init => IInv
<1> SUFFICES ASSUME Init
             PROVE  IInv
  OBVIOUS
<1>1. TypeOK
  BY TypeInit
<1>2. \A k \in Keys : cleared[k].at <= now /\ EntryFits(k)
  BY DEF Init, EntryFits
<1>3. \A r \in Requests : WaiterFits(r) /\ ServedFits(r)
  BY DEF Init, WaiterFits, ServedFits
<1> QED
  BY <1>1, <1>2, <1>3 DEF IInv

(* A step that leaves cleared and the clock alone keeps what it does not   *)
(* touch.                                                                  *)
LEMMA OtherRequests ==
    ASSUME IInv, NEW r \in Requests, NEW q, now' = now, cleared' = cleared,
           request' = [request EXCEPT ![r] = q],
           (WaiterFits(r) /\ ServedFits(r))'
    PROVE  \A s \in Requests : (WaiterFits(s) /\ ServedFits(s))'
<1> SUFFICES ASSUME NEW s \in Requests, s # r
             PROVE  (WaiterFits(s) /\ ServedFits(s))'
  OBVIOUS
<1>1. request'[s] = request[s]
  BY DEF IInv, TypeOK
<1>2. WaiterFits(s) /\ ServedFits(s)
  BY DEF IInv
<1> QED
  BY <1>1, <1>2 DEF WaiterFits, ServedFits, KeyFor

LEMMA ServeFits ==
    ASSUME IInv, NEW r \in Requests, NEW kind \in Kinds, NEW sel \in Selections,
           Serve(r, kind, sel)
    PROVE  IInv'
<1> DEFINE k == KeyOf(kind, sel)
           e == Found(k)
<1>1. k \in Keys /\ e \in cache[k] /\ now < e.expires
  BY KeysOf, FoundEntry DEF Serve, IInv, TypeOK
<1>2. EntryFits(k) /\ cleared[k].at <= now /\ e \in Entries /\ now \in Nat
  BY <1>1 DEF IInv, TypeOK, Times
<1>3. request'[r] = [at |-> "served", kind |-> kind, asked |-> sel, began |-> now,
                     time |-> now, answer |-> e.answer]
  BY DEF Serve, IInv, TypeOK
<1>4. KeyFor(r)' = k
  BY <1>3 DEF KeyFor
<1>5. WaiterFits(r)'
  BY <1>3 DEF WaiterFits
<1>6. ServedFits(r)'
  <2>1. e.answer.since \in Int /\ e.expires \in Int
    BY <1>2 DEF Entries, Answers, Times
  <2>2. now < e.answer.since + Ttl + MaxWait
    BY <1>1, <1>2, <2>1, EngineAssumption DEF EntryFits
  <2>3. FitsKey(e.answer, k) /\ (cleared[k].quiet => e.answer.since >= cleared[k].at)
    BY <1>1, <1>2 DEF EntryFits
  <2> QED
    BY <1>2, <1>3, <1>4, <2>2, <2>3 DEF ServedFits, Serve
<1>7. \A s \in Requests : (WaiterFits(s) /\ ServedFits(s))'
  BY <1>5, <1>6, OtherRequests DEF Serve
<1>8. TypeOK'
  BY TypeStep DEF Next, Begin, IInv
<1>9. \A j \in Keys : (cleared[j].at <= now /\ EntryFits(j))'
  BY DEF IInv, Serve, EntryFits
<1> QED
  BY <1>7, <1>8, <1>9 DEF IInv

LEMMA AskFits ==
    ASSUME IInv, NEW r \in Requests, NEW kind \in Kinds, NEW sel \in Selections,
           AskManager(r, kind, sel)
    PROVE  IInv'
<1> DEFINE k == KeyOf(kind, sel)
<1>1. k \in Keys /\ now \in Nat /\ cleared[k].at <= now
  BY KeysOf DEF IInv, TypeOK, Times
<1>2. request'[r] = [at |-> "waiting", kind |-> kind, asked |-> sel, since |-> now]
  BY DEF AskManager, IInv, TypeOK
<1>3. KeyFor(r)' = k
  BY <1>2 DEF KeyFor
<1>4. (WaiterFits(r) /\ ServedFits(r))'
  BY <1>1, <1>2, <1>3, EngineAssumption DEF WaiterFits, ServedFits, AskManager
<1>5. \A s \in Requests : (WaiterFits(s) /\ ServedFits(s))'
  BY <1>4, OtherRequests DEF AskManager
<1>6. TypeOK'
  BY TypeStep DEF Next, Begin, IInv
<1>7. \A j \in Keys : (cleared[j].at <= now /\ EntryFits(j))'
  BY DEF IInv, TypeOK, AskManager, EntryFits
<1> QED
  BY <1>5, <1>6, <1>7 DEF IInv

(* An answered search stores an entry that fits and is served its own      *)
(* answer.                                                                 *)
LEMMA AnswerFits ==
    ASSUME IInv, TypeOK', NEW r \in Requests, NEW S \in SUBSET Providers,
           NEW kind \in Kinds, NEW sel \in Selections, NEW since \in Times,
           request[r].at = "waiting", request[r].kind = kind,
           request[r].asked = sel, request[r].since = since,
           ListingAnswered(r, S) \/ DetailAnswered(r, S)
    PROVE  IInv'
<1> DEFINE a == [kind |-> kind, asked |-> sel, since |-> since, sources |-> S]
           k == KeyOf(kind, sel)
<1>1. /\ kind = "detail" => S # {}
      /\ Store(k, a)
      /\ request' = [request EXCEPT ![r] =
             [at |-> "served", kind |-> kind, asked |-> sel, began |-> since,
              time |-> now, answer |-> a]]
      /\ now' = now /\ cleared' = cleared
  BY DEF ListingAnswered, DetailAnswered
<1>2. k \in Keys /\ KeyFor(r) = k
  BY KeysOf DEF KeyFor
<1>3. since \in Int /\ now \in Int /\ Ttl \in Nat \ {0} /\ MaxWait \in Nat
  BY EngineAssumption DEF IInv, TypeOK, Times
<1>4. /\ since <= now /\ now <= since + MaxWait
      /\ cleared[k].quiet => since >= cleared[k].at
      /\ cleared[k].at <= now /\ cleared[k].at \in Int
  BY <1>2 DEF IInv, TypeOK, Times, WaiterFits
<1>5. FitsKey(a, k)
  BY <1>1 DEF FitsKey, KeyOf
<1>6. cache' = [cache EXCEPT ![k] = {Entry(a, now)}]
  BY <1>1 DEF Store
<1>7. EntryFits(k)'
  <2>1. cache'[k] = {Entry(a, now)}
    BY <1>2, <1>6 DEF IInv, TypeOK
  <2>2. ASSUME NEW e \in cache'[k]
        PROVE  /\ e.expires <= e.answer.since + Ttl + MaxWait
               /\ FitsKey(e.answer, k)
               /\ cleared[k].quiet => e.answer.since >= cleared[k].at
    <3>1. e.answer = a /\ e.expires = now + Ttl
      BY <2>1 DEF Entry
    <3> QED
      BY <1>3, <1>4, <1>5, <3>1
  <2> QED
    BY <1>1, <2>2 DEF EntryFits
<1>8. \A j \in Keys : (cleared[j].at <= now /\ EntryFits(j))'
  <2> SUFFICES ASSUME NEW j \in Keys, j # k
               PROVE  (cleared[j].at <= now /\ EntryFits(j))'
    BY <1>1, <1>4, <1>7
  <2>1. cache'[j] = cache[j]
    BY <1>6 DEF IInv, TypeOK
  <2> QED
    BY <1>1, <2>1 DEF IInv, EntryFits
<1>9. request'[r] = [at |-> "served", kind |-> kind, asked |-> sel, began |-> since,
                     time |-> now, answer |-> a]
  BY <1>1 DEF IInv, TypeOK
<1>10. (WaiterFits(r) /\ ServedFits(r))'
  <2>1. KeyFor(r)' = k
    BY <1>9 DEF KeyFor
  <2>2. WaiterFits(r)'
    BY <1>9 DEF WaiterFits
  <2>3. now < since + Ttl + MaxWait
    <3>1. now <= since + MaxWait
      BY <1>4
    <3> HIDE DEF a, k
    <3> QED
      BY <1>3, <3>1
  <2>4. since > cleared[k].at => since >= cleared[k].at
    BY <1>3, <1>4
  <2>5. ServedFits(r)'
    BY <1>1, <1>4, <1>5, <1>9, <2>1, <2>3, <2>4 DEF ServedFits
  <2> QED
    BY <2>2, <2>5
<1>11. \A s \in Requests : (WaiterFits(s) /\ ServedFits(s))'
  BY <1>1, <1>10, OtherRequests
<1> QED
  BY <1>8, <1>11 DEF IInv

(* Ending without an answer keeps nothing.                                 *)
LEMMA EndFits ==
    ASSUME IInv, TypeOK', NEW r \in Requests,
           NEW stage \in {"empty", "none", "cancelled"},
           request' = [request EXCEPT ![r] = [at |-> stage]],
           UNCHANGED <<now, cache, cleared>>
    PROVE  IInv'
<1>1. request'[r] = [at |-> stage]
  BY DEF IInv, TypeOK
<1>2. (WaiterFits(r) /\ ServedFits(r))'
  BY <1>1 DEF WaiterFits, ServedFits
<1>3. \A s \in Requests : (WaiterFits(s) /\ ServedFits(s))'
  BY <1>2, OtherRequests
<1>4. \A j \in Keys : (cleared[j].at <= now /\ EntryFits(j))'
  BY DEF IInv, EntryFits
<1> QED
  BY <1>3, <1>4 DEF IInv

(* Invalidation empties its keys; whoever waits for one of them makes it   *)
(* an invalidation that was not quiet.                                     *)
LEMMA InvalidateFits ==
    ASSUME IInv, TypeOK', NEW S, Invalidate(S)
    PROVE  IInv'
<1>1. /\ now' = now /\ request' = request
      /\ \A k \in Keys :
             /\ cache'[k] = IF k \in S THEN {} ELSE cache[k]
             /\ cleared'[k] = IF k \in S THEN [at |-> now, quiet |-> WaitingFor(k) = {}]
                              ELSE cleared[k]
  BY DEF Invalidate
<1>2. now \in Int
  BY DEF IInv, TypeOK, Times
<1>3. ASSUME NEW k \in Keys
      PROVE  (cleared[k].at <= now /\ EntryFits(k))'
  <2>1. cleared[k].at <= now /\ EntryFits(k)
    BY DEF IInv
  <2>2. CASE k \in S
    <3>1. cache'[k] = {}
      BY <1>1, <2>2
    <3>2. cleared'[k] = [at |-> now, quiet |-> WaitingFor(k) = {}]
      BY <1>1, <2>2
    <3>3. cleared'[k].at = now
      BY <3>2
    <3> QED
      BY <1>1, <1>2, <3>1, <3>3 DEF EntryFits
  <2>3. CASE k \notin S
    BY <1>1, <2>1, <2>3 DEF EntryFits
  <2> QED
    BY <2>2, <2>3
<1>4. ASSUME NEW r \in Requests, NEW k \in Keys, k = KeyFor(r)
      PROVE  (WaiterFits(r) /\ ServedFits(r))'
  <2>1. KeyFor(r)' = k /\ WaiterFits(r) /\ ServedFits(r)
    BY <1>1, <1>4 DEF IInv, KeyFor
  <2>2. CASE k \in S
    <3>1. cleared'[k] = [at |-> now, quiet |-> WaitingFor(k) = {}]
      BY <1>1, <2>2
    <3>2. cleared'[k].at = now
      BY <3>1
    <3>3. ASSUME request[r].at = "waiting"
          PROVE  ~cleared'[k].quiet
      <4>1. WaitingFor(k) # {}
        BY <1>4, <3>3 DEF WaitingFor, Waiting, KeyFor
      <4>2. cleared'[k] = [at |-> now, quiet |-> FALSE]
        BY <3>1, <4>1
      <4> QED
        BY <4>2
    <3>4. WaiterFits(r)'
      BY <1>1, <2>1, <3>3 DEF WaiterFits
    <3>5. request[r].at = "served" => ~(request[r].began > now)
      <4>1. request[r].at = "served" => request[r].began \in Int
        BY Stages DEF IInv, TypeOK, Times
      <4> QED
        BY <1>2, <2>1, <4>1 DEF ServedFits
    <3>6. ServedFits(r)'
      BY <1>1, <1>4, <2>1, <3>2, <3>5 DEF ServedFits
    <3> QED
      BY <3>4, <3>6
  <2>3. CASE k \notin S
    BY <1>1, <1>4, <2>1, <2>3 DEF WaiterFits, ServedFits
  <2> QED
    BY <2>2, <2>3
<1>5. ASSUME NEW r \in Requests
      PROVE  (WaiterFits(r) /\ ServedFits(r))'
  <2>1. CASE request[r].at \in {"waiting", "served"}
    BY <1>4, <2>1, KeyForWaiting DEF IInv
  <2>2. CASE request[r].at \notin {"waiting", "served"}
    BY <1>1, <2>2 DEF WaiterFits, ServedFits
  <2> QED
    BY <2>1, <2>2
<1> QED
  BY <1>3, <1>5 DEF IInv

LEMMA TickFits ==
    ASSUME IInv, TypeOK', Tick
    PROVE  IInv'
<1>1. now \in Int /\ now' = now + 1 /\ cache' = cache /\ request' = request
      /\ cleared' = cleared
  BY DEF IInv, TypeOK, Times, Tick
<1>2. ASSUME NEW k \in Keys
      PROVE  (cleared[k].at <= now /\ EntryFits(k))'
  <2>1. cleared[k].at <= now /\ EntryFits(k) /\ cleared[k].at \in Int
    BY DEF IInv, TypeOK, Times
  <2> QED
    BY <1>1, <2>1 DEF EntryFits
<1>3. ASSUME NEW r \in Requests
      PROVE  (WaiterFits(r) /\ ServedFits(r))'
  <2>1. WaiterFits(r) /\ ServedFits(r) /\ KeyFor(r)' = KeyFor(r)
    BY <1>1 DEF IInv, KeyFor
  <2>2. request[r].at = "waiting" =>
            request[r].since \in Int /\ now < request[r].since + MaxWait
    BY Stages DEF IInv, TypeOK, Times, Tick, Waiting
  <2>3. request[r].at = "served" => request[r].began \in Int
    BY Stages DEF IInv, TypeOK, Times
  <2>4. WaiterFits(r)'
    BY <1>1, <2>1, <2>2, EngineAssumption DEF WaiterFits
  <2>5. ServedFits(r)'
    BY <1>1, <2>1, <2>3 DEF ServedFits
  <2> QED
    BY <2>4, <2>5
<1> QED
  BY <1>2, <1>3 DEF IInv

LEMMA IStep ==
    ASSUME IInv, [Next]_vars
    PROVE  IInv'
<1>1. TypeOK'
  BY TypeStep DEF IInv
<1>2. ASSUME NEW r \in Requests, Begin(r)
      PROVE  IInv'
  <2>1. CASE NoReferences(r)
    BY <1>1, <2>1, EndFits DEF NoReferences
  <2> QED
    BY <1>2, <2>1, ServeFits, AskFits DEF Begin
<1>3. ASSUME NEW r \in Requests, NEW S \in SUBSET Providers,
             ListingAnswered(r, S) \/ DetailAnswered(r, S)
      PROVE  IInv'
  <2>1. request[r].at = "waiting"
    BY <1>3 DEF ListingAnswered, DetailAnswered
  <2>2. /\ request[r].kind \in Kinds /\ request[r].asked \in Selections
        /\ request[r].since \in Times
    BY <2>1, Stages DEF IInv, TypeOK
  <2> QED
    BY <1>1, <1>3, <2>1, <2>2, AnswerFits
<1>4. ASSUME NEW r \in Requests, NothingFound(r) \/ Cancel(r)
      PROVE  IInv'
  BY <1>1, <1>4, EndFits DEF NothingFound, Cancel
<1>5. ASSUME NEW S, Invalidate(S)
      PROVE  IInv'
  BY <1>1, <1>5, InvalidateFits
<1>6. CASE Tick
  BY <1>1, <1>6, TickFits
<1>7. CASE UNCHANGED vars
  BY <1>1, <1>7 DEF vars, IInv, EntryFits, WaiterFits, ServedFits, KeyFor
<1> QED
  BY <1>2, <1>3, <1>4, <1>5, <1>6, <1>7
     DEF Next, Answer, InvalidateSearch, InvalidateAll

LEMMA Invariance == Spec => []IInv
  BY IInit, IStep, PTL DEF Spec

(* No answer is served that was asked of the manager Ttl + MaxWait ago or  *)
(* earlier, in whatever order searches overlap: the engine's cache adds no *)
(* more to the age of what the manager answers.                            *)
THEOREM AnswersStayYoung == Spec => []AgeBounded
<1>1. IInv => AgeBounded
  BY DEF IInv, AgeBounded, Served, ServedFits
<1> QED
  BY <1>1, Invariance, PTL

(* A detail that is served has content, for the references asked for.      *)
THEOREM DetailsAreDetails == Spec => []DetailsHaveContent
<1>1. IInv => DetailsHaveContent
  <2> SUFFICES ASSUME IInv, NEW r \in Requests, request[r].at = "served",
                      request[r].kind = "detail"
               PROVE  /\ request[r].answer.kind = "detail"
                      /\ request[r].answer.asked = request[r].asked
                      /\ request[r].answer.sources # {}
    BY DEF DetailsHaveContent, Served
  <2>1. KeyFor(r) = <<"detail", request[r].asked>>
    BY DEF KeyFor, KeyOf
  <2> QED
    BY <2>1 DEF IInv, ServedFits, FitsKey
<1> QED
  BY <1>1, Invariance, PTL

(* After an invalidation that finds nobody waiting for the key, whoever    *)
(* begins is served what the manager was asked since.                      *)
THEOREM QuietInvalidations == Spec => []QuietInvalidationHolds
<1>1. IInv => QuietInvalidationHolds
  BY DEF IInv, QuietInvalidationHolds, Served, ServedFits
<1> QED
  BY <1>1, Invariance, PTL

---------------------------------------------------------------------------
(* Callers that reached one of the stages S.                               *)
Reached(S) == {r \in Requests : request[r].at \in S}

Missed == {"waiting", "cancelled", "none"}

LEMMA BalanceCounts ==
    MetricsBalance <=>
        /\ metrics["hits"] + metrics["aggregations"] = Cardinality(Reached({"served"}))
        /\ metrics["misses"] = metrics["aggregations"] + Cardinality(Reached(Missed))
  BY DEF MetricsBalance, Reached, Missed

LEMMA StageChange ==
    ASSUME TypeOK, NEW r \in Requests, NEW q, request' = [request EXCEPT ![r] = q],
           NEW S
    PROVE  /\ Cardinality(Reached(S)) \in Nat /\ Cardinality(Reached(S)') \in Nat
           /\ (request[r].at \in S <=> q.at \in S) =>
                 Cardinality(Reached(S)') = Cardinality(Reached(S))
           /\ request[r].at \notin S /\ q.at \in S =>
                 Cardinality(Reached(S)') = Cardinality(Reached(S)) + 1
           /\ request[r].at \in S /\ q.at \notin S =>
                 Cardinality(Reached(S)') = Cardinality(Reached(S)) - 1
<1> DEFINE A == Reached(S)
           B == Reached(S)'
<1>1. B = {y \in Requests : request'[y].at \in S}
  BY DEF Reached
<1>2. A \in SUBSET Requests /\ B \in SUBSET Requests
  BY <1>1 DEF Reached
<1>3. /\ \A y \in Requests : y # r => (y \in A <=> y \in B)
      /\ r \in A <=> request[r].at \in S
      /\ r \in B <=> q.at \in S
  BY <1>1 DEF Reached, TypeOK
<1> HIDE DEF A, B
<1>4. /\ Cardinality(A) \in Nat /\ Cardinality(B) \in Nat
      /\ (r \in A <=> r \in B) => Cardinality(B) = Cardinality(A)
      /\ r \notin A /\ r \in B => Cardinality(B) = Cardinality(A) + 1
      /\ r \in A /\ r \notin B => Cardinality(B) = Cardinality(A) - 1
  BY <1>2, <1>3, EngineAssumption, OneMoves
<1> QED
  BY <1>3, <1>4 DEF A, B

LEMMA BalanceStep ==
    ASSUME TypeOK, MetricsBalance, [Next]_vars
    PROVE  MetricsBalance'
<1> DEFINE served == Cardinality(Reached({"served"}))
           missed == Cardinality(Reached(Missed))
           h == metrics["hits"]
           m == metrics["misses"]
           a == metrics["aggregations"]
<1>1. h + a = served /\ m = a + missed
  BY BalanceCounts
<1>2. (h + a)' = served' /\ m' = a' + missed' => MetricsBalance'
  BY DEF MetricsBalance, Reached, Missed
<1>3. h \in Nat /\ m \in Nat /\ a \in Nat
      /\ metrics \in [{"hits", "misses", "aggregations"} -> Nat]
  BY DEF TypeOK
<1>4. \A name \in {"hits", "misses", "aggregations"} :
          Count(name) => /\ h' = h + (IF name = "hits" THEN 1 ELSE 0)
                         /\ m' = m + (IF name = "misses" THEN 1 ELSE 0)
                         /\ a' = a + (IF name = "aggregations" THEN 1 ELSE 0)
  BY <1>3 DEF Count
<1>5. CASE UNCHANGED <<request, metrics>>
  BY <1>5 DEF MetricsBalance
<1>6. ASSUME NEW r \in Requests, NEW q, request' = [request EXCEPT ![r] = q],
             \/ request[r].at = "new" /\ q.at = "empty" /\ metrics' = metrics
             \/ request[r].at = "new" /\ q.at = "served" /\ Count("hits")
             \/ request[r].at = "new" /\ q.at = "waiting" /\ Count("misses")
             \/ request[r].at = "waiting" /\ q.at = "served" /\ Count("aggregations")
             \/ request[r].at = "waiting" /\ q.at \in {"none", "cancelled"} /\ metrics' = metrics
      PROVE  MetricsBalance'
  <2>1. /\ served \in Nat /\ served' \in Nat /\ missed \in Nat /\ missed' \in Nat
        /\ (request[r].at = "served" <=> q.at = "served") => served' = served
        /\ request[r].at # "served" /\ q.at = "served" => served' = served + 1
        /\ (request[r].at \in Missed <=> q.at \in Missed) => missed' = missed
        /\ request[r].at \notin Missed /\ q.at \in Missed => missed' = missed + 1
        /\ request[r].at \in Missed /\ q.at \notin Missed => missed' = missed - 1
    BY <1>6, StageChange
  <2> HIDE DEF served, missed
  <2>2. metrics' = metrics => h' = h /\ m' = m /\ a' = a
    OBVIOUS
  <2> HIDE DEF h, m, a
  <2>3. CASE request[r].at = "new" /\ q.at = "empty" /\ metrics' = metrics
    BY <1>1, <1>2, <1>3, <2>1, <2>2, <2>3 DEF Missed
  <2>4. CASE request[r].at = "new" /\ q.at = "served" /\ Count("hits")
    BY <1>1, <1>2, <1>3, <1>4, <2>1, <2>4 DEF Missed
  <2>5. CASE request[r].at = "new" /\ q.at = "waiting" /\ Count("misses")
    BY <1>1, <1>2, <1>3, <1>4, <2>1, <2>5 DEF Missed
  <2>6. CASE request[r].at = "waiting" /\ q.at = "served" /\ Count("aggregations")
    BY <1>1, <1>2, <1>3, <1>4, <2>1, <2>6 DEF Missed
  <2>7. CASE request[r].at = "waiting" /\ q.at \in {"none", "cancelled"} /\ metrics' = metrics
    BY <1>1, <1>2, <1>3, <2>1, <2>2, <2>7 DEF Missed
  <2> QED
    BY <1>6, <2>3, <2>4, <2>5, <2>6, <2>7
<1>7. CASE Next
  <2>1. ASSUME NEW r \in Requests, Begin(r) PROVE MetricsBalance'
    BY <1>6, <2>1 DEF Begin, NoReferences, Serve, AskManager
  <2>2. ASSUME NEW r \in Requests, Answer(r) \/ Cancel(r) PROVE MetricsBalance'
    BY <1>6, <2>2 DEF Answer, Cancel, ListingAnswered, DetailAnswered, NothingFound
  <2>3. (\E S : Invalidate(S)) \/ Tick => UNCHANGED <<request, metrics>>
    BY DEF Invalidate, Tick
  <2> QED
    BY <1>5, <1>7, <2>1, <2>2, <2>3 DEF Next, InvalidateSearch, InvalidateAll
<1> QED
  BY <1>5, <1>7 DEF vars

(* Hits, misses and aggregations account for every lookup, whoever answers *)
(* late or is cancelled.                                                   *)
THEOREM MetricsAddUp == Spec => []MetricsBalance
<1>1. Init => MetricsBalance
  <2> SUFFICES ASSUME Init PROVE MetricsBalance
    OBVIOUS
  <2>1. Reached({"served"}) = {} /\ Reached(Missed) = {}
    BY DEF Init, Reached, Missed
  <2>2. Cardinality(Reached({"served"})) = 0 /\ Cardinality(Reached(Missed)) = 0
    BY <2>1, FS_EmptySet
  <2>3. metrics["hits"] = 0 /\ metrics["misses"] = 0 /\ metrics["aggregations"] = 0
    BY DEF Init
  <2> QED
    BY <2>2, <2>3, BalanceCounts
<1> QED
  BY TypeCorrect, <1>1, BalanceStep, PTL DEF Spec

---------------------------------------------------------------------------
(* Deduplication: any number of results, any relation of similarity and    *)
(* any priorities.                                                         *)

(* A placed result keeps its group and its neighbours; only the next one,  *)
(* called n, is given a group.                                             *)
LEMMA OneAtATime ==
    ASSUME GroupsOK, Place
    PROVE  LET n == placed + 1
           IN  /\ n \in Positions
               /\ placed' = n
               /\ results' = results
               /\ \A i \in Positions : i # n => group'[i] = group[i]
               /\ \/ Candidates(n) = {} /\ group'[n] = opened + 1 /\ opened' = opened + 1
                  \/ /\ group'[n] \in Candidates(n)
                     /\ \A h \in Candidates(n) : group'[n] <= h
                     /\ group'[n] \in 1..opened
                     /\ opened' = opened
<1> DEFINE n == placed + 1
<1>1. n \in Positions /\ Length \in Nat /\ placed \in Nat
  BY DeduplicationAssumption DEF GroupsOK, Place, Positions
<1>2. group \in [Positions -> 0..Length]
  BY DEF GroupsOK
<1>3. CASE Open(n)
  BY <1>1, <1>2, <1>3 DEF Open, Place
<1>4. ASSUME NEW g \in 1..opened, Join(n, g)
      PROVE  /\ \A i \in Positions : i # n => group'[i] = group[i]
             /\ group'[n] = g /\ opened' = opened
             /\ g \in Candidates(n) /\ \A h \in Candidates(n) : g <= h
  BY <1>1, <1>2, <1>4 DEF Join
<1>5. CASE \E g \in 1..opened : Join(n, g)
  BY <1>1, <1>4, <1>5 DEF Place
<1> QED
  BY <1>3, <1>5 DEF Place

---------------------------------------------------------------------------
LEMMA GroupsInit == Ungrouped => GroupsOK
  BY DeduplicationAssumption DEF Ungrouped, GroupsOK, Positions

LEMMA GroupsStep ==
    ASSUME GroupsOK, Place
    PROVE  GroupsOK'
<1> DEFINE n == placed + 1
<1>1. /\ n \in Positions /\ placed' = n /\ results' = results
      /\ \A i \in Positions : i # n => group'[i] = group[i]
      /\ \/ group'[n] = opened + 1 /\ opened' = opened + 1
         \/ group'[n] \in 1..opened /\ opened' = opened
  BY OneAtATime
<1>2. /\ Length \in Nat /\ placed \in 0..Length /\ opened \in 0..placed
      /\ group \in [Positions -> 0..Length]
  BY DeduplicationAssumption DEF GroupsOK
<1>3. n \in 1..Length
  BY <1>1 DEF Positions
<1>4. opened' \in 0..n /\ opened' \in Nat /\ opened <= opened'
  BY <1>1, <1>2
<1>5. group'[n] \in 1..opened'
  BY <1>1, <1>2
<1>6. DOMAIN group' = Positions /\ group' = [i \in Positions |-> group'[i]]
  BY <1>2 DEF Place, Open, Join
<1>7. ASSUME NEW i \in Positions
      PROVE  /\ group'[i] \in 0..Length
             /\ group'[i] = 0 <=> i > n
             /\ group'[i] <= opened'
  <2>1. i \in Nat
    BY DEF Positions
  <2>2. CASE i = n
    BY <1>2, <1>3, <1>4, <1>5, <2>1, <2>2
  <2>3. CASE i # n
    <3>1. group'[i] = group[i]
      BY <1>1, <2>3
    <3>2. /\ group[i] \in 0..Length
          /\ group[i] = 0 <=> i > placed
          /\ group[i] <= opened
      BY <1>2 DEF GroupsOK
    <3> QED
      BY <1>2, <1>4, <2>1, <2>3, <3>1, <3>2
  <2> QED
    BY <2>2, <2>3
<1>8. group' \in [Positions -> 0..Length]
  BY <1>6, <1>7
<1> QED
  BY <1>1, <1>2, <1>3, <1>4, <1>7, <1>8 DEF GroupsOK

(* Every result is placed once, in one of the groups opened so far.        *)
THEOREM GroupsTypeCorrect == Grouping => []GroupsOK
<1>1. GroupsOK /\ [Place]_groupingVars => GroupsOK'
  <2> SUFFICES ASSUME GroupsOK, [Place]_groupingVars
               PROVE  GroupsOK'
    OBVIOUS
  <2>1. CASE Place
    BY <2>1, GroupsStep
  <2>2. CASE UNCHANGED groupingVars
    BY <2>2 DEF groupingVars, GroupsOK
  <2> QED
    BY <2>1, <2>2
<1> QED
  BY GroupsInit, <1>1, PTL DEF Grouping

---------------------------------------------------------------------------
(* The result that is placed joins one that it matches, which is in the    *)
(* same part, or a group of its own.                                       *)
LEMMA ApartStep ==
    ASSUME GroupsOK, PartsStayApart, Place
    PROVE  PartsStayApart'
<1> DEFINE n == placed + 1
<1>1. /\ n \in Positions /\ placed' = n /\ results' = results
      /\ \A i \in Positions : i # n => group'[i] = group[i]
      /\ \/ group'[n] = opened + 1
         \/ group'[n] \in Candidates(n)
  BY OneAtATime
<1>2. /\ Length \in Nat /\ placed \in 0..Length /\ opened \in Nat
      /\ \A k \in 1..placed : k \in Positions /\ group[k] \in Nat /\ group[k] <= opened
  BY DeduplicationAssumption DEF GroupsOK, Positions
<1>3. \A k \in 1..placed : group'[k] = group[k]
  BY <1>1, <1>2
<1>4. \A S, T : Unrelated(S, T)' <=> Unrelated(S, T)
  BY <1>1 DEF Unrelated, Matches
<1> SUFFICES ASSUME NEW S \in SUBSET Positions, Unrelated(S, Positions \ S)
             PROVE  \A i, j \in 1..n : group'[i] = group'[j] => (i \in S <=> j \in S)
  BY <1>1, <1>4 DEF PartsStayApart
<1>5. \A i, j \in 1..placed : group[i] = group[j] => (i \in S <=> j \in S)
  BY DEF PartsStayApart
<1>6. ASSUME NEW j \in 1..placed, group'[n] = group[j]
      PROVE  n \in S <=> j \in S
  <2>1. PICK m \in 1..placed : Matches(results[n], results[m]) /\ group[m] = group[j]
    BY <1>1, <1>2, <1>6 DEF Candidates
  <2>2. n \in S <=> m \in S
    BY <1>1, <1>2, <2>1 DEF Unrelated
  <2> QED
    BY <1>5, <2>1, <2>2
<1>7. \A i \in 1..n : i \in 1..placed \/ i = n
  BY <1>2
<1> HIDE DEF n
<1> QED
  BY <1>3, <1>5, <1>6, <1>7

(* Greedy grouping never merges results that no chain of matches joins,    *)
(* after any number of results and whatever the similarity.                *)
THEOREM Apart == Grouping => []PartsStayApart
<1>1. Ungrouped => PartsStayApart
  BY DEF Ungrouped, PartsStayApart
<1>2. GroupsOK /\ PartsStayApart /\ [Place]_groupingVars => PartsStayApart'
  <2> SUFFICES ASSUME GroupsOK, PartsStayApart, [Place]_groupingVars
               PROVE  PartsStayApart'
    OBVIOUS
  <2>1. CASE Place
    BY <2>1, ApartStep
  <2>2. CASE UNCHANGED groupingVars
    BY <2>2 DEF groupingVars, PartsStayApart, Unrelated, Matches
  <2> QED
    BY <2>1, <2>2
<1> QED
  BY GroupsTypeCorrect, <1>1, <1>2, PTL DEF Grouping

---------------------------------------------------------------------------
(* The step of GroupsAreClasses: the groups of the results before n are    *)
(* classes, and n joins the class it matches, or none.                     *)
LEMMA ClassesStep ==
    ASSUME GroupsOK, GroupsAreClasses, Place
    PROVE  GroupsAreClasses'
<1> DEFINE n == placed + 1
           R(i, j) == Matches(results[i], results[j])
<1>1. /\ n \in Positions /\ placed' = n /\ results' = results
      /\ \A i \in Positions : i # n => group'[i] = group[i]
      /\ \/ Candidates(n) = {} /\ group'[n] = opened + 1
         \/ group'[n] \in Candidates(n)
  BY OneAtATime
<1>2. /\ Length \in Nat /\ placed \in 0..Length /\ opened \in Nat
      /\ \A k \in 1..placed : k \in Positions /\ group[k] \in Nat /\ group[k] <= opened
  BY DeduplicationAssumption DEF GroupsOK, Positions
<1>3. \A k \in 1..placed : group'[k] = group[k]
  BY <1>1, <1>2
<1>4. Equivalence' <=> Equivalence
  BY <1>1 DEF Equivalence, Matches
<1> SUFFICES ASSUME Equivalence
             PROVE  \A i, j \in 1..n : i # j => (group'[i] = group'[j] <=> R(i, j))
  BY <1>1, <1>4 DEF GroupsAreClasses, Matches
<1>5. \A i, j \in 1..placed : i # j => (group[i] = group[j] <=> R(i, j))
  BY DEF GroupsAreClasses
<1>6. \A i, j, k \in Positions :
          (R(i, j) => R(j, i)) /\ (R(i, j) /\ R(j, k) => R(i, k))
  BY DEF Equivalence
<1>7. ASSUME NEW j \in 1..placed
      PROVE  group'[n] = group[j] <=> R(n, j)
  <2>1. j \in Positions /\ group[j] \in Nat /\ group[j] <= opened
    BY <1>2
  <2>2. CASE Candidates(n) = {} /\ group'[n] = opened + 1
    <3>1. ~R(n, j)
      BY <2>2 DEF Candidates
    <3> QED
      BY <1>2, <2>1, <2>2, <3>1
  <2>3. CASE group'[n] \in Candidates(n)
    <3>1. PICK m \in 1..placed : R(n, m) /\ group'[n] = group[m]
      BY <2>3 DEF Candidates
    <3>2. m \in Positions
      BY <1>2
    <3>3. group[m] = group[j] => R(n, j)
      <4>1. m # j /\ group[m] = group[j] => R(m, j)
        BY <1>5, <3>1
      <4> QED
        BY <1>1, <1>6, <2>1, <3>1, <3>2, <4>1
    <3>4. R(n, j) => group[m] = group[j]
      <4>1. R(n, j) => R(m, j)
        BY <1>1, <1>6, <2>1, <3>1, <3>2
      <4> QED
        BY <1>5, <3>1, <4>1
    <3> QED
      BY <3>1, <3>3, <3>4
  <2> QED
    BY <1>1, <2>2, <2>3
<1>8. ASSUME NEW j \in 1..placed
      PROVE  R(n, j) <=> R(j, n)
  BY <1>1, <1>2, <1>6
<1>9. SUFFICES ASSUME NEW i \in 1..n, NEW j \in 1..n, i # j
               PROVE  group'[i] = group'[j] <=> R(i, j)
  OBVIOUS
<1>10. CASE i = n
  BY <1>2, <1>3, <1>7, <1>9, <1>10
<1>11. CASE j = n
  BY <1>2, <1>3, <1>7, <1>8, <1>9, <1>11
<1>12. CASE i # n /\ j # n
  BY <1>2, <1>3, <1>5, <1>9, <1>12
<1> QED
  BY <1>10, <1>11, <1>12

(* Where matching is an equivalence, the groups are its classes, whatever  *)
(* order the results come in.                                              *)
THEOREM Classes == Grouping => []GroupsAreClasses
<1>1. Ungrouped => GroupsAreClasses
  BY DEF Ungrouped, GroupsAreClasses
<1>2. GroupsOK /\ GroupsAreClasses /\ [Place]_groupingVars => GroupsAreClasses'
  <2> SUFFICES ASSUME GroupsOK, GroupsAreClasses, [Place]_groupingVars
               PROVE  GroupsAreClasses'
    OBVIOUS
  <2>1. CASE Place
    BY <2>1, ClassesStep
  <2>2. CASE UNCHANGED groupingVars
    BY <2>2 DEF groupingVars, GroupsAreClasses, Equivalence, Matches
  <2> QED
    BY <2>1, <2>2
<1> QED
  BY GroupsTypeCorrect, <1>1, <1>2, PTL DEF Grouping
---------------------------------------------------------------------------
(* What the choices of merging and ranking choose.                         *)

Peopled == \A g \in 1..opened : Members(g) # {}

TimesOf(g) == {ResponseTime[results[i].provider] : i \in Members(g)}

Chosen(g) ==
    /\ Primary(g) \in Members(g)
    /\ \A j \in Members(g) : PriorityOf(Primary(g)) >= PriorityOf(j)
    /\ MinResponseTime(g) \in TimesOf(g)
    /\ \A t \in TimesOf(g) : MinResponseTime(g) <= t

ChoicesMade == \A g \in 1..opened : Chosen(g)

LEMMA FirstIs ==
    ASSUME NEW S \in SUBSET Nat, S # {}
    PROVE  FirstOf(S) \in S /\ \A j \in S : FirstOf(S) <= j
<1>1. \E i \in S : \A j \in S : i <= j
  BY LeastNatural
<1> QED
  BY <1>1 DEF FirstOf

(* A later member does not change who comes first.                         *)
LEMMA FirstStays ==
    ASSUME NEW m \in Nat, NEW S \in SUBSET (1..m), S # {}, NEW T,
           S \subseteq T, T \subseteq S \cup {m + 1}
    PROVE  T # {} /\ FirstOf(T) = FirstOf(S)
<1>1. T # {} /\ S \in SUBSET Nat /\ T \in SUBSET Nat
  <2>1. \A i \in S : i \in Nat
    OBVIOUS
  <2>2. m + 1 \in Nat
    OBVIOUS
  <2>3. \A i \in T : i \in S \/ i = m + 1
    OBVIOUS
  <2>4. \A i \in T : i \in Nat
    BY <2>1, <2>2, <2>3
  <2>5. T # {}
    OBVIOUS
  <2> QED
    BY <2>1, <2>4, <2>5
<1>2. FirstOf(S) \in S /\ \A j \in S : FirstOf(S) <= j
  BY <1>1, FirstIs
<1>3. FirstOf(T) \in T /\ \A j \in T : FirstOf(T) <= j
  BY <1>1, FirstIs
<1> DEFINE a == FirstOf(S)
           b == FirstOf(T)
<1> HIDE DEF a, b
<1>4. a \in 1..m /\ b \in Nat /\ b <= a
  BY <1>1, <1>2, <1>3 DEF a, b
<1>5. b \in S
  BY <1>3, <1>4 DEF b
<1>6. a <= b
  BY <1>2, <1>5 DEF a
<1> QED
  BY <1>1, <1>4, <1>6 DEF a, b

LEMMA MembersTyped ==
    ASSUME GroupsOK, NEW g
    PROVE  /\ Members(g) \subseteq 1..placed /\ IsFiniteSet(Members(g))
           /\ \A i \in Members(g) : /\ i \in Positions /\ i \in Nat
                                    /\ PriorityOf(i) \in Int
                                    /\ ResponseTime[results[i].provider] \in Nat
<1>1. placed \in Nat /\ 1..placed \subseteq Positions
  BY DeduplicationAssumption DEF GroupsOK, Positions
<1>2. Members(g) \in SUBSET (1..placed)
  BY DEF Members
<1>3. IsFiniteSet(Members(g))
  BY <1>1, <1>2, FS_Interval, FS_Subset
<1>4. ASSUME NEW i \in Members(g)
      PROVE  /\ i \in Positions /\ i \in Nat
             /\ PriorityOf(i) \in Int /\ ResponseTime[results[i].provider] \in Nat
  <2>1. i \in Positions /\ i \in Nat
    BY <1>1, <1>2
  <2>2. results[i].provider \in Contributors
    BY <2>1 DEF GroupsOK, Result
  <2> QED
    BY <2>1, <2>2, DeduplicationAssumption DEF PriorityOf
<1> QED
  BY <1>2, <1>3, <1>4

LEMMA SomethingChosen ==
    ASSUME GroupsOK, NEW g, Members(g) # {}
    PROVE  Chosen(g)
<1> DEFINE S == Members(g)
           P == [i \in S |-> PriorityOf(i)]
           R == {q \in S \X S : P[q[1]] > P[q[2]] \/ (P[q[1]] = P[q[2]] /\ q[1] < q[2])}
<1>1. IsFiniteSet(S) /\ \A i \in S : i \in Nat /\ P[i] \in Int
  BY MembersTyped
<1>2. \A i \in S : P[i] = PriorityOf(i)
  OBVIOUS
<1>3. \A i, j \in S : <<i, j>> \in R <=> P[i] > P[j] \/ (P[i] = P[j] /\ i < j)
  <2> HIDE DEF P
  <2> QED
    OBVIOUS
<1> HIDE DEF S, P, R
<1>4. StrictOrder(S, R)
  <2>1. \A i \in S : <<i, i>> \notin R
    BY <1>1, <1>3
  <2>2. \A i, j \in S : i # j => <<i, j>> \in R \/ <<j, i>> \in R
    BY <1>1, <1>3
  <2>3. \A i, j, k \in S : <<i, j>> \in R /\ <<j, k>> \in R => <<i, k>> \in R
    BY <1>1, <1>3
  <2> QED
    BY <2>1, <2>2, <2>3 DEF StrictOrder
<1>5. PICK x \in S : \A y \in S : y # x => <<x, y>> \in R
  BY <1>1, <1>4, FirstInOrder DEF S
<1>6. \A y \in S : P[x] > P[y] \/ (P[x] = P[y] /\ x <= y)
  <2> TAKE y \in S
  <2>1. CASE y = x
    BY <1>1, <2>1
  <2>2. CASE y # x
    <3>1. <<x, y>> \in R
      BY <1>5, <2>2
    <3>2. P[x] > P[y] \/ (P[x] = P[y] /\ x < y)
      BY <1>3, <1>5, <3>1
    <3> QED
      BY <1>1, <1>5, <3>2
  <2> QED
    BY <2>1, <2>2
<1>7. /\ Primary(g) \in S
      /\ \A j \in S : \/ PriorityOf(Primary(g)) > PriorityOf(j)
                      \/ PriorityOf(Primary(g)) = PriorityOf(j) /\ Primary(g) <= j
  <2>1. \E i \in Members(g) : \A j \in Members(g) :
            PriorityOf(i) > PriorityOf(j) \/ (PriorityOf(i) = PriorityOf(j) /\ i <= j)
    BY <1>2, <1>6 DEF S
  <2> QED
    BY <2>1 DEF Primary, S
<1>8. \A j \in S : PriorityOf(Primary(g)) >= PriorityOf(j)
  BY <1>1, <1>2, <1>7
<1>9. TimesOf(g) \in SUBSET Nat /\ TimesOf(g) # {}
  BY MembersTyped DEF TimesOf
<1>10. \E t \in TimesOf(g) : \A u \in TimesOf(g) : t <= u
  BY <1>9, LeastNatural
<1>11. MinResponseTime(g) \in TimesOf(g) /\ \A t \in TimesOf(g) : MinResponseTime(g) <= t
  BY <1>10 DEF MinResponseTime, TimesOf
<1> QED
  BY <1>7, <1>8, <1>11 DEF Chosen, S

LEMMA PeopledStep ==
    ASSUME GroupsOK, Peopled, Place
    PROVE  Peopled'
<1> DEFINE n == placed + 1
<1>1. /\ n \in Positions /\ placed' = n
      /\ \A i \in Positions : i # n => group'[i] = group[i]
      /\ \/ group'[n] = opened + 1 /\ opened' = opened + 1
         \/ opened' = opened
  BY OneAtATime
<1>2. placed \in Nat /\ opened \in Nat /\ 1..placed \subseteq Positions
  BY DeduplicationAssumption DEF GroupsOK, Positions
<1>3. SUFFICES ASSUME NEW g \in 1..opened' PROVE \E i \in 1..placed' : group'[i] = g
  BY DEF Peopled, Members
<1>4. CASE g \in 1..opened
  <2>1. PICK i \in 1..placed : group[i] = g
    BY <1>4 DEF Peopled, Members
  <2>2. i \in Positions /\ i # n /\ i \in 1..placed'
    BY <1>1, <1>2
  <2> QED
    BY <1>1, <2>1, <2>2
<1>5. CASE g \notin 1..opened
  <2>1. group'[n] = g /\ n \in 1..placed'
    BY <1>1, <1>2, <1>3, <1>5
  <2> QED
    BY <2>1
<1> QED
  BY <1>4, <1>5

(* Every group has a member, so there is something to choose from.         *)
THEOREM Choices == Grouping => [](GroupsOK /\ Peopled /\ ChoicesMade)
<1>1. Ungrouped => Peopled
  BY DEF Ungrouped, Peopled
<1>2. GroupsOK /\ Peopled /\ [Place]_groupingVars => Peopled'
  <2> SUFFICES ASSUME GroupsOK, Peopled, [Place]_groupingVars
               PROVE  Peopled'
    OBVIOUS
  <2>1. CASE Place
    BY <2>1, PeopledStep
  <2>2. CASE UNCHANGED groupingVars
    BY <2>2 DEF groupingVars, Peopled, Members
  <2> QED
    BY <2>1, <2>2
<1>3. GroupsOK /\ Peopled => ChoicesMade
  BY SomethingChosen DEF Peopled, ChoicesMade
<1> QED
  BY GroupsTypeCorrect, <1>1, <1>2, <1>3, PTL DEF Grouping

(* In descending order of priority, who comes first is preferred.          *)
LEMMA FirstIsPreferred ==
    ASSUME GroupsOK, \A i, j \in Positions : i < j => PriorityOf(i) >= PriorityOf(j),
           NEW g, NEW S \in SUBSET Members(g), S # {}
    PROVE  Preferred(FirstOf(S), S)
<1>1. \A i \in S : i \in Positions /\ i \in Nat /\ PriorityOf(i) \in Int
  BY MembersTyped
<1>2. FirstOf(S) \in S /\ \A j \in S : FirstOf(S) <= j
  <2>1. S \in SUBSET Nat
    BY <1>1
  <2> QED
    BY <2>1, FirstIs
<1>3. ASSUME NEW j \in S PROVE PriorityOf(FirstOf(S)) >= PriorityOf(j)
  <2>1. FirstOf(S) = j \/ FirstOf(S) < j
    BY <1>1, <1>2
  <2> QED
    BY <1>1, <1>2, <2>1
<1> QED
  BY <1>2, <1>3 DEF Preferred

LEMMA Prefers == GroupsOK /\ Peopled /\ ChoicesMade => DefaultOrderPrefers
<1> SUFFICES ASSUME GroupsOK, Peopled, ChoicesMade,
                    \A i, j \in Positions : i < j => PriorityOf(i) >= PriorityOf(j),
                    NEW g \in 1..opened
             PROVE  /\ Preferred(TitleFrom(g), Members(g))
                    /\ Preferred(TypeFrom(g), Typed(g))
                    /\ ImageFrom(g) # None => Preferred(ImageFrom(g), Pictured(g))
  BY DEF DefaultOrderPrefers, FieldsFromPreferred
<1>1. Preferred(TitleFrom(g), Members(g))
  BY DEF ChoicesMade, Chosen, Preferred, TitleFrom, Peopled
<1>2. Preferred(TypeFrom(g), Typed(g))
  <2>1. Typed(g) \in SUBSET Members(g)
    BY DEF Typed
  <2>2. CASE Typed(g) = {}
    BY <2>2 DEF Preferred, TypeFrom, FirstOf
  <2>3. CASE Typed(g) # {}
    BY <2>1, <2>3, FirstIsPreferred DEF TypeFrom
  <2> QED
    BY <2>2, <2>3
<1>3. ASSUME ImageFrom(g) # None PROVE Preferred(ImageFrom(g), Pictured(g))
  <2>1. Pictured(g) \in SUBSET Members(g)
    BY DEF Pictured
  <2>2. ImageFrom(g) = FirstOf(Pictured(g))
    BY <1>3 DEF ImageFrom
  <2>3. Pictured(g) # {}
    BY <1>3, <2>2 DEF FirstOf
  <2> QED
    BY <2>1, <2>2, <2>3, FirstIsPreferred
<1> QED
  BY <1>1, <1>2, <1>3

(* Where the results come in descending priority, every field of a merged  *)
(* record is that of the preferred provider that has it.                   *)
THEOREM Preference == Grouping => []DefaultOrderPrefers
BY Choices, Prefers, PTL

---------------------------------------------------------------------------
LEMMA NotBelow ==
    ASSUME NEW p \in Int, NEW q \in Int, NEW c \in Nat, NEW d \in Nat,
           NEW t \in Nat, NEW u \in Nat, q >= p, d >= c, u <= t
    PROVE  ~RanksBelow(<<q, d, u>>, <<p, c, t>>)
  BY DEF RanksBelow

(* What another member does to the choices for a group.                    *)
LEMMA SourcesStep ==
    ASSUME GroupsOK, Peopled, ChoicesMade, GroupsOK', ChoicesMade', Place,
           NEW g \in 1..opened
    PROVE  ~RanksBelow(RankKey(g)', RankKey(g))
<1> DEFINE n == placed + 1
<1>1. /\ n \in Positions /\ placed' = n /\ results' = results
      /\ \A i \in Positions : i # n => group'[i] = group[i]
      /\ opened' = opened \/ opened' = opened + 1
  BY OneAtATime
<1>2. placed \in Nat /\ opened \in Nat /\ 1..placed \subseteq Positions
  BY DeduplicationAssumption DEF GroupsOK, Positions
<1>3. Members(g) \subseteq Members(g)' /\ Members(g)' \subseteq Members(g) \cup {n}
  <2>1. \A i \in 1..placed : group'[i] = group[i] /\ i \in 1..placed'
    BY <1>1, <1>2
  <2>2. \A i \in 1..placed' : i \in 1..placed \/ i = n
    BY <1>1, <1>2
  <2> QED
    BY <2>1, <2>2 DEF Members
<1>4. Chosen(g) /\ Chosen(g)'
  <2>1. g \in 1..opened'
    BY <1>1, <1>2
  <2> QED
    BY <2>1 DEF ChoicesMade
<1>5. Members(g) \subseteq 1..placed /\ n \notin Members(g)
  BY <1>2 DEF Members
<1>6. MaxPriority(g) \in Int /\ MaxPriority(g)' \in Int /\ MaxPriority(g)' >= MaxPriority(g)
  <2>1. \A i : PriorityOf(i)' = PriorityOf(i)
    BY <1>1 DEF PriorityOf
  <2>2. /\ Primary(g) \in Members(g)
        /\ Primary(g)' \in Members(g)'
        /\ \A j \in Members(g)' : PriorityOf(Primary(g)') >= PriorityOf(j)
    BY <1>4, <2>1 DEF Chosen, PriorityOf
  <2>3. PriorityOf(Primary(g)) \in Int
    BY <2>2, MembersTyped
  <2>4. PriorityOf(Primary(g)') \in Int
    <3>1. Primary(g)' \in Positions
      BY <1>1, <1>2, <1>3, <1>5, <2>2
    <3>2. results[Primary(g)'].provider \in Contributors
      BY <3>1 DEF GroupsOK, Result
    <3> QED
      BY <3>2, DeduplicationAssumption DEF PriorityOf
  <2>5. MaxPriority(g)' = PriorityOf(Primary(g)')
    BY <1>1 DEF MaxPriority, PriorityOf
  <2> QED
    BY <1>3, <2>2, <2>3, <2>4, <2>5 DEF MaxPriority
<1>7. /\ MinResponseTime(g) \in Nat /\ MinResponseTime(g)' \in Nat
      /\ MinResponseTime(g)' <= MinResponseTime(g)
  <2>1. TimesOf(g) \subseteq TimesOf(g)'
    BY <1>1, <1>3 DEF TimesOf
  <2>2. TimesOf(g) \subseteq Nat
    BY MembersTyped DEF TimesOf
  <2>3. TimesOf(g)' \subseteq Nat
    <3>1. \A i \in Positions : ResponseTime[results[i].provider] \in Nat
      BY DeduplicationAssumption DEF GroupsOK, Result
    <3>2. Members(g)' \subseteq Positions
      BY <1>1, <1>2, <1>3, <1>5
    <3> QED
      BY <1>1, <3>1, <3>2 DEF TimesOf
  <2>4. /\ MinResponseTime(g) \in TimesOf(g)
        /\ MinResponseTime(g)' \in TimesOf(g)'
        /\ \A t \in TimesOf(g)' : MinResponseTime(g)' <= t
    BY <1>4 DEF Chosen
  <2> QED
    BY <2>1, <2>2, <2>3, <2>4
<1>8. TypeFrom(g) # None => TypeFrom(g)' # None
  <2> SUFFICES ASSUME TypeFrom(g) # None PROVE TypeFrom(g)' = TypeFrom(g)
    OBVIOUS
  <2> DEFINE S == Typed(g)
             T == Typed(g)'
  <2>1. S # {}
    BY DEF TypeFrom, FirstOf
  <2>2. S \in SUBSET (1..placed) /\ S \subseteq T /\ T \subseteq S \cup {n}
    BY <1>1, <1>3, <1>5 DEF Typed
  <2>3. TypeFrom(g) = FirstOf(S) /\ TypeFrom(g)' = FirstOf(T)
    BY DEF TypeFrom, FirstOf
  <2> HIDE DEF S, T
  <2>4. FirstOf(T) = FirstOf(S)
    BY <1>2, <2>1, <2>2, FirstStays
  <2> QED
    BY <2>3, <2>4
<1>9. ImageFrom(g) # None => ImageFrom(g)' # None
  <2> SUFFICES ASSUME ImageFrom(g) # None PROVE ImageFrom(g)' = ImageFrom(g)
    OBVIOUS
  <2> DEFINE S == Pictured(g)
             T == Pictured(g)'
  <2>1. S # {}
    BY DEF ImageFrom, FirstOf
  <2>2. S \in SUBSET (1..placed) /\ S \subseteq T /\ T \subseteq S \cup {n}
    BY <1>1, <1>3, <1>5 DEF Pictured
  <2>3. FirstOf(Pictured(g))' = FirstOf(T)
    BY DEF FirstOf
  <2> HIDE DEF S, T
  <2>4. FirstOf(T) = FirstOf(S)
    BY <1>2, <2>1, <2>2, FirstStays
  <2>5. FirstOf(Pictured(g))' = FirstOf(Pictured(g))
    BY <2>3, <2>4 DEF S
  <2> QED
    BY <1>1, <2>5 DEF ImageFrom
<1>10. /\ Completeness(g) \in Nat /\ Completeness(g)' \in Nat
       /\ Completeness(g)' >= Completeness(g)
  BY <1>8, <1>9 DEF Completeness
<1>11. ~RanksBelow(<<MaxPriority(g)', Completeness(g)', MinResponseTime(g)'>>,
                   <<MaxPriority(g), Completeness(g), MinResponseTime(g)>>)
  BY <1>6, <1>7, <1>10, NotBelow
<1> QED
  BY <1>11 DEF RankKey

(* A further source that comes after the others never makes a record rank  *)
(* lower, whatever it is and has, for any similarity and priorities.       *)
THEOREM Ranking == Grouping => LaterSourcesNeverHurt
<1> DEFINE Good == GroupsOK /\ Peopled /\ ChoicesMade
<1>1. Good /\ Good' /\ [Place]_groupingVars
          => [\A g \in 1..opened : ~RanksBelow(RankKey(g)', RankKey(g))]_groupingVars
  BY SourcesStep
<1>2. Grouping => []Good
  BY Choices
<1> QED
  BY <1>1, <1>2, PTL DEF Grouping, LaterSourcesNeverHurt
=============================================================================
