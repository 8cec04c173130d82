----------------------------- MODULE Ingestion -----------------------------
(***************************************************************************)
(* Concurrent requests for IngestAnimeFromProvider, each on an             *)
(* SQLAlchemyCatalogUnitOfWork of its own, a transaction of PostgreSQL     *)
(* under READ COMMITTED, with episodes that come through EpisodeFetch.     *)
(*                                                                         *)
(* A request looks its slug up, asks the provider, looks again, gets or    *)
(* creates the genres one by one, builds the episodes, adds the anime and  *)
(* commits.  The first lookup opens the transaction, and nothing ends it   *)
(* before the request ends: from then on it holds one connection of the    *)
(* pool.  A row that is flushed is seen by its own transaction only; who   *)
(* flushes the same key waits until that transaction ends, and fails if    *)
(* it commits.                                                             *)
(*                                                                         *)
(* The committed rows are those of Catalog, each anime under the request   *)
(* that added it.  Of the attempts to get the episodes only the last is a  *)
(* call of EpisodeFetch.  Titles, sources and types are left out: a        *)
(* request whose data the entities refuse for them fails in RefusesData.   *)
(***************************************************************************)
EXTENDS EpisodeFetch

CONSTANTS Requests,
          SlugOf,        \* _build_slug of the reference each asks for
          GenresOf,      \* its genres, as normalize_genre_names leaves them
          KeywordsOf,    \* the statuses that keywords in its status stand for
          PoolSize,      \* connections of the engine
          Slugs, Genres, EpisodeNumbers, NoRequest, NoAnime, NoEpisode

ASSUME IngestionAssumption ==
    /\ PoolSize \in Nat \ {0}
    /\ IsFiniteSet(Requests) /\ Calls = Requests
    /\ SlugOf \in [Requests -> Slugs]
    /\ GenresOf \in [Requests -> Seq(Genres)]
    /\ KeywordsOf \in
         [Requests -> SUBSET {"cancelled", "paused", "completed", "ongoing", "announced"}]
    /\ EpisodeNumbers \subseteq Nat \ {0}
    /\ NoRequest \notin Requests

(* normalize_status: the first keyword of the table that is found decides. *)
NormalizeStatus(found) ==
    IF "cancelled" \in found THEN "cancelled"
    ELSE IF "paused" \in found THEN "paused"
    ELSE IF "completed" \in found THEN "completed"
    ELSE IF "ongoing" \in found THEN "ongoing"
    ELSE "announced"

(* parse_anime_detail; what the entities refuse comes to RefusesData.      *)
Detail(r) == [keywords |-> KeywordsOf[r], genres |-> GenresOf[r]]

(* to_normalized_anime, as far as an anime is built from it: its slug is   *)
(* made of the reference, not of the title.                                *)
Normalized(r) ==
    [status |-> NormalizeStatus(Detail(r).keywords), genres |-> ToSet(Detail(r).genres)]

VARIABLES at,         \* where each request is
          seen,       \* how many genres it has got or created
          flushed,    \* keys of its uncommitted rows
          result,     \* the anime it was answered with
          animes,     \* committed rows
          genres

requestVars == <<at, seen, flushed, result>>
tables == <<animes, genres>>
vars == <<fetchVars, requestVars, tables>>

Done == {"served", "failed"}

InTransaction == {"detail", "episodes", "recheck", "genres", "new_genre", "anime", "commit"}

Listings == [{1} \X EpisodeNumbers -> {NoEpisode, [external_ids |-> {}, sources |-> <<>>]}]

Catalog == INSTANCE Catalog WITH
    AnimeIds <- Requests, LabelSlugs <- Genres, SeasonNumbers <- {1},
    ExternalIds <- {}, StreamingSources <- {}, FirstStatuses <- {Normalized(r).status : r \in Requests},
    RelationTypes <- {}, MaxWrites <- Cardinality(Requests),
    labels <- [k \in {"genre", "studio", "producer", "tag"} |->
                   IF k = "genre" THEN genres ELSE {}],
    writes <- Cardinality({r \in Requests : animes[r] # NoAnime})

ASSUME NoAnimeAssumption == NoAnime \notin Catalog!Anime

Init ==
    /\ FetchInit
    /\ at = [r \in Requests |-> "idle"]
    /\ seen = [r \in Requests |-> 0]
    /\ flushed = [r \in Requests |-> {}]
    /\ result = [r \in Requests |-> NoRequest]
    /\ animes = [r \in Requests |-> NoAnime]
    /\ genres = {}

---------------------------------------------------------------------------
Connected == {r \in Requests : at[r] \in InTransaction}

Go(r, place) == at' = [at EXCEPT ![r] = place]

(* Wrong variant: what was flushed is kept.                                *)
EndUnrolled(r, place) ==
    /\ Go(r, place)
    /\ UNCHANGED <<seen, flushed, result>>

(* The request ends without having committed: __aexit__ or the end of the  *)
(* session rolls back, and the connection returns to the pool.             *)
End(r, place) ==
    /\ Go(r, place)
    /\ flushed' = [flushed EXCEPT ![r] = {}]
    /\ UNCHANGED <<seen, result>>

Serve(r, a) ==
    /\ Go(r, "served")
    /\ result' = [result EXCEPT ![r] = a]
    /\ flushed' = [flushed EXCEPT ![r] = {}]
    /\ UNCHANGED <<seen>>

(* get_by_slug.  No request adds an anime it has to look for again.        *)
Found(r) == {a \in Catalog!Stored : animes[a].slug = SlugOf[r]}

LookUp(r, next) ==
    /\ IF Found(r) # {} THEN \E a \in Found(r) : Serve(r, a)
       ELSE Go(r, next) /\ UNCHANGED <<seen, flushed, result>>
    /\ UNCHANGED <<fetchVars, tables>>

Arrive(r) ==
    /\ at[r] = "idle"
    /\ Go(r, "lookup")
    /\ UNCHANGED <<fetchVars, seen, flushed, result, tables>>

FirstLookup(r) ==
    /\ at[r] = "lookup"
    /\ Cardinality(Connected) < PoolSize
    /\ LookUp(r, "detail")

PoolTimesOut(r) ==
    /\ at[r] = "lookup"
    /\ Cardinality(Connected) >= PoolSize
    /\ End(r, "failed")
    /\ UNCHANGED <<fetchVars, tables>>

DetailComes(r) ==
    /\ at[r] = "detail"
    /\ Go(r, "episodes")
    /\ GetEpisodes(r)
    /\ UNCHANGED <<seen, flushed, result, tables>>

(* The site answers 404, or one of the genres is kept out.                 *)
DetailMissing(r) ==
    /\ at[r] = "detail"
    /\ End(r, "failed")
    /\ UNCHANGED <<fetchVars, tables>>

(* Every attempt to get the page failed or came too late, or the manager   *)
(* did not make one.                                                       *)
DetailFails(r) ==
    /\ at[r] = "detail"
    /\ End(r, "failed")
    /\ UNCHANGED <<fetchVars, tables>>

EpisodesFail(r) ==
    /\ at[r] = "episodes"
    /\ call[r] \in {"failed", "timed_out"}
    /\ End(r, "failed")
    /\ UNCHANGED <<fetchVars, tables>>

EpisodesCome(r) ==
    /\ at[r] = "episodes"
    /\ call[r] = "answered"
    /\ Go(r, "recheck")
    /\ UNCHANGED <<fetchVars, seen, flushed, result, tables>>

Recheck(r) ==
    /\ at[r] = "recheck"
    /\ LookUp(r, "genres")

Genre(r) == GenresOf[r][seen[r] + 1]

(* Wrong variant: READ UNCOMMITTED.                                        *)
DirtyGenres(r) ==
    {g \in Genres : g \in genres \/ \E t \in Requests : <<"genre", g>> \in flushed[t]}

VisibleGenres(r) == {g \in Genres : g \in genres \/ <<"genre", g>> \in flushed[r]}

GetGenre(r) ==
    /\ at[r] = "genres"
    /\ seen[r] < Len(GenresOf[r])
    /\ IF Genre(r) \in VisibleGenres(r)
       THEN seen' = [seen EXCEPT ![r] = @ + 1] /\ UNCHANGED at
       ELSE Go(r, "new_genre") /\ UNCHANGED seen
    /\ UNCHANGED <<fetchVars, flushed, result, tables>>

(* Wrong variant: animes.slug is not unique.                               *)
CommittedGenre(key) == key[1] = "genre" /\ key[2] \in genres

(* The unique columns, animes.slug and genres.slug.                        *)
Committed(key) ==
    \/ key[1] = "genre" /\ key[2] \in genres
    \/ key[1] = "anime" /\ \E a \in Catalog!Stored : animes[a].slug = key[2]

HeldByOther(r, key) == \E t \in Requests \ {r} : key \in flushed[t]

Flush(r, key) ==
    /\ ~HeldByOther(r, key)
    /\ ~Committed(key)
    /\ flushed' = [flushed EXCEPT ![r] = @ \cup {key}]

(* What r is about to flush.                                               *)
Key(r) == IF at[r] = "new_genre" THEN <<"genre", Genre(r)>> ELSE <<"anime", SlugOf[r]>>

Flushing == {r \in Requests : at[r] \in {"new_genre", "anime"}}

CreateGenre(r) ==
    /\ at[r] = "new_genre"
    /\ Flush(r, Key(r))
    /\ seen' = [seen EXCEPT ![r] = @ + 1]
    /\ Go(r, "genres")
    /\ UNCHANGED <<fetchVars, result, tables>>

(* Episode numbers are positive and come once.                             *)
Sound(numbers) ==
    /\ ToSet(numbers) \subseteq EpisodeNumbers
    /\ \A i, j \in DOMAIN numbers : numbers[i] = numbers[j] => i = j

Builds(r) == at[r] = "genres" /\ seen[r] = Len(GenresOf[r])

BuildEpisodes(r) ==
    /\ Builds(r)
    /\ Sound(answer[r])
    /\ Go(r, "anime")
    /\ UNCHANGED <<fetchVars, seen, flushed, result, tables>>

RefusesData(r) ==
    /\ Builds(r)
    /\ End(r, "failed")
    /\ UNCHANGED <<fetchVars, tables>>

AddAnime(r) ==
    /\ at[r] = "anime"
    /\ Flush(r, Key(r))
    /\ Go(r, "commit")
    /\ UNCHANGED <<fetchVars, seen, result, tables>>

(* IntegrityError, once the transaction that holds the key has committed.  *)
KeyTaken(r) ==
    /\ r \in Flushing
    /\ Committed(Key(r))
    /\ End(r, "failed")
    /\ UNCHANGED <<fetchVars, tables>>

WaitsFor(r, t) == r \in Flushing /\ t # r /\ Key(r) \in flushed[t]

(* PostgreSQL ends a cycle of transactions that wait for each other by     *)
(* aborting one of them.                                                   *)
DeadlockVictim(r) ==
    /\ \E cycle \in SUBSET Requests :
          /\ r \in cycle
          /\ \A t \in cycle : /\ \E u \in cycle : WaitsFor(t, u)
                              /\ \E u \in cycle : WaitsFor(u, t)
    /\ End(r, "failed")
    /\ UNCHANGED <<fetchVars, tables>>

Listing(numbers) ==
    [p \in {1} \X EpisodeNumbers |->
        IF p[2] \in ToSet(numbers) THEN Catalog!NewEpisode ELSE NoEpisode]

Commit(r) ==
    /\ at[r] = "commit"
    /\ animes' = [animes EXCEPT ![r] =
          Catalog!Ingested(SlugOf[r], Normalized(r).status, Normalized(r).genres,
                           Listing(answer[r]))]
    /\ genres' = genres \cup {g \in Genres : <<"genre", g>> \in flushed[r]}
    /\ Serve(r, r)
    /\ UNCHANGED fetchVars

(* The process ends: what was not committed is gone, and so is everybody   *)
(* who waited.                                                             *)
Crash ==
    /\ \E r \in Requests : at[r] \notin Done \cup {"idle"}
    /\ at' = [r \in Requests |-> IF at[r] \in Done \cup {"idle"} THEN at[r] ELSE "failed"]
    /\ flushed' = [r \in Requests |-> {}]
    /\ call' = [c \in Calls |-> IF call[c] \in Pending THEN "failed" ELSE call[c]]
    /\ queue' = <<>>
    /\ fetching' = {}
    /\ permits' = MaxFetches
    /\ UNCHANGED <<listed, results, answer, seen, result, tables>>

AsksProvider(r) ==
    \/ DetailComes(r)
    \/ DetailMissing(r)
    \/ DetailFails(r)
    \/ EpisodesFail(r)
    \/ EpisodesCome(r)

Stores(r) ==
    \/ Recheck(r)
    \/ GetGenre(r)
    \/ CreateGenre(r)
    \/ BuildEpisodes(r)
    \/ RefusesData(r)
    \/ AddAnime(r)
    \/ KeyTaken(r)
    \/ DeadlockVictim(r)
    \/ Commit(r)

FetchProgress ==
    /\ \/ \E c \in Calls : PageAnswers(c) \/ Gathered(c)
       \/ Acquire
       \/ \E t \in fetching : FetchEnds(t)
    /\ UNCHANGED <<requestVars, tables>>

CallTimesOut(c) == TimesOut(c) /\ UNCHANGED <<requestVars, tables>>

Progress ==
    \/ FetchProgress
    \/ \E r \in Requests : FirstLookup(r) \/ AsksProvider(r) \/ Stores(r)

Next ==
    \/ Progress
    \/ \E r \in Requests : Arrive(r) \/ PoolTimesOut(r)
    \/ \E c \in Calls : CallTimesOut(c)
    \/ Crash

Spec == Init /\ [][Next]_vars

(* The system does not stop while one of its parts can go on: the database *)
(* answers, the HTTP client gives up on a page that does not come, and the *)
(* event loop runs what can run.  Nobody is sure to arrive, to crash, or   *)
(* to be timed out by the manager or the pool.  (No part can go on for     *)
(* ever, so nobody needs a fairness of his own.)                           *)
FairSpec == Spec /\ WF_vars(Progress)

---------------------------------------------------------------------------
TypeOK ==
    /\ at \in [Requests -> {"idle", "lookup"} \cup InTransaction \cup Done]
    /\ seen \in [Requests -> Nat]
    /\ flushed \in [Requests -> SUBSET (({"genre"} \X Genres) \cup ({"anime"} \X Slugs))]
    /\ result \in [Requests -> Requests \cup {NoRequest}]
    /\ animes \in [Requests -> Catalog!Anime \cup {NoAnime}]
    /\ genres \subseteq Genres

(* A request leaves all of its rows or none, however it ends: the genres   *)
(* in the table are those of the animes in the table.  Nothing but this    *)
(* makes genre_ids, an array without foreign keys, point at rows.          *)
AllOrNothing == genres = UNION {animes[a].genres : a \in Catalog!Stored}

(* Requests that ask for one slug are served one anime, the one in the     *)
(* table, however close they come.                                         *)
OneAnimePerSlug ==
    \A r, s \in Requests :
        /\ at[r] = "served" => result[r] \in Found(r)
        /\ {at[r], at[s]} = {"served"} /\ SlugOf[r] = SlugOf[s] => result[r] = result[s]

(* Every request ends, although requests wait for the pool, for pages      *)
(* fetched for others, and for each other's rows.                          *)
IngestionsEnd == <>[](\A r \in Requests : at[r] \in Done \cup {"idle"})

(* What is committed changes as if each ingestion were one step: this is   *)
(* Catalog!Spec, whose variables are functions of the tables, written so   *)
(* that TLC evaluates Catalog!Next only where they change.                 *)
ImplementsCatalog ==
    Catalog!Init /\ [][UNCHANGED tables \/ Catalog!Next]_vars
=============================================================================
