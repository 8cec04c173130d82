# geek-back: formal models

TLA+ models of the backend in `src/src/geekbaku`, TLC configurations that check
them on small instances, and theorems about them checked by TLAPS. Paths below
are relative to `src/src/geekbaku` unless they start with `docs/`.

## 1. The system

A FastAPI application on one asyncio event loop. A coroutine gives up the loop
only at a call to an external provider (under `asyncio.wait_for`), at a backoff
sleep, at a semaphore, at the start of the tasks of an `asyncio.gather`, and at
database I/O. The in-memory stores never wait: `await cache.get(...)` or
`await uow.sessions.add(...)` runs to its end without another coroutine in
between, so what lies between two real waits is one atomic step. All models use
that granularity. Synchronous FastAPI dependencies (`infrastructure/http/deps.py`)
are the exception: they run in worker threads.

| Component | State it keeps | Operations | Talks to |
|---|---|---|---|
| `application/providers/manager.py` ProviderManager | last good answer per key | directed calls, fan-outs, registration, invalidation | all provider components, adapters |
| `circuit_breaker.py` | state, failures, `opened_at` per provider | `allow_call`, `record_success`, `record_failure` | called by the manager |
| `health.py`, `domain/providers/entities.py` | status and failures per provider | `record_*`, `is_available` | called by the manager; read by fan-outs |
| `rate_limiter.py` | window start and count per provider | `allow` | called by the manager |
| `retry.py` | attempt and delay of a running dispatch | `run` | adapter, event loop |
| `cache.py` | entries with expiry | `get`, `set`, `invalidate`, `invalidate_matching` | manager, engine, playback |
| `stats.py` | counters per provider | `record_*` | manager |
| `registry.py` | registrations, enabled flag | `register` ... `disable` | manager |
| `infrastructure/providers` | one semaphore per scraping adapter | one request and a parse each, and `get_episodes` with its fetches | the site; called by the manager |
| `application/aggregation` | a cache of aggregates, metrics | search, latest, popular, detail, invalidate | manager |
| `application/identity`, `domain/identity`, `infrastructure/identity` | users, sessions, refresh tokens, failed logins, hits per IP | register, login, refresh, logout, profile | in-memory unit of work |
| `application/playback`, `domain/playback` | playback sessions, progress, a cache of sources | serve sources, create, select, save progress, next and previous episode | catalog |
| `application/ingestion` | none | ingest an anime from a provider | manager, catalog unit of work |
| `domain/catalog`, `application/catalog` | the catalog | create, add season, episode, source, relation; queries | unit of work |
| `infrastructure/catalog`, `infrastructure/db` | rows, a transaction per request, a pool | the repositories | PostgreSQL |
| `infrastructure/http` | process singletons | routes, dependencies | use cases |

What is hard here:

* **Late answers.** Calls overlap, and each updates breaker, health and
  statistics when *it* ends. Verdicts of calls admitted before the breaker
  opened arrive after it did.
* **Stale decisions.** A fan-out chooses its providers before its tasks run; a
  retry goes on after the state that admitted it is gone; a query reads rows,
  waits, and caches what it read.
* **Cancellation.** `CancelledError` is no `Exception`: a cancelled dispatch
  leaves no trace in any tracker, and the fetches under it must not either.
* **Two stores for one answer.** The cache expires and is invalidated, the
  fallback is not.
* **Windows and clocks.** Fixed windows (quota, guard, request limit), sleeps,
  and use cases that read the clock more than once.
* **Token chains.** Refresh tokens are rotated, and any of them may come back;
  access tokens cannot be taken back at all.
* **Long transactions.** An ingestion looks up, asks a provider, looks again and
  writes several rows, in one transaction that holds a connection throughout.

What makes the components correct: the breaker and health records agree with
each other and with the calls that really ended; a provider is never shut out
for good; default fan-outs avoid broken providers; every request is answered
within a bound; what was answered once shields the caller; statistics account
for every dispatch; bursts are bounded; a session has one working token while it
is open and none ever after, and access ends with it; an ingestion leaves all of
its rows or none, and one anime per reference; relations hold in both
directions; no write loses what another one stored; what a cache serves is
bounded in age; a session is completed exactly if its episode was watched.

## 2. Modules

| Module | Models | Composes |
|---|---|---|
| `ProviderControls` | breaker, health record and rate-limit window as records, one operator per method | |
| `ProviderAvailability` | the abstract promise: how the answers of concurrent calls move a provider's breaker and health | `ProviderControls` |
| `ProviderManager` | the manager with registry, cache, breaker, limiter, retries, health, statistics, fallback, fan-out, cancellation | `ProviderControls`; implements `ProviderAvailability` |
| `ProviderPacing` | window, timeout and backoff on an explicit clock | |
| `AggregationEngine` | the cache of aggregates, filled by searches that overlap | |
| `Deduplication` | grouping, merging and ranking of the results of one search | |
| `IdentitySessions` | login, refresh-token rotation, reuse detection, logout | |
| `Accounts` | the requests under `/api/v1/auth`: accounts, rate limit, guard, access tokens | `IdentitySessions`, which it implements |
| `CatalogAggregate` | one anime: its mutators, their conditions and the queries computed from it | |
| `Catalog` | the catalog under its use cases, each one step | `CatalogAggregate` |
| `EpisodeFetch` | `get_episodes` of the scraping adapters: tasks under one semaphore | |
| `Ingestion` | concurrent ingestions in transactions over a pool | `EpisodeFetch`; implements `Catalog` |
| `Playback` | sources and their cache, playback sessions, choice of a source | `CatalogAggregate` |
| `CatalogListing` | a walk over the pages of the catalog while others commit | |
| `Ordered` | what sorting a finite set makes of it | |
| `MC...` | symmetry sets and function-valued constants for TLC | the module they are named after |
| `...Proofs` | theorems (section 4) | the modules each EXTENDS |

Operators with the comment "Wrong variant" are plausible bugs. Nothing uses
them; each stands for a change under which one of the properties must fail.

### ProviderControls and ProviderAvailability

A breaker is `[state, failures, opened]`. The code's only question about
`opened_at` is whether `cooldown_seconds` have passed since, so `opened` is
`none`, `recent` or `elapsed`, and time is the step from `recent` to `elapsed`
(`CooldownElapses`). `Observed` is `current_state`, which makes an OPEN breaker
HALF_OPEN when it is read. `BreakerAfterSuccess` closes the breaker from *any*
state, and `BreakerAfterFailure` counts a failure also while OPEN, as the code
does. Health is `[status, failures]`. The window is `[count, over]`.

`ProviderAvailability` has one process per dispatch `<<r, p>>`: it is let
through (`Admit`), turned away (`Refuse`), ends without a verdict (`Leave`: cache
hit, unknown provider, cancellation) or reports one (`Succeed`, `Fail`).

### ProviderManager

| Code | Action or definition |
|---|---|
| `_dispatch`, entry to first wait | `Dispatch` = `UnknownProvider`, `CacheHit`, `BreakerRejects`, `QuotaRejects` or `CallsAdapter` |
| directed operations | `Directed`, dispatched in the caller's coroutine |
| `_fan_out`: choice of targets | `FanOutDefault` (enabled and not DOWN), `FanOutNamed` (any set, taken as given) |
| `gather` starts a task | `TaskStarts` |
| an attempt under `wait_for` ends | `AttemptSucceeds`, `AttemptFails` (then it sleeps), `LastAttemptFails` |
| backoff over | `Retry` |
| `gather` returns | `Gather` |
| client gone, shutdown | `Cancel` |
| `_try_fallback` | `HasFallback`, `OrFallback`, `FallbackCount` |
| `register` ... `disable`, `invalidate_*` | `Register` ... `Disable`, `Invalidate` |
| the clock | `CooldownElapses`, `WindowElapses`, `EntryExpires` |

Abstractions: an answer is a value or None (`get_anime_detail` may answer None,
which the cache reads as a miss but `_last_good` keeps); a cache entry is
absent, live or expired; response times and messages are left out. A request is
made once, so `Requests` bounds a behaviour. `get_catalog` is two directed
calls one after another. A fan-out that names the same provider twice is left
out: a request has one dispatch per provider. Priorities only order the
concatenated results, which no property is about.

### ProviderPacing

One provider whose breaker never trips, with `now` explicit. The loop is taken
to be punctual: the clock does not pass a due timer. `sent` is a history of what
reached the adapter. `PacingInit`, `PacingNext` and so on bear the module's name,
since `ProviderManagerProofs` EXTENDS it beside `ProviderManager`.

### AggregationEngine

A search is new, waiting for the manager (with what it asked and since when),
or over: served, none (a detail nobody has), empty (a detail without
references), cancelled. The manager is the set of providers that contributed
and an answer within `MaxWait`; an answer carries whom it was asked of and since
when, which is all the properties compare: `since` is when the *manager* was
asked. The manager may answer from its own cache, or with a provider's last good
answer of any age (`CacheHit` and `OrFallback` of `ProviderManager`), and
invalidating the engine touches neither, so nothing here bounds when the
*providers* were asked. `NoReferences`, `Serve` and
`AskManager` are the part of `search`, `_aggregate_listing` and
`aggregate_detail` before the manager is awaited, `ListingAnswered`,
`DetailAnswered` and `NothingFound` the part after it. `search`, `get_latest` and
`get_popular` differ in the first word of the key and are one listing here; only
the key of `search` can be invalidated by itself. `cleared` is a history of
invalidations. `infrastructure/http/deps.py` builds the engine without a cache
today; the tests and `docs/architecture.md` use it with one.

### Deduplication

`_group_by` takes a step for each result (`Place`, in the specification
`Grouping`), merging and ranking are
operators on the groups so far. `titles_are_similar` is any set of pairs of
titles: `SequenceMatcher.ratio` is neither symmetric nor transitive. A merged
record is known by the positions its fields come from (`TitleFrom`, `TypeFrom`,
`ImageFrom`). `merge_normalized_anime` makes the same choices for more fields;
its unions of lists and its mean rating are left out.

### IdentitySessions and Accounts

Each use case is one step, since the in-memory repositories never wait, but
`RefreshAccessToken` reads the clock four times: for the token, for the session,
for the rotation, and to sign the access token (`jwt_token_service.py:41`).
`Refresh` lets the clock advance by up to `Pause` before each later reading, and
`Login`, which signs one too, before its last. A session is new, open or revoked; a token holds its
session, expiry, successor and revocation. `reused` is a history of the
sessions for which `RefreshTokenReusedError` was raised. Nothing in the
application calls `User.deactivate` yet; `SetActive` stands for the
administration the check of `is_active` is there for. The clock is taken never
to run backwards.

`Accounts` puts the handlers around it: `Request(ip)` is the middleware and the
route as one step. `AuthRateLimitMiddleware` counts every request (`Hit`) and
answers 429 (`TooManyRequests`) or passes on (`Dispatch`); `LoginUser` asks the guard,
checks the password, resets the guard *before* it looks at `is_active`, and opens
a session (`LoginBlocked`, `LoginFails`, `LoginInactive`, `LoginUser`). Guard
and middleware share the fixed window `Count`. An access token is not stored; it
is known by when it expires (`access`), which is all `decode_access_token` looks
at. `guesses` and `passed` are histories of what got through: of each event its
time and which one of that time it was, as long as it lies within a window.
An access token is signed some time after its session was looked at, so
`AccessEnds` grants it two pauses beyond its ttl. `Normal` is what
`Email` does to an address as written. Settings are left out of the account, so
`UpdateSettings` changes nothing here.

### CatalogAggregate and Catalog

`CatalogAggregate` has the entities of `domain/catalog` as records and functions:
an anime is its slug, status, genres, external ids, relations, seasons and the
episodes at positions `<<season, episode>>`. A mutator is an operator on an
anime, its exception the negation of a condition (`MayBecome`, `NewToSource`,
`NewRelation`, `NewSource`). `NextEpisode`, `PreviousEpisode` and `EpisodeList`
are the queries of playback and catalog that are computed from one anime.

`Catalog` has an action per writing use case, on `InMemoryCatalogUnitOfWork`, which
never waits and never rolls back. A use case that raises before it has changed
anything is no step. `RelateAnimes` includes the case in which the target
already has the inverse: the service raises with the source already changed.
`IngestAnime` is the abstract ingestion; `IngestBroken` the one that raises
after the genres were added.

### EpisodeFetch and Ingestion

`EpisodeFetch` is one `get_episodes` per call: the page lists numbers
(`PageComes`), a task for each lines up for the adapter's semaphore (`Acquire`),
`gather` passes the first failure on and leaves the others running
(`FetchFails`), `wait_for` cancels the call with its tasks (`TimesOut`).
`results` is the list `gather` fills as tasks return (`FetchComes`), whether or
not somebody still waits for them; the answer is those results, sorted
(`Gathered`).

| Code in `ingest_anime_from_provider.py` | Action |
|---|---|
| `get_by_slug`, first time; the session takes a connection | `FirstLookup`, `PoolTimesOut` |
| `get_anime_detail` | `DetailComes`, `DetailMissing`, `DetailFails` |
| `get_episodes` | `EpisodesCome`, `EpisodesFail` over the actions of `EpisodeFetch` |
| `get_by_slug`, second time | `Recheck` |
| genres, got or created one by one | `GetGenre`, `CreateGenre` |
| the aggregate is built | `BuildEpisodes`, or `RefusesData` |
| `animes.add`, flushed | `AddAnime` |
| `commit` | `Commit` |
| PostgreSQL | `KeyTaken` (unique key), `DeadlockVictim` |
| the process | `Crash` |

A flushed row is visible to its own transaction only; who flushes the same key
waits (the guard of `Flush`) until it ends. `flushed` holds the keys of
uncommitted rows, `animes` and `genres` are the tables. Of the manager's
attempts to get the episodes only the last is a call of `EpisodeFetch`, and of
the detail only what came of it. `normalize_status` takes the first keyword of
its table; slugs come from the reference (`SlugOf`, any function).

### Playback

One episode whose sources are only ever added to, so what a reader saw is how
many there were. `GetEpisodePlayback` serves a live entry of its cache, which
changes nothing and is no action, or reads the rows (`AskUncached`) and some time
later stores and serves them (`Answer`), with `MaxRead` the bound between the
two. `GetSources`, `GetSubtitles` and `GetQualities` project its answer. A
session's methods run without an await and are one step each. What a client
selects is stored unchecked, any source, quality or language there is a name
for; progress is a position and a duration, both given by the client with every
save. `SelectBest` and `SelectByQuality` are the sort keys of
`SourceSelectionService`, `ResumePoint` is `ResumePointService.compute`.

### CatalogListing

A page is a count and then the rows (`CountRows`, `ListPage`), two statements
that each see what is committed when they run. Animes take `created_at` from the
clock when they are built and are committed later, in any order. `Ahead` are the
rows that `ORDER BY created_at DESC` puts before one; OFFSET and LIMIT are bounds
on how many these are (`Rows`). A visitor walks until a
page is not full. Ties of `created_at`, to the microsecond, do not occur.

## 3. Runs

| Run | Instance | Shows |
|---|---|---|
| `breaker_and_health` | 1 provider, 6 calls, thresholds 3/1/2 | breaker consistent, non-CLOSED means DOWN; `NeverShutOut` |
| `manager_one_provider` | 1 provider, 3 requests, everything on | accounting, fallback covers cache, default fan-outs avoid open breakers, refinement of `ProviderAvailability` |
| `manager_answers` | 2 providers, 2 requests | `FallbackShields`, every request answered |
| `pacing` | 4 dispatches, 3 attempts, quota 2 per 3 units | `BurstBounded`, `WaitBounded` |
| `aggregates` | 3 searches, Ttl 2, MaxWait 1, clock to 3 | `AgeBounded` and `QuietInvalidationHolds`, both of when the manager was asked, `MetricsBalance` |
| `empty_selection` | 2 searches, one may name nobody | *violated*: its answer is served to a search of all providers |
| `deduplication` | 3 results of 2 providers, 3 titles | `PartsStayApart`, `GroupsAreClasses`, `DefaultOrderPrefers`, `LaterSourcesNeverHurt` |
| `accounts` | 2 ids, 2 sessions, 4 tokens, 1 address, windows of 2, lives of 2 and 1, pauses of 1, clock to 4 | guesses and requests bounded, nobody turned away without cause; one working token, reuse closes the session, access ends with it, revocation is final, no rotation prolongs |
| `catalog` | 2 animes, 2 seasons of 3 numbers, 3 sources, 5 writes | relations mirrored, navigation follows the list, nothing lost |
| `ingestion` | 3 ingestions, 2 slugs, 2 genres, pool of 2, 2 permits | answers complete, all rows or none, one anime per slug, refinement of `Catalog`, all end |
| `playback` | 2 clients, 3 sources, Ttl 1, MaxRead 1, clock to 3; 1 session, 3 records of progress | answers bounded in age, choices agree, completion and resuming |
| `listing` | 5 animes, pages of 2, 3 filters | a walk misses nothing and repeats only what was pushed |

Type invariants are in no run: they are proved (section 4).

**Bounds.** Two overlapping calls give a late answer; a third meets the breaker
it moved; six reach a threshold of three, cool down, probe and reopen while an
old call is still out. Providers share no state but the caller's request, so
one provider carries the safety runs and two the run about fan-outs. Keys share
the provider's records and differ in cache and fallback; the runs take one, the
proofs any number. Four dispatches fill a quota of two on both sides of a
window's edge, and the clock runs until one of them has used up three attempts.
Two overlapping searches overwrite each other's aggregate and a third is served
what they left; the clock runs to the longest life of an answer. Three results
are the fewest that show a bridge between two that do not match, and a group
with a first, a preferred and a most complete member.

In `accounts` two ids ask for one account under an email written in two ways,
and the clock runs through two windows. Four tokens let one session rotate
up to its end while another opens; the clock passes the end of
sessions and access tokens, and a pause is as long as an access token lives. `MaxRequests + 1` caps the
middleware's count: above the limit, one more makes no difference until the
window ends. Five writes suffice to create two animes, relate them both ways and
once more, or to build two seasons with an episode in each. Three
ingestions are two that race for a slug and two that create the same genres in
opposite orders, on a pool that holds two of them and a semaphore that lets two
fetch at once, so that tasks of one call and of different ones overtake each
other while others queue; a page lists two episodes in the wrong order, or one
that is refused for its number, 0. Two clients let a slow reader store old rows over newer ones and the
other one be served them. In the session one position is near the end of one
duration and halfway in another; no property tells apart what was selected, so
each kind of selection has one value. Five animes on pages of two
make walks of three pages with commits before, between and after what was shown.
`MaxTime`, `MaxWrites`, `MaxRead`, `MaxWait`, `Pause` are the bounds of counters
and of what may pass between two steps.

All runs set `CHECK_DEADLOCK FALSE`: requests are made once and clocks are
bounded, so the models do stop.

**Fairness.** `breaker_and_health` assumes that the cooldown passes.
`manager_answers` assumes that what a request waits for happens: `wait_for`
ends an attempt, `sleep` returns, the loop runs ready tasks. `ingestion` assumes
that the system goes on while one of its parts can: the database answers, the
HTTP client gives up on a page that does not come, the loop runs what is ready.
Nobody has to ask, administer, cancel, crash, or be timed out by the manager or
the pool, and providers need not answer.

### Disagreements between code and documents

Shown by the run marked *violated*:

1. `empty_selection`: the key does not tell `provider_ids=[]` from `None`, the
   manager does. `GET /search?provider_ids=,` yields the former. It takes a
   cache, so the engine of `deps.py` does not show it.

Modelled as the code has it, and left without a run. The formulas named here
are in the modules, and TLC finds each of them violated:

2. `DocumentedTransitions`: `record_success` closes an OPEN breaker when a call
   admitted before it opened succeeds late. The diagram of
   `circuit_breaker.py:18-23` leaves OPEN only for HALF_OPEN.
3. `OpenBreakerNotCalled`: the breaker is asked once per dispatch, not per
   attempt, while `circuit_breaker.py:7-9` promises not to call a provider
   while OPEN.
4. `RequestsWithinQuota`: the limiter counts dispatches, not the requests its
   configuration speaks of (`domain/providers/value_objects.py:137`).
5. `ImageKept`: the address is validated after it was chosen, so a broken one
   hides a valid one (`docs/architecture.md:1097`, `:1114`), and the record ranks
   lower for an earlier source. `LaterSourcesNeverHurt` is what is left.
6. `StopsAtEnd`: `get_next_episode.py:3-6` says there is no next episode only at
   the end of the series; a gap in the numbers or a season without episodes
   ends it too. The previous episode of episode 13 of a second season that
   counts on is none, not the last of the first season.
7. `TotalEndsWalk`: a client that stops where `page * page_size` reaches `total`
   may miss rows, since count and rows are two statements.

Found while modelling, and harmless, or outside of what a module compares:

8. `docs/architecture.md:1533-1540` says that the use case turns
   `RefreshTokenReusedError` into the revocation of the session; when a token
   expires between two clock readings the error is raised and nothing is
   revoked (`MisreportReuse`). `ReuseClosesSession` shows that it does no harm:
   the session is over by then.
9. A result without a type matches any type, and one matching member is enough
   to join a group, so *tv* and *movie* of one title end up in one record
   (`application/aggregation/deduplication.py:16`); results of one provider are
   merged too (`deduplication.py:3` speaks of different providers).
10. Fields other than the title come from the first result that has them;
    `docs/architecture.md:1113` says from the provider with the highest priority.
    `DefaultOrderPrefers` shows that the two agree unless the caller names the
    providers.
11. A search in flight stores its answer after an invalidation
    (`test_invalidate_search_cache_forces_fresh_query` promises the opposite of
    searches in general). `QuietInvalidationHolds` is what is left of it, and it too says only
    that the manager is asked again: what the manager answers then may come from
    its own cache or fallback.
12. `UpdateProfile` and `UpdateSettings` do not ask for `is_active`,
    `GetCurrentUser` does. An access token survives logout and deactivation until
    its own exp; `AccessEnds` bounds that.
13. `normalize_status` knows English keywords, so the states TioAnime writes in
    Spanish come out as *announced*.
14. The first lookup of an ingestion opens a transaction that nothing ends
    before the provider has answered: its connection is not available to others
    meanwhile (`FirstLookup`, `Connected`). A failed `get_episodes` leaves its
    other fetches running, before those of its retry (`NothingLeftBehind`).
    Two ingestions that share a new genre or a slug: the one that flushes later
    fails, although asked again it would succeed.
15. `select_subtitle.py:3-4` tells "no subtitles" from "nothing selected", the
    session stores None for both. No use case asks whether a source, quality or
    language that is selected exists (`select_source.py:3-8` says why), and
    nothing ties the source, the quality and the
    subtitle of a session together. If no source has the preferred quality the
    provider decides before the next best quality does; `ChoicesAgree` is about
    qualities that exist. `StreamingSource` rows are loaded without an order.
16. `docs/architecture.md:1335-1336` says that `InMemoryCatalogUnitOfWork` is
    wired; `deps.py:103-106` wires the one on SQLAlchemy. In memory the listing
    comes oldest first, in SQL newest first.
17. `update` in SQL writes the whole aggregate as it was loaded, so two writing
    use cases of one anime that overlap lose one's change. None of them has a
    route; `NothingLost` is about the unit of work in memory.

## 4. Proofs

Every safety invariant and action property of the passing runs is a theorem. All
theorems hold for every value of the constants under the named assumptions of
the modules, which restate what the constructors validate and say what kind of
values the constants are: that the sets whose members are counted or sorted are
finite (requests, animes, season and episode numbers), that the markers for
"none" are not values, that there is some profile to write.

* **`ProviderAvailabilityProofs`.** `IInv` says that each provider's pair of
  records is sound: types, `SoundBreaker`, `SoundHealth`, and that the breaker
  has not counted more failures than health. The properties are not inductive
  on their own: `OpenImpliesDown` needs that an OPEN breaker has reached its
  threshold *and* that health has seen as many failures. Lemmas per method
  (`SuccessSound`, `FailureSound`, ...) carry one pair over one method,
  `OneProvider` lifts them to all providers. Theorems `TypeCorrect`,
  `Consistency`, `Agreement`, `OpenIsDown`.
* **`OrderedProofs`.** The lemmas the other modules share. A finite set with a
  strict total order is listed by `Sorted` without gaps or repetitions
  (`SortedLists`, `AscendingLists`), has a first member (`FirstInOrder`), and a
  stretch of it within its length is full (`FullStretch`). Sets that
  differ in one member differ by one (`OneMoves`). Every nonempty set of
  naturals has a least member; from that follow induction over the naturals
  (`EveryNatural`) and that recursive definitions define functions
  (`Recursion`).
* **`ProviderManagerProofs`.** `TypeCorrect`; `Refinement`: every step of
  `ProviderManager` is a step of `ProviderAvailability` or a stutter, with the
  auxiliary invariant that a request not yet made has no dispatches;
  `DefaultsAvoidOpen`, which carries `OpenIsDown` over the refinement;
  `FallbackCovers` and `FallbackHolds` by the invariant that the cache never
  holds what the fallback does not; `StatsAddUp`, since what each way of a
  dispatch counts is what its old and its new stage call for, also when
  one step starts or cancels the dispatches of many providers.
  Of `ProviderPacing`: `Bursts` needs that the window counts what it let through
  and that the period before it saw less than a full window; `Waiting` that each
  stage of a dispatch began no later than the stages before it allow, which is a
  sum over a recursive function (`Powers`, `Delays`, `WaitsAddUp`).
* **`AggregationEngineProofs`.** The invariant relates each entry to its key and
  to the key's last invalidation (`EntryFits`), each waiting search to the time
  it began (`WaiterFits`), and each served answer to the request
  (`ServedFits`): an entry outlives the question to the manager it answers by at most
  Ttl + MaxWait because a search waits no longer than MaxWait before it stores,
  whoever overwrites whom. Theorems `TypeCorrect`, `AnswersStayYoung`,
  `DetailsAreDetails`, `QuietInvalidations`, and `MetricsAddUp` by counting
  requests by stage.
  Of `Deduplication`, by induction over the results placed: `Apart`, for
  every relation taken for similarity, since a group in which two unconnected
  sets met would have to have been entered by a match between them, and
  `Classes`, for any number of results; `GroupsTypeCorrect` gives the numbering without gaps both need.
  `Choices` says that the CHOOSEs of merging and ranking have something to
  choose and what; on it rest `Preference` and `Ranking`.
* **`AccountsProofs`.** The invariant of `IdentitySessions` adds to the
  properties that a token never expires before its session (`TokensFit`) and
  that no session ends later than now plus Ttl (`EndsWithinTtl`); together they
  are why a token that expires in mid-refresh can only belong to a session that
  is over. Theorems `TypeCorrect`, `OneToken`, `ReuseCloses`, `RevocationLasts`,
  `NotProlonged`. `ImplementsSessions`: a request is a step of
  `IdentitySessions` or leaves it alone, so that its theorems hold behind the
  handlers (`SessionsHold`). `AccessIsWithdrawn` needs that no access token yet
  issued lasts longer than its ttl and two pauses beyond its session
  (`AccessBounded`), which holds because the session is looked at by the second of
  four clock readings and ends of sessions never move back to an earlier time.
  `LimitsHold` and `CauseHolds` rest on `Tallies`, which relates each fixed
  window to the history of what got through: a running window has counted all
  of it since it began, up to the limit, and what came before is less than the
  limit; where none runs, less than the limit is within a window's reach.
* **`CatalogProofs`.** Types with `WellFormed` and `RelationsMirrored` are
  inductive together. A lemma per mutator shows that it keeps what was there,
  one per kind of use case that the invariant survives it. Theorems
  `TypeCorrect`, `Mirrors`, `Keeping`; `Navigation`: between neighbours of the
  sorted list of positions lies no other, so the next number, or else the first
  of the next season, is the neighbour.
  Of `CatalogListing`: at every moment of a walk, what was there and is not shown
  yet has at least as many rows before it as the offset (`Awaited`), and what
  has been shown has fewer, but for commits since (`Passed`). A commit adds one
  row before some, and a page moves the offset past what it shows; a page that
  is not full is the last, by `FullStretch`. Theorems `Walked`, `Shown`.
* **`IngestionProofs`.** The invariant says which genres a request has got and
  can see (`SeenFits`, `SeenVisible`), which keys it has flushed (`OwnKeys`), and
  what the unique keys do: a key is flushed by one transaction at a time
  (`Exclusive`) and not while it is committed (`Uncommitted`). Neither
  `OneAnimePerSlug` nor `AllOrNothing` rests on the second lookup, which only
  spares the loser of most races an error. Theorems `TypeCorrect`, `Atomic`,
  `ServedAlike`, and `Refinement`: every commit is an `IngestAnime` of `Catalog`,
  everything else a stutter, for any number of requests, genres and connections.
  Of `EpisodeFetch`: `NothingLeft`, and `Complete`, by the invariant that a
  place of `results` holds nothing or what the page listed there, and nothing
  while its task runs (`ResultsFit`): once every place is filled the results are
  the listing, which sorting rearranges (`OrderComplete`).
* **`PlaybackProofs`.** `AnswersStayYoung` relates the cached count of sources to
  the times the sources behind it were added (`CacheFits`), and each reader to
  when it read. Theorems `TypeCorrect`, `AnswersStayYoung`, `Completion`, and
  `Agreement`, which is about the least keys of two orders.

Only model-checked: liveness (`NeverShutOut`, `EveryRequestAnswered`,
`IngestionsEnd`), since fairness and ENABLED are out of the prover's reach. The
library's theorems of induction take an operator as a
parameter, which the provers cannot instantiate: `EveryNatural` takes a set
instead, and what needs another induction than over the naturals is not proved.

## 5. Not modelled, and the plan

Left out for good: the provider factory and the scheduler (tables that nothing
executes), schemas, routing and the mapping of columns, the parsing of pages
(an adapter is the answer, error or silence the manager sees; `DetailComes` and
`PageComes` are what came of a page), password hashing and the encoding of
tokens. `titles_are_similar`, `slugify` and the normalizers of texts are constants
of the models: any function or relation.

Left out because nothing calls it: `PlaybackSession.pause`, `resume`, `abandon`,
`PlaybackSource.deactivate`, `AuthorizationService` and roles,
`group_normalized_anime` and the ranking of details, `best_source`, `reset` of
breaker and limiter, mutators of the catalog without a use case (titles, images,
ratings, characters). The adapters of Jikan and AnimeFLV are not registered;
`EpisodeFetch` holds for the latter too, whose fetches are those of TioAnime.

Simplified: one kind of label stands for the four in an ingestion, which creates
genres only; `IngestAnime` has one season, as the code does; the endpoint's
`preferred_quality` is ignored by the code and so by the model; entities are
loaded and stored as a whole.

Still to do:

1. `ProcessSingletons`: `lru_cache` singletons resolved in worker threads.
2. The writing use cases over SQL transactions, once they have routes: the
   overwriting of item 17, as a module that fails to implement `Catalog`.
3. Settings, roles and the administration of users, once something decides by
   them.
