---------------------------- MODULE EpisodeFetch ----------------------------
(***************************************************************************)
(* How the scraping adapters (infrastructure/providers/tioanime, animeflv) *)
(* answer get_episodes: the page of the anime lists its episodes, the page *)
(* of each is fetched by a task of its own, and one semaphore per adapter  *)
(* bounds the fetches of all calls together.                               *)
(*                                                                         *)
(* asyncio.gather passes the first failure on and leaves the other tasks   *)
(* of the call running; asyncio.wait_for in ProviderManager._dispatch      *)
(* cancels a call that takes too long, and gather its tasks with it.       *)
(*                                                                         *)
(* Listed numbers can be read: an entry of animeflv whose number cannot,   *)
(* which fails its call before it waits, is left out.                      *)
(*                                                                         *)
(* The actions are composed with the callers' by Ingestion.                *)
(***************************************************************************)
EXTENDS Integers, Sequences, FiniteSets, FiniteSetsExt, SequencesExt, Ordered

CONSTANTS Calls,        \* of get_episodes
          MaxFetches,   \* max_concurrent_episode_fetches
          Pages,        \* inputs: the episode numbers a page lists, in order
          NoPage        \* what a task has returned before it returns

ASSUME FetchAssumption ==
    /\ MaxFetches \in Nat \ {0}
    /\ Pages \subseteq Seq(Nat)
    /\ NoPage \notin Nat

VARIABLES call,      \* what each call waits for, or how it ended
          listed,    \* the numbers its page listed
          queue,     \* tasks waiting for the semaphore, first come first served
          fetching,  \* tasks with a permit
          results,   \* gather's: what the tasks of each call returned, and in
                     \* the order it was given them
          permits,   \* the semaphore
          answer     \* the episodes a call returned, by number

fetchVars == <<call, listed, queue, fetching, results, permits, answer>>

Pending == {"page", "episodes"}
Ended == {"answered", "failed", "timed_out"}

TasksOf(c) == {<<c, i>> : i \in DOMAIN listed[c]}

FetchInit ==
    /\ call = [c \in Calls |-> "idle"]
    /\ listed = [c \in Calls |-> <<>>]
    /\ queue = <<>>
    /\ fetching = {}
    /\ results = [c \in Calls |-> <<>>]
    /\ permits = MaxFetches
    /\ answer = [c \in Calls |-> <<>>]

---------------------------------------------------------------------------
GetEpisodes(c) ==
    /\ call[c] = "idle"
    /\ call' = [call EXCEPT ![c] = "page"]
    /\ UNCHANGED <<listed, queue, fetching, results, permits, answer>>

(* The tasks of a call line up in the order of the page.                   *)
PageComes(c, numbers) ==
    /\ call[c] = "page"
    /\ call' = [call EXCEPT ![c] = "episodes"]
    /\ listed' = [listed EXCEPT ![c] = numbers]
    /\ results' = [results EXCEPT ![c] = [i \in DOMAIN numbers |-> NoPage]]
    /\ queue' = queue \o [i \in DOMAIN numbers |-> <<c, i>>]
    /\ UNCHANGED <<fetching, permits, answer>>

PageFails(c) ==
    /\ call[c] = "page"
    /\ call' = [call EXCEPT ![c] = "failed"]
    /\ UNCHANGED <<listed, queue, fetching, results, permits, answer>>

Acquire ==
    /\ queue # <<>>
    /\ permits > 0
    /\ queue' = Tail(queue)
    /\ fetching' = fetching \cup {Head(queue)}
    /\ permits' = permits - 1
    /\ UNCHANGED <<call, listed, results, answer>>

(* async with self._episode_semaphore ends.                                *)
Release(tasks) ==
    /\ fetching' = fetching \ tasks
    /\ permits' = permits + Cardinality(tasks)

(* parse_episode_page gives the episode the number of its task.  A task    *)
(* returns whether or not gather still waits for it.                       *)
FetchComes(t) ==
    /\ t \in fetching
    /\ results' = [results EXCEPT ![t[1]][t[2]] = listed[t[1]][t[2]]]
    /\ Release({t})
    /\ UNCHANGED <<call, listed, queue, answer>>

(* An HTTP error: what came can always be parsed.                          *)
FetchFails(t) ==
    /\ t \in fetching
    /\ call' = [call EXCEPT ![t[1]] = IF @ = "episodes" THEN "failed" ELSE @]
    /\ Release({t})
    /\ UNCHANGED <<listed, queue, results, answer>>

(* sorted(episodes, key=number), which is stable.                          *)
InOrder(s) ==
    LET before == {p \in (DOMAIN s) \X (DOMAIN s) :
                      s[p[1]] < s[p[2]] \/ (s[p[1]] = s[p[2]] /\ p[1] < p[2])}
    IN  [k \in DOMAIN s |-> s[Sorted(DOMAIN s, before)[k]]]

Answer(c, episodes) ==
    /\ call' = [call EXCEPT ![c] = "answered"]
    /\ answer' = [answer EXCEPT ![c] = InOrder(episodes)]
    /\ UNCHANGED <<listed, queue, fetching, results, permits>>

Returned(c) == {i \in DOMAIN results[c] : results[c][i] # NoPage}

(* Wrong variant: answered with what has come when no task of the call is  *)
(* fetching, the rest of them still in the queue.                          *)
GatheredEarly(c) ==
    /\ call[c] = "episodes"
    /\ fetching \cap TasksOf(c) = {}
    /\ Answer(c, [k \in 1..Cardinality(Returned(c)) |-> results[c][Ascending(Returned(c))[k]]])

(* Every task has returned, in whatever order.                             *)
Gathered(c) ==
    /\ call[c] = "episodes"
    /\ Returned(c) = DOMAIN results[c]
    /\ Answer(c, results[c])

(* Wrong variant: the tasks go on without their call.                      *)
AbandonTasks(c) == UNCHANGED <<queue, fetching, permits>>

CancelTasks(c) ==
    /\ LET kept == {i \in DOMAIN queue : queue[i][1] # c}
       IN  queue' = [k \in 1..Cardinality(kept) |-> queue[Ascending(kept)[k]]]
    /\ Release(fetching \cap TasksOf(c))

TimesOut(c) ==
    /\ call[c] \in Pending
    /\ call' = [call EXCEPT ![c] = "timed_out"]
    /\ CancelTasks(c)
    /\ UNCHANGED <<listed, results, answer>>

PageAnswers(c) == PageFails(c) \/ \E numbers \in Pages : PageComes(c, numbers)

FetchEnds(t) == FetchComes(t) \/ FetchFails(t)

---------------------------------------------------------------------------
FetchTypeOK ==
    /\ call \in [Calls -> {"idle"} \cup Pending \cup Ended]
    /\ listed \in [Calls -> Seq(Nat)]
    /\ queue \in Seq(Calls \X Nat)
    /\ fetching \subseteq Calls \X Nat
    /\ results \in [Calls -> Seq(Nat \cup {NoPage})]
    /\ permits \in 0..MaxFetches
    /\ answer \in [Calls -> Seq(Nat)]

Occurrences(s, n) == Cardinality({i \in DOMAIN s : s[i] = n})

(* An answer is complete and in order, although it is put together from    *)
(* what the tasks bring, whichever way they overtook each other and the    *)
(* tasks of other calls, ended ones included: every episode the page       *)
(* lists, as often as it lists it, by number.                              *)
AnswersComplete ==
    \A c \in Calls :
        call[c] = "answered" =>
            /\ \A i, j \in DOMAIN answer[c] : i <= j => answer[c][i] <= answer[c][j]
            /\ \A n \in ToSet(listed[c]) \cup ToSet(answer[c]) :
                  Occurrences(answer[c], n) = Occurrences(listed[c], n)

(* A call that was answered or timed out leaves nothing running behind it. *)
(* One that failed does: its other tasks keep their places in the queue    *)
(* before those of the retry.  And no permit is lost or invented, whatever *)
(* fails or is cancelled while it is held or waited for.                   *)
NothingLeftBehind ==
    /\ \A t \in ToSet(queue) \cup fetching : call[t[1]] \in {"episodes", "failed"}
    /\ permits + Cardinality(fetching) = MaxFetches
=============================================================================
