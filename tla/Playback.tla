------------------------------ MODULE Playback ------------------------------
(***************************************************************************)
(* Watching one episode: what GetEpisodePlayback serves of its sources,    *)
(* from the catalog or from a cache of ten minutes, how SourceResolver     *)
(* would choose among them, and the anonymous playback sessions of         *)
(* application/playback.                                                   *)
(*                                                                         *)
(* Sources are only ever added to the catalog, so what a reader saw is how *)
(* many there were.  The rows are read some time before they are served; a *)
(* query answered from the cache changes nothing and is no action.  A      *)
(* session's methods run without an await and are one step each; pause,    *)
(* resume, abandon and deactivate have no caller.                          *)
(***************************************************************************)
EXTENDS Integers, Sequences, FiniteSets

CONSTANTS Clients,
          Sessions,
          Sources,     \* records [provider, ref, quality, has_url]
          Priority,    \* provider_priorities of the resolver, by provider
          ChosenSources, ChosenQualities, ChosenLanguages,
                            \* inputs: what clients select
          SavedProgress,    \* inputs: records [position, duration], in seconds
          Ttl,         \* cache_ttl_seconds
          MaxRead,     \* bound of the time from the rows to the answer
          MaxTime,     \* bound of the clock
          None

Aggregate == INSTANCE CatalogAggregate WITH
    AnimeIds <- {}, Slugs <- {}, LabelSlugs <- {}, SeasonNumbers <- {},
    EpisodeNumbers <- {}, ExternalIds <- {}, StreamingSources <- Sources,
    NoEpisode <- None

Qualities == DOMAIN Aggregate!STREAM_QUALITY_RANK

(* PlaybackSource, as far as it matters here; inactive and expired ones do *)
(* not occur, since nothing deactivates a source or says when it expires.  *)
IsSource(s) ==
    /\ DOMAIN s = {"provider", "ref", "quality", "has_url"}
    /\ s.quality \in Qualities
    /\ s.has_url \in BOOLEAN

(* WatchProgress: a client gives both with every progress it saves.        *)
Progress == {p \in [position : Nat, duration : Nat \ {0}] : p.position <= p.duration}

ASSUME PlaybackAssumption ==
    /\ SavedProgress \subseteq Progress
    /\ Ttl \in Nat /\ MaxRead \in Nat /\ MaxTime \in Nat
    /\ \A s \in Sources : IsSource(s)
    /\ IsFiniteSet(DOMAIN Priority) /\ \A p \in DOMAIN Priority : Priority[p] \in Int
    /\ None \notin Nat /\ None \notin Progress

VARIABLES now,
          sources,     \* Episode.streaming_sources
          added,       \* history: when each was added
          cache,       \* the entry of the episode, or None
          reading,     \* per client: a query that missed the cache, or None
          session,     \* the sessions
          saved        \* history: all progress of a session

vars == <<now, sources, added, cache, reading, session, saved>>

NoSession == [status |-> "none", source |-> None, quality |-> None,
              subtitle |-> None, progress |-> None]

Init ==
    /\ now = 0
    /\ sources = <<>>
    /\ added = <<>>
    /\ cache = None
    /\ reading = [c \in Clients |-> None]
    /\ session = [s \in Sessions |-> NoSession]
    /\ saved = [s \in Sessions |-> {}]

---------------------------------------------------------------------------
(* The catalog.                                                            *)

AddSource(source) ==
    /\ Aggregate!NewSource([sources |-> sources], source)
    /\ sources' = Append(sources, source)
    /\ added' = Append(added, now)
    /\ UNCHANGED <<now, cache, reading, session, saved>>

---------------------------------------------------------------------------
(* GetEpisodePlayback.                                                     *)

(* Wrong variant: an entry is served in its last second too.               *)
LiveAtExpiry == cache # None /\ now <= cache.expires

Live == cache # None /\ now < cache.expires

(* Unless the entry is served, the database reads the rows ...             *)
AskUncached(c) ==
    /\ reading[c] = None
    /\ ~Live
    /\ reading' = [reading EXCEPT ![c] = [count |-> Len(sources), since |-> now]]
    /\ cache' = None
    /\ UNCHANGED <<now, sources, added, session, saved>>

(* ... and some time later they are stored and served.                     *)
Answer(c) ==
    /\ reading[c] # None
    /\ cache' = [count |-> reading[c].count, expires |-> now + Ttl]
    /\ reading' = [reading EXCEPT ![c] = None]
    /\ UNCHANGED <<now, sources, added, session, saved>>

(* The queries for sources, subtitles and qualities project its answer.    *)
GetPlayback(c) == AskUncached(c) \/ Answer(c)

Tick ==
    /\ now < MaxTime
    /\ \A c \in Clients : reading[c] # None => now < reading[c].since + MaxRead
    /\ now' = now + 1
    /\ UNCHANGED <<sources, added, cache, reading, session, saved>>

---------------------------------------------------------------------------
(* Sessions.                                                               *)

Exists(s) == session[s].status # "none"

Update(s, new) ==
    /\ session' = [session EXCEPT ![s] = new]
    /\ UNCHANGED <<now, sources, added, cache, reading>>

CreatePlaybackSession(s) ==
    /\ ~Exists(s)
    /\ Update(s, [NoSession EXCEPT !.status = "active"])
    /\ UNCHANGED saved

(* What a client selects is stored as it is, whether the episode has such  *)
(* a source or not.                                                        *)
SelectPlaybackSource(s) ==
    /\ Exists(s)
    /\ \E source \in ChosenSources : Update(s, [session[s] EXCEPT !.source = source])
    /\ UNCHANGED saved

SelectPlaybackQuality(s) ==
    /\ Exists(s)
    /\ \E quality \in ChosenQualities : Update(s, [session[s] EXCEPT !.quality = quality])
    /\ UNCHANGED saved

(* None stands for "no subtitles" and for "nothing selected".              *)
SelectPlaybackSubtitle(s) ==
    /\ Exists(s)
    /\ \E language \in ChosenLanguages \cup {None} :
          Update(s, [session[s] EXCEPT !.subtitle = language])
    /\ UNCHANGED saved

(* position / duration >= 0.95, and <= 0.02.                               *)
NearComplete(p) == 20 * p.position >= 19 * p.duration
NearStart(p) == 50 * p.position <= p.duration

(* Wrong variant: what was watched to its end is forgotten with the next   *)
(* progress.                                                               *)
StatusOfLast(status, p) == IF NearComplete(p) THEN "completed" ELSE "active"

StatusAfter(status, p) ==
    IF NearComplete(p) /\ status = "active" THEN "completed" ELSE status

SaveWatchProgress(s, p) ==
    /\ Exists(s)
    /\ Update(s, [session[s] EXCEPT !.progress = p, !.status = StatusAfter(@, p)])
    /\ saved' = [saved EXCEPT ![s] = @ \cup {p}]

(* ResumePointService.compute, as GetResumePoint answers it.               *)
ResumePoint(s) ==
    LET p == session[s].progress
    IN  IF p = None THEN [position |-> 0, completed |-> FALSE]
        ELSE IF NearComplete(p) THEN [position |-> 0, completed |-> TRUE]
        ELSE [position |-> IF NearStart(p) THEN 0 ELSE p.position, completed |-> FALSE]

Watch(s) ==
    \/ CreatePlaybackSession(s)
    \/ SelectPlaybackSource(s)
    \/ SelectPlaybackQuality(s)
    \/ SelectPlaybackSubtitle(s)
    \/ \E p \in SavedProgress : SaveWatchProgress(s, p)

Next ==
    \/ \E source \in Sources : AddSource(source)
    \/ \E c \in Clients : GetPlayback(c)
    \/ \E s \in Sessions : Watch(s)
    \/ Tick

Spec == Init /\ [][Next]_vars

---------------------------------------------------------------------------
(* SourceSelectionService over the sources of the episode, which are all   *)
(* available.  A source is named by its place.                             *)

(* SourceResolver.resolve leaves out what has no URL yet.                  *)
Playable(i) == sources[i].has_url

Candidates == {i \in DOMAIN sources : Playable(i)}

PriorityOf(source) ==
    IF source.provider \in DOMAIN Priority THEN Priority[source.provider] ELSE 0

(* preferred_provider_ids: by falling priority, the others last.  (Equal   *)
(* priorities, which keep the order of the mapping, are ranked alike.)     *)
ProviderRank(source) ==
    IF source.provider \in DOMAIN Priority
    THEN Cardinality({p \in DOMAIN Priority : Priority[p] > Priority[source.provider]})
    ELSE Cardinality(DOMAIN Priority)

QualityRank(source) == Aggregate!STREAM_QUALITY_RANK[source.quality]

(* Sort keys, compared from the left; smaller is better.                   *)
BestKey(source, quality) ==
    <<IF source.quality = quality THEN 0 ELSE 1, ProviderRank(source),
      -PriorityOf(source), -QualityRank(source)>>

(* Wrong variant: without the provider's own priority.                     *)
QualityOnlyKey(source) == <<-QualityRank(source)>>

(* rank() without preferences.                                             *)
PlainKey(source) == <<-PriorityOf(source), -QualityRank(source)>>

Smaller(key, other) ==
    \E i \in DOMAIN key : /\ key[i] < other[i]
                          /\ \A j \in 1..(i - 1) : key[j] = other[j]

(* The first of a stable sort by these keys.                               *)
Firsts(keys) ==
    {i \in DOMAIN keys : \A j \in DOMAIN keys \ {i} :
        Smaller(keys[i], keys[j]) \/ (keys[i] = keys[j] /\ i < j)}

FirstBy(keys) == CHOOSE i \in Firsts(keys) : TRUE

SelectBest(quality) == FirstBy([i \in Candidates |-> BestKey(sources[i], quality)])

OfQuality(quality) == {i \in Candidates : sources[i].quality = quality}

SelectByQuality(quality) == FirstBy([i \in OfQuality(quality) |-> PlainKey(sources[i])])

---------------------------------------------------------------------------
TypeOK ==
    /\ now \in 0..MaxTime
    /\ sources \in Seq(Sources)
    /\ added \in Seq(Nat) /\ Len(added) = Len(sources)
    /\ \A i \in DOMAIN added : added[i] <= now
    /\ cache \in [count : 0..Len(sources), expires : 0..(MaxTime + Ttl)] \cup {None}
    /\ reading \in [Clients -> [count : 0..Len(sources), since : 0..now] \cup {None}]
    /\ saved \in [Sessions -> SUBSET SavedProgress]
    /\ session \in [Sessions -> [status : {"none", "active", "completed"},
                                 source : ChosenSources \cup {None},
                                 quality : ChosenQualities \cup {None},
                                 subtitle : ChosenLanguages \cup {None},
                                 progress : SavedProgress \cup {None}]]

(* A source is in everything served from the cache from a ttl, and a read, *)
(* after it was added, even when slow readers store old rows over newer    *)
(* ones; and in everything that is read, a read after it was added.        *)
AnswersYoung ==
    \A i \in DOMAIN added :
        /\ added[i] + Ttl + MaxRead <= now => (Live => i <= cache.count)
        /\ added[i] + MaxRead < now =>
              \A c \in Clients : reading[c] # None => i <= reading[c].count

(* A session is COMPLETED if, and only if, progress near the end was saved *)
(* in it at some time, whatever was saved before and after, and whichever  *)
(* duration each client gave; and it is resumed where it was left, before  *)
(* the end, or at the start.                                               *)
CompletedIfWatched ==
    \A s \in Sessions :
        /\ session[s].status = "completed" <=> \E p \in saved[s] : NearComplete(p)
        /\ ResumePoint(s).completed => session[s].status = "completed"
        /\ ResumePoint(s).position # 0 =>
              \E p \in saved[s] : p.position = ResumePoint(s).position /\ ~NearComplete(p)

(* Priorities that tell providers apart, and from those without one.       *)
PrioritiesDiffer ==
    /\ \A p \in DOMAIN Priority : Priority[p] > 0
    /\ \A p, q \in DOMAIN Priority : Priority[p] = Priority[q] => p = q

(* Preferring a quality and asking for it choose the same source, where    *)
(* there is one, if the priorities are positive and different.             *)
ChoicesAgree ==
    PrioritiesDiffer =>
        \A quality \in Qualities :
            OfQuality(quality) # {} => SelectBest(quality) = SelectByQuality(quality)
=============================================================================
