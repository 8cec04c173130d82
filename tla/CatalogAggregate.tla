-------------------------- MODULE CatalogAggregate --------------------------
(***************************************************************************)
(* One anime of the catalog: the entities and value objects of             *)
(* domain/catalog, and the queries that are computed from one loaded       *)
(* anime.  Every operator takes an anime and returns another one or an     *)
(* answer; the conditions under which a method raises are operators of     *)
(* their own.                                                              *)
(*                                                                         *)
(* Titles, synopses, images, ratings and time stamps are left out.  Ids of *)
(* seasons and episodes are their numbers, which are unique within their   *)
(* owner because Duplicates is asked before anything is appended.          *)
(***************************************************************************)
EXTENDS Integers, Sequences, FiniteSets, FiniteSetsExt, Ordered

CONSTANTS AnimeIds, Slugs,
          LabelSlugs,         \* of genres, studios, producers, tags
          SeasonNumbers,      \* numbers of seasons and episodes callers use
          EpisodeNumbers,
          ExternalIds,        \* records [source, value]
          StreamingSources,   \* records [provider, ref, quality]
          NoEpisode

AnimeStatus == {"announced", "ongoing", "paused", "completed", "cancelled"}

ALLOWED_STATUS_TRANSITIONS ==
    [announced |-> {"ongoing", "cancelled"},
     ongoing   |-> {"paused", "completed", "cancelled"},
     paused    |-> {"ongoing", "cancelled"},
     completed |-> {},
     cancelled |-> {}]

RELATION_INVERSE ==
    [sequel |-> "prequel", prequel |-> "sequel",
     side_story |-> "parent_story", parent_story |-> "side_story",
     spin_off |-> "parent_story", summary |-> "parent_story",
     alternative_version |-> "alternative_version",
     adaptation |-> "adaptation", other |-> "other"]

RelationType == DOMAIN RELATION_INVERSE

STREAM_QUALITY_RANK == [sd |-> 0, hd |-> 1, fhd |-> 2, uhd |-> 3]

Positions == SeasonNumbers \X EpisodeNumbers

Episode == [external_ids : SUBSET ExternalIds, sources : Seq(StreamingSources)]

(* StreamingSource; languages, address and is_active are left out.         *)
IsStreamingSource(s) ==
    /\ {"provider", "ref", "quality"} \subseteq DOMAIN s
    /\ s.quality \in DOMAIN STREAM_QUALITY_RANK

ASSUME CatalogAssumption ==
    /\ SeasonNumbers \subseteq Nat \ {0}
    /\ EpisodeNumbers \subseteq Nat \ {0}
    /\ IsFiniteSet(SeasonNumbers) /\ IsFiniteSet(EpisodeNumbers)
    /\ \A s \in StreamingSources : IsStreamingSource(s)
    /\ NoEpisode \notin Episode

Relation == AnimeIds \X RelationType

(* Episodes are found by their position <<season, episode>>.               *)
Anime == [slug : Slugs, status : AnimeStatus, genres : SUBSET LabelSlugs,
          external_ids : SUBSET ExternalIds, relations : SUBSET Relation,
          seasons : SUBSET SeasonNumbers,
          episodes : [Positions -> Episode \cup {NoEpisode}]]

NewAnime(slug, status, genres) ==
    [slug |-> slug, status |-> status, genres |-> genres,
     external_ids |-> {}, relations |-> {}, seasons |-> {},
     episodes |-> [p \in Positions |-> NoEpisode]]

NewEpisode == [external_ids |-> {}, sources |-> <<>>]

(* What the mutators keep: one external id per source, no source of video  *)
(* twice, and no episode outside a season.                                 *)
OnePerSource(external_ids) ==
    \A x, y \in external_ids : x.source = y.source => x = y

WellFormedEpisode(episode) ==
    /\ OnePerSource(episode.external_ids)
    /\ \A i, j \in DOMAIN episode.sources :
          /\ episode.sources[i].provider = episode.sources[j].provider
          /\ episode.sources[i].ref = episode.sources[j].ref
          => i = j

Listed(anime) == {p \in Positions : anime.episodes[p] # NoEpisode}

WellFormed(anime) ==
    /\ OnePerSource(anime.external_ids)
    /\ \A p \in Listed(anime) :
          p[1] \in anime.seasons /\ WellFormedEpisode(anime.episodes[p])

---------------------------------------------------------------------------
(* Mutators.  Each is only applied where the condition before it holds.    *)

HasEpisode(anime, p) == p \in Listed(anime)

MayBecome(anime, status) == status \in ALLOWED_STATUS_TRANSITIONS[anime.status]

ChangeStatus(anime, status) == [anime EXCEPT !.status = status]

NewToSource(external_ids, x) == \A y \in external_ids : y.source # x.source

AddExternalId(owner, x) == [owner EXCEPT !.external_ids = @ \cup {x}]

NewRelation(anime, target, type) == <<target, type>> \notin anime.relations

AddRelation(anime, target, type) ==
    [anime EXCEPT !.relations = @ \cup {<<target, type>>}]

AddSeason(anime, n) == [anime EXCEPT !.seasons = @ \cup {n}]

WithEpisode(anime, p, episode) == [anime EXCEPT !.episodes[p] = episode]

NewSource(episode, s) ==
    \A i \in DOMAIN episode.sources :
        \/ episode.sources[i].provider # s.provider
        \/ episode.sources[i].ref # s.ref

AddStreamingSource(episode, s) == [episode EXCEPT !.sources = Append(@, s)]

---------------------------------------------------------------------------
(* Queries.                                                                *)

(* None, as a position.                                                   *)
NoPosition == <<0, 0>>

EpisodesOf(anime, n) == {e \in EpisodeNumbers : HasEpisode(anime, <<n, e>>)}

Before(p, q) == p[1] < q[1] \/ (p[1] = q[1] /\ p[2] < q[2])

(* GetAnimeEpisodes: all episodes by season, then by number.               *)
EpisodeList(anime) ==
    LET ps == Listed(anime)
    IN  Sorted(ps, {pq \in ps \X ps : Before(pq[1], pq[2])})

(* Wrong variant: the next season's last episode.                          *)
NextEpisodeFromEnd(anime, n, e) ==
    IF HasEpisode(anime, <<n, e + 1>>) THEN <<n, e + 1>>
    ELSE IF EpisodesOf(anime, n + 1) # {}
         THEN <<n + 1, Max(EpisodesOf(anime, n + 1))>>
         ELSE NoPosition

(* GetNextEpisode: the next number, else the first episode of the next     *)
(* season, also when the current number or season does not exist.          *)
NextEpisode(anime, n, e) ==
    IF HasEpisode(anime, <<n, e + 1>>) THEN <<n, e + 1>>
    ELSE IF EpisodesOf(anime, n + 1) # {}
         THEN <<n + 1, Min(EpisodesOf(anime, n + 1))>>
         ELSE NoPosition

(* GetPreviousEpisode: beyond episode one only the number before counts.   *)
PreviousEpisode(anime, n, e) ==
    IF e > 1
    THEN IF HasEpisode(anime, <<n, e - 1>>) THEN <<n, e - 1>> ELSE NoPosition
    ELSE IF n > 1 /\ EpisodesOf(anime, n - 1) # {}
         THEN <<n - 1, Max(EpisodesOf(anime, n - 1))>>
         ELSE NoPosition
=============================================================================
