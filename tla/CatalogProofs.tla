--------------------------- MODULE CatalogProofs ---------------------------
(***************************************************************************)
(* Catalog: type correctness, that relations have their inverse, that      *)
(* nothing is lost, and that navigation follows the list of episodes, for  *)
(* every set of animes, episodes, sources and names and every number of    *)
(* writes.  CatalogListing: what a walk over the pages shows, and how      *)
(* often, for every size of pages, any filters and any commits meanwhile.  *)
(***************************************************************************)
EXTENDS Catalog, CatalogListing, OrderedProofs

IInv == TypeOK /\ RelationsMirrored

(* What every step does.                                                   *)
Kept == \A a \in Stored : Keeps(animes[a], animes'[a])

Steps == TypeOK' /\ RelationsMirrored' /\ Kept

---------------------------------------------------------------------------
LEMMA InitIInv == Init => IInv
<1> SUFFICES ASSUME Init PROVE IInv
  OBVIOUS
<1>1. Stored = {}
  BY DEF Init, Stored
<1> QED
  BY <1>1, CallersAssumption DEF Init, IInv, TypeOK, RelationsMirrored

LEMMA KeepsSame ==
    ASSUME NEW anime \in Anime
    PROVE  Keeps(anime, anime)
<1>1. anime # NoAnime
  BY NoAnimeAssumption
<1>2. \A p \in Listed(anime) : KeepsEpisode(anime.episodes[p], anime.episodes[p])
  <2> SUFFICES ASSUME NEW p \in Listed(anime)
               PROVE  KeepsEpisode(anime.episodes[p], anime.episodes[p])
    OBVIOUS
  <2>1. anime.episodes[p] \in Episode
    BY DEF Listed, Anime
  <2>2. Len(anime.episodes[p].sources) \in Nat
    BY <2>1 DEF Episode
  <2> QED
    BY <2>2 DEF KeepsEpisode
<1> QED
  BY <1>1, <1>2 DEF Keeps, HasEpisode

(* Animes that are stored are animes.                                      *)
LEMMA StoredTyped ==
    ASSUME TypeOK, NEW a \in Stored
    PROVE  animes[a] \in Anime /\ WellFormed(animes[a]) /\ a \in AnimeIds
  BY DEF TypeOK, Stored

(* Where relations only grow, and each new one is mirrored, all are.       *)
LEMMA StaysMirrored ==
    ASSUME RelationsMirrored, Stored \subseteq Stored',
           \A a \in Stored : animes[a].relations \subseteq animes'[a].relations,
           \A a \in Stored' : \A r \in animes'[a].relations :
               \/ a \in Stored /\ r \in animes[a].relations
               \/ Mirrored(a, r[1], r[2])'
    PROVE  RelationsMirrored'
<1> SUFFICES ASSUME NEW a \in Stored', NEW r \in animes'[a].relations
             PROVE  Mirrored(a, r[1], r[2])'
  BY DEF RelationsMirrored
<1>1. CASE a \in Stored /\ r \in animes[a].relations
  <2>1. Mirrored(a, r[1], r[2])
    BY <1>1 DEF RelationsMirrored
  <2> QED
    BY <2>1 DEF Mirrored
<1> QED
  BY <1>1

(* A stored anime is changed, and keeps what it has.                       *)
LEMMA ChangeSteps ==
    ASSUME IInv, NEW a \in Stored, NEW new \in Anime, WellFormed(new),
           Keeps(animes[a], new), new.relations = animes[a].relations, Put(a, new)
    PROVE  Steps
<1>1. /\ animes' = [animes EXCEPT ![a] = new] /\ labels' = labels
      /\ writes < MaxWrites /\ writes' = writes + 1
  BY DEF Put, Writes
<1>2. a \in AnimeIds /\ Stored' = Stored
  BY <1>1, NoAnimeAssumption DEF IInv, TypeOK, Stored
<1>3. \A b \in Stored : animes'[b] = IF b = a THEN new ELSE animes[b]
  BY <1>1 DEF IInv, TypeOK, Stored
<1>4. TypeOK'
  BY <1>1, <1>2, <1>3, CallersAssumption DEF IInv, TypeOK
<1>5. Kept
  BY <1>3, KeepsSame, StoredTyped DEF IInv, Kept
<1>6. \A b \in Stored : animes'[b].relations = animes[b].relations
  BY <1>3
<1>7. RelationsMirrored'
  BY <1>2, <1>6, StaysMirrored DEF IInv
<1> QED
  BY <1>4, <1>5, <1>7 DEF Steps

(* A new anime, and perhaps new labels.                                    *)
LEMMA NewSteps ==
    ASSUME IInv, NEW a \in AnimeIds \ Stored, NEW new \in Anime, WellFormed(new),
           new.relations = {}, Writes, animes' = [animes EXCEPT ![a] = new],
           labels' \in [LabelKinds -> SUBSET LabelSlugs]
    PROVE  Steps
<1>1. writes < MaxWrites /\ writes' = writes + 1
  BY DEF Writes
<1>2. Stored' = Stored \cup {a} /\ animes'[a] = new
  BY NoAnimeAssumption DEF IInv, TypeOK, Stored
<1>3. \A b \in Stored : animes'[b] = animes[b]
  BY DEF IInv, TypeOK, Stored
<1>4. TypeOK'
  BY <1>1, <1>2, <1>3, CallersAssumption DEF IInv, TypeOK
<1>5. Kept
  BY <1>3, KeepsSame, StoredTyped DEF IInv, Kept
<1>6. RelationsMirrored'
  BY <1>2, <1>3, StaysMirrored DEF IInv
<1> QED
  BY <1>4, <1>5, <1>6 DEF Steps

(* Labels only.                                                            *)
LEMMA LabelSteps ==
    ASSUME IInv, Writes, animes' = animes, labels' \in [LabelKinds -> SUBSET LabelSlugs]
    PROVE  Steps
<1>1. writes < MaxWrites /\ writes' = writes + 1 /\ Stored' = Stored
  BY DEF Writes, Stored
<1>2. TypeOK'
  BY <1>1, CallersAssumption DEF IInv, TypeOK
<1>3. Kept
  BY KeepsSame, StoredTyped DEF IInv, Kept
<1>4. RelationsMirrored'
  BY <1>1, StaysMirrored DEF IInv
<1> QED
  BY <1>2, <1>3, <1>4 DEF Steps

---------------------------------------------------------------------------
(* The mutators: what comes out is a well-formed anime that keeps what     *)
(* went in.                                                                *)

LEMMA KeepsByFields ==
    ASSUME NEW old \in Anime, NEW new \in Anime, new.slug = old.slug,
           old.status \in {"completed", "cancelled"} => new.status = old.status,
           old.external_ids \subseteq new.external_ids,
           old.relations \subseteq new.relations, old.seasons \subseteq new.seasons,
           new.episodes = old.episodes
    PROVE  Keeps(old, new)
<1>1. Keeps(old, old)
  BY KeepsSame
<1>2. new # NoAnime
  BY NoAnimeAssumption
<1> QED
  BY <1>1, <1>2 DEF Keeps, Listed, HasEpisode

LEMMA StatusKeeps ==
    ASSUME NEW anime \in Anime, WellFormed(anime), NEW status \in AnimeStatus,
           MayBecome(anime, status)
    PROVE  LET new == ChangeStatus(anime, status)
           IN  /\ new \in Anime /\ WellFormed(new) /\ Keeps(anime, new)
               /\ new.relations = anime.relations
<1> DEFINE new == ChangeStatus(anime, status)
<1>1. new \in Anime
  BY DEF Anime, ChangeStatus
<1>2. /\ new.slug = anime.slug /\ new.external_ids = anime.external_ids
      /\ new.relations = anime.relations /\ new.seasons = anime.seasons
      /\ new.episodes = anime.episodes
  BY DEF Anime, ChangeStatus
<1>3. anime.status \notin {"completed", "cancelled"}
  BY DEF MayBecome, ALLOWED_STATUS_TRANSITIONS
<1> HIDE DEF new
<1>4. WellFormed(new)
  BY <1>2 DEF WellFormed, Listed
<1>5. Keeps(anime, new)
  BY <1>1, <1>2, <1>3, KeepsByFields
<1> QED
  BY <1>1, <1>2, <1>4, <1>5 DEF new

LEMMA ExternalIdKeeps ==
    ASSUME NEW anime \in Anime, WellFormed(anime), NEW x \in ExternalIds,
           NewToSource(anime.external_ids, x)
    PROVE  LET new == AddExternalId(anime, x)
           IN  /\ new \in Anime /\ WellFormed(new) /\ Keeps(anime, new)
               /\ new.relations = anime.relations
<1> DEFINE new == AddExternalId(anime, x)
<1>1. new \in Anime
  BY DEF Anime, AddExternalId
<1>2. /\ new.slug = anime.slug /\ new.external_ids = anime.external_ids \cup {x}
      /\ new.relations = anime.relations /\ new.seasons = anime.seasons
      /\ new.episodes = anime.episodes /\ new.status = anime.status
  BY DEF Anime, AddExternalId
<1> HIDE DEF new
<1>3. OnePerSource(new.external_ids)
  BY <1>2 DEF WellFormed, OnePerSource, NewToSource
<1>4. WellFormed(new)
  BY <1>2, <1>3 DEF WellFormed, Listed
<1>5. Keeps(anime, new)
  BY <1>1, <1>2, KeepsByFields
<1> QED
  BY <1>1, <1>2, <1>4, <1>5 DEF new

LEMMA SeasonKeeps ==
    ASSUME NEW anime \in Anime, WellFormed(anime), NEW n \in SeasonNumbers
    PROVE  LET new == AddSeason(anime, n)
           IN  /\ new \in Anime /\ WellFormed(new) /\ Keeps(anime, new)
               /\ new.relations = anime.relations
<1> DEFINE new == AddSeason(anime, n)
<1>1. new \in Anime
  BY DEF Anime, AddSeason
<1>2. /\ new.slug = anime.slug /\ new.external_ids = anime.external_ids
      /\ new.relations = anime.relations /\ new.seasons = anime.seasons \cup {n}
      /\ new.episodes = anime.episodes /\ new.status = anime.status
  BY DEF Anime, AddSeason
<1> HIDE DEF new
<1>3. WellFormed(new)
  BY <1>2 DEF WellFormed, Listed
<1>4. Keeps(anime, new)
  BY <1>1, <1>2, KeepsByFields
<1> QED
  BY <1>1, <1>2, <1>3, <1>4 DEF new

(* An episode comes, or one is changed that keeps what it has.             *)
LEMMA EpisodeKeeps ==
    ASSUME NEW anime \in Anime, WellFormed(anime), NEW p \in Positions,
           p[1] \in anime.seasons, NEW episode \in Episode, WellFormedEpisode(episode),
           HasEpisode(anime, p) => KeepsEpisode(anime.episodes[p], episode)
    PROVE  LET new == WithEpisode(anime, p, episode)
           IN  /\ new \in Anime /\ WellFormed(new) /\ Keeps(anime, new)
               /\ new.relations = anime.relations
<1> DEFINE new == WithEpisode(anime, p, episode)
<1>1. anime.episodes \in [Positions -> Episode \cup {NoEpisode}]
  BY DEF Anime
<1>2. /\ new.slug = anime.slug /\ new.external_ids = anime.external_ids
      /\ new.relations = anime.relations /\ new.seasons = anime.seasons
      /\ new.status = anime.status /\ new.genres = anime.genres
      /\ new.episodes = [anime.episodes EXCEPT ![p] = episode]
  BY DEF Anime, WithEpisode
<1>3. new.episodes \in [Positions -> Episode \cup {NoEpisode}]
  BY <1>1, <1>2
<1>4. new \in Anime
  BY <1>1, <1>3 DEF Anime, WithEpisode
<1> HIDE DEF new
<1>5. /\ new.episodes[p] = episode
      /\ \A q \in Positions : q # p => new.episodes[q] = anime.episodes[q]
  BY <1>1, <1>2
<1>6. Listed(new) = Listed(anime) \cup {p}
  BY <1>5, CatalogAssumption DEF Listed
<1>7. WellFormed(new)
  BY <1>2, <1>5, <1>6 DEF WellFormed, Listed
<1>8. Keeps(anime, new)
  <2>1. Keeps(anime, anime) /\ new # NoAnime
    BY <1>4, KeepsSame, NoAnimeAssumption
  <2>2. \A q \in Listed(anime) :
           HasEpisode(new, q) /\ KeepsEpisode(anime.episodes[q], new.episodes[q])
    BY <1>5, <1>6, <2>1 DEF Keeps, HasEpisode, Listed
  <2> QED
    BY <1>2, <2>1, <2>2 DEF Keeps
<1> QED
  BY <1>2, <1>4, <1>7, <1>8 DEF new

LEMMA EpisodeIdKeeps ==
    ASSUME NEW episode \in Episode, WellFormedEpisode(episode), NEW x \in ExternalIds,
           NewToSource(episode.external_ids, x)
    PROVE  LET new == AddExternalId(episode, x)
           IN  new \in Episode /\ WellFormedEpisode(new) /\ KeepsEpisode(episode, new)
<1> DEFINE new == AddExternalId(episode, x)
<1>1. new \in Episode
  BY DEF Episode, AddExternalId
<1>2. new.external_ids = episode.external_ids \cup {x} /\ new.sources = episode.sources
  BY DEF Episode, AddExternalId
<1>3. Len(episode.sources) \in Nat
  BY DEF Episode
<1> HIDE DEF new
<1>4. WellFormedEpisode(new)
  BY <1>2 DEF WellFormedEpisode, OnePerSource, NewToSource
<1>5. KeepsEpisode(episode, new)
  BY <1>2, <1>3 DEF KeepsEpisode
<1> QED
  BY <1>1, <1>4, <1>5 DEF new

LEMMA SourceKeeps ==
    ASSUME NEW episode \in Episode, WellFormedEpisode(episode),
           NEW source \in StreamingSources, NewSource(episode, source)
    PROVE  LET new == AddStreamingSource(episode, source)
           IN  new \in Episode /\ WellFormedEpisode(new) /\ KeepsEpisode(episode, new)
<1> DEFINE new == AddStreamingSource(episode, source)
<1>1. episode.sources \in Seq(StreamingSources)
  BY DEF Episode
<1>2. /\ new.external_ids = episode.external_ids
      /\ new.sources = Append(episode.sources, source)
  BY DEF Episode, AddStreamingSource
<1>3. new \in Episode
  BY <1>1 DEF Episode, AddStreamingSource
<1> HIDE DEF new
<1>4. /\ Len(new.sources) = Len(episode.sources) + 1
      /\ \A i \in 1..Len(episode.sources) : new.sources[i] = episode.sources[i]
      /\ new.sources[Len(new.sources)] = source
      /\ Len(episode.sources) \in Nat
      /\ DOMAIN episode.sources = 1..Len(episode.sources)
      /\ DOMAIN new.sources = 1..(Len(episode.sources) + 1)
  BY <1>1, <1>2
<1>5. \A i \in DOMAIN new.sources : i \in DOMAIN episode.sources \/ i = Len(new.sources)
  BY <1>4
<1>6. WellFormedEpisode(new)
  BY <1>2, <1>4, <1>5 DEF WellFormedEpisode, NewSource
<1>7. KeepsEpisode(episode, new)
  BY <1>2, <1>4 DEF KeepsEpisode
<1> QED
  BY <1>3, <1>6, <1>7 DEF new

---------------------------------------------------------------------------
(* The actions.                                                            *)

LEMMA EditSteps ==
    ASSUME IInv, NEW a \in AnimeIds,
           \/ \E status \in AnimeStatus : ChangeAnimeStatus(a, status)
           \/ \E x \in ExternalIds : AddAnimeExternalId(a, x)
           \/ \E n \in SeasonNumbers : AddAnimeSeason(a, n)
    PROVE  Steps
<1>1. TypeOK
  BY DEF IInv
<1>2. ASSUME NEW status \in AnimeStatus, ChangeAnimeStatus(a, status) PROVE Steps
  BY <1>1, <1>2, StoredTyped, StatusKeeps, ChangeSteps DEF ChangeAnimeStatus
<1>3. ASSUME NEW x \in ExternalIds, AddAnimeExternalId(a, x) PROVE Steps
  BY <1>1, <1>3, StoredTyped, ExternalIdKeeps, ChangeSteps DEF AddAnimeExternalId
<1>4. ASSUME NEW n \in SeasonNumbers, AddAnimeSeason(a, n) PROVE Steps
  BY <1>1, <1>4, StoredTyped, SeasonKeeps, ChangeSteps DEF AddAnimeSeason
<1> QED
  BY <1>2, <1>3, <1>4

LEMMA EpisodeSteps ==
    ASSUME IInv, NEW a \in AnimeIds, NEW p \in Positions,
           \/ AddEpisode(a, p)
           \/ \E x \in ExternalIds : AddEpisodeExternalId(a, p, x)
           \/ \E s \in StreamingSources : AddEpisodeSource(a, p, s)
    PROVE  Steps
<1>1. a \in Stored
  BY DEF AddEpisode, AddEpisodeExternalId, AddEpisodeSource
<1>2. animes[a] \in Anime /\ WellFormed(animes[a])
  BY <1>1, StoredTyped DEF IInv
<1>3. HasEpisode(animes[a], p) =>
         /\ p[1] \in animes[a].seasons /\ animes[a].episodes[p] \in Episode
         /\ WellFormedEpisode(animes[a].episodes[p])
  BY <1>2 DEF HasEpisode, WellFormed, Listed, Anime
<1>4. ASSUME NEW episode \in Episode, WellFormedEpisode(episode),
             p[1] \in animes[a].seasons, Put(a, WithEpisode(animes[a], p, episode)),
             HasEpisode(animes[a], p) => KeepsEpisode(animes[a].episodes[p], episode)
      PROVE  Steps
  BY <1>1, <1>2, <1>4, EpisodeKeeps, ChangeSteps
<1>5. CASE AddEpisode(a, p)
  <2>1. NewEpisode \in Episode /\ WellFormedEpisode(NewEpisode)
    BY DEF NewEpisode, Episode, WellFormedEpisode, OnePerSource
  <2> QED
    BY <1>4, <1>5, <2>1 DEF AddEpisode
<1>6. ASSUME NEW x \in ExternalIds, AddEpisodeExternalId(a, p, x) PROVE Steps
  BY <1>3, <1>4, <1>6, EpisodeIdKeeps DEF AddEpisodeExternalId
<1>7. ASSUME NEW s \in StreamingSources, AddEpisodeSource(a, p, s) PROVE Steps
  BY <1>3, <1>4, <1>7, SourceKeeps DEF AddEpisodeSource
<1> QED
  BY <1>5, <1>6, <1>7

(* Both sides of a relation change; the other side may have it already.    *)
LEMMA RelationSteps ==
    ASSUME IInv, NEW a \in AnimeIds, NEW b \in AnimeIds, NEW type \in RelationTypes,
           RelateAnimes(a, b, type)
    PROVE  Steps
<1> DEFINE back == RELATION_INVERSE[type]
           newA == AddRelation(animes[a], b, type)
           newB == IF NewRelation(animes[b], a, back)
                   THEN AddRelation(animes[b], a, back) ELSE animes[b]
<1>1. /\ a \in Stored /\ b \in Stored /\ a # b /\ Writes /\ labels' = labels
      /\ animes' = [animes EXCEPT ![a] = newA, ![b] = newB]
  BY DEF RelateAnimes, Relate
<1>2. /\ animes[a] \in Anime /\ WellFormed(animes[a])
      /\ animes[b] \in Anime /\ WellFormed(animes[b])
  BY <1>1, StoredTyped DEF IInv
<1>3. type \in RelationType /\ back \in RelationType
  BY CallersAssumption DEF RelationType, RELATION_INVERSE
<1>4. ASSUME NEW anime \in Anime, WellFormed(anime), NEW target \in AnimeIds,
             NEW kind \in RelationType
      PROVE  LET new == AddRelation(anime, target, kind)
             IN  /\ new \in Anime /\ WellFormed(new) /\ Keeps(anime, new)
                 /\ new.relations = anime.relations \cup {<<target, kind>>}
  <2> DEFINE new == AddRelation(anime, target, kind)
  <2>1. new \in Anime
    BY DEF Anime, Relation, AddRelation
  <2>2. /\ new.slug = anime.slug /\ new.external_ids = anime.external_ids
        /\ new.relations = anime.relations \cup {<<target, kind>>}
        /\ new.seasons = anime.seasons
        /\ new.episodes = anime.episodes /\ new.status = anime.status
    BY DEF Anime, AddRelation
  <2> HIDE DEF new
  <2>3. WellFormed(new)
    BY <1>4, <2>2 DEF WellFormed, Listed
  <2>4. Keeps(anime, new)
    BY <2>1, <2>2, KeepsByFields
  <2> QED
    BY <2>1, <2>2, <2>3, <2>4 DEF new
<1>5. /\ newA \in Anime /\ WellFormed(newA) /\ Keeps(animes[a], newA)
      /\ newA.relations = animes[a].relations \cup {<<b, type>>}
  BY <1>2, <1>3, <1>4
<1>6. /\ newB \in Anime /\ WellFormed(newB) /\ Keeps(animes[b], newB)
      /\ newB.relations = animes[b].relations \cup {<<a, back>>}
  <2>1. CASE NewRelation(animes[b], a, back)
    BY <1>2, <1>3, <1>4, <2>1
  <2>2. CASE ~NewRelation(animes[b], a, back)
    BY <1>2, <2>2, KeepsSame DEF NewRelation
  <2> QED
    BY <2>1, <2>2
<1> HIDE DEF newA, newB, back
<1>7. /\ animes'[a] = newA /\ animes'[b] = newB
      /\ \A c \in Stored : c # a /\ c # b => animes'[c] = animes[c]
      /\ Stored' = Stored
  BY <1>1, <1>5, <1>6, NoAnimeAssumption DEF IInv, TypeOK, Stored
<1>8. TypeOK'
  <2>1. animes' \in [AnimeIds -> Anime \cup {NoAnime}]
    BY <1>1, <1>5, <1>6 DEF IInv, TypeOK
  <2>2. \A c \in Stored' : WellFormed(animes'[c])
    BY <1>5, <1>6, <1>7 DEF IInv, TypeOK
  <2>3. writes' \in 0..MaxWrites
    BY <1>1, CallersAssumption DEF IInv, TypeOK, Writes
  <2> QED
    BY <1>1, <2>1, <2>2, <2>3 DEF IInv, TypeOK
<1>9. Kept
  BY <1>5, <1>6, <1>7, KeepsSame, StoredTyped DEF IInv, Kept
<1>10. RelationsMirrored'
  <2>1. Mirrored(a, b, type)' /\ Mirrored(b, a, back)'
    BY <1>1, <1>3, <1>5, <1>6, <1>7 DEF Mirrored, back
  <2>2. \A c \in Stored : animes[c].relations \subseteq animes'[c].relations
    BY <1>5, <1>6, <1>7
  <2>3. ASSUME NEW c \in Stored', NEW r \in animes'[c].relations
        PROVE  (c \in Stored /\ r \in animes[c].relations) \/ Mirrored(c, r[1], r[2])'
    BY <1>5, <1>6, <1>7, <2>1
  <2> QED
    BY <1>7, <2>2, <2>3, StaysMirrored DEF IInv
<1> QED
  BY <1>8, <1>9, <1>10 DEF Steps

Filled(bare, seasons, listing) ==
    [bare EXCEPT !.seasons = seasons, !.episodes = listing]

LEMMA FilledAnime ==
    ASSUME NEW bare \in Anime, NEW seasons \in SUBSET SeasonNumbers,
           NEW listing \in [Positions -> Episode \cup {NoEpisode}]
    PROVE  /\ Filled(bare, seasons, listing) \in Anime
           /\ Filled(bare, seasons, listing).relations = bare.relations
           /\ Filled(bare, seasons, listing).external_ids = bare.external_ids
           /\ Filled(bare, seasons, listing).seasons = seasons
           /\ Filled(bare, seasons, listing).episodes = listing
<1> DEFINE mid == [bare EXCEPT !.seasons = seasons]
<1>1. /\ mid \in Anime /\ mid.relations = bare.relations
      /\ mid.external_ids = bare.external_ids /\ mid.seasons = seasons
  BY DEF Anime
<1>2. Filled(bare, seasons, listing) = [mid EXCEPT !.episodes = listing]
  BY DEF Anime, Filled
<1> HIDE DEF mid
<1> QED
  BY <1>1, <1>2 DEF Anime

LEMMA CreateSteps ==
    ASSUME IInv, NEW slug \in Slugs, NEW genres \in SUBSET LabelSlugs, Create(slug, genres)
    PROVE  Steps
<1>1. [labels EXCEPT !["genre"] = @ \cup genres] \in [LabelKinds -> SUBSET LabelSlugs]
  BY DEF IInv, TypeOK
<1>2. CASE IngestBroken(slug, genres)
  BY <1>1, <1>2, LabelSteps DEF IngestBroken
<1>3. ASSUME NEW a \in AnimeIds, NEW status \in FirstStatuses,
             CreateAnime(a, slug, status, genres)
      PROVE  Steps
  <2> DEFINE new == NewAnime(slug, status, genres)
  <2>1. new \in Anime /\ new.relations = {}
    BY CallersAssumption DEF NewAnime, Anime
  <2>2. WellFormed(new)
    BY DEF NewAnime, WellFormed, Listed, OnePerSource
  <2>3. a \notin Stored /\ Put(a, new)
    BY <1>3 DEF CreateAnime
  <2> HIDE DEF new
  <2> QED
    BY <2>1, <2>2, <2>3, NewSteps DEF Put, IInv, TypeOK
<1>4. ASSUME NEW a \in AnimeIds, NEW status \in FirstStatuses, NEW listing \in Listings,
             IngestAnime(a, slug, status, genres, listing)
      PROVE  Steps
  <2> DEFINE bare == NewAnime(slug, status, genres)
             new == Ingested(slug, status, genres, listing)
  <2>1. bare \in Anime /\ bare.external_ids = {} /\ bare.relations = {}
    BY CallersAssumption DEF NewAnime, Anime
  <2> HIDE DEF bare
  <2>2. /\ new \in Anime /\ new.relations = {} /\ new.external_ids = {}
        /\ new.seasons = {1} /\ new.episodes = listing
    <3>1. new = Filled(bare, {1}, listing)
      BY DEF Ingested, Filled, bare
    <3>2. /\ {1} \in SUBSET SeasonNumbers
          /\ listing \in [Positions -> Episode \cup {NoEpisode}]
      BY CallersAssumption
    <3> HIDE DEF new
    <3> QED
      BY <2>1, <3>1, <3>2, FilledAnime
  <2>3. WellFormed(new)
    BY <2>2, CallersAssumption DEF WellFormed, Listed, OnePerSource
  <2> HIDE DEF new
  <2>4. a \notin Stored /\ Writes /\ animes' = [animes EXCEPT ![a] = new]
        /\ labels' = [labels EXCEPT !["genre"] = @ \cup genres]
    BY <1>4 DEF IngestAnime, new
  <2> QED
    BY <1>1, <2>2, <2>3, <2>4, NewSteps
<1> QED
  BY <1>2, <1>3, <1>4 DEF Create

LEMMA NextSteps == IInv /\ [Next]_vars => IInv' /\ [Kept]_vars
<1> SUFFICES ASSUME IInv, [Next]_vars PROVE IInv' /\ [Kept]_vars
  OBVIOUS
<1>1. CASE UNCHANGED vars
  BY <1>1 DEF vars, IInv, TypeOK, RelationsMirrored, Mirrored, Stored
<1>2. ASSUME NEW slug \in LabelSlugs, Label(slug) PROVE Steps
  <2>1. /\ Writes /\ animes' = animes
        /\ labels' \in [LabelKinds -> SUBSET LabelSlugs]
    BY <1>2 DEF Label, CreateGenre, CreateStudio, CreateProducer, CreateTag, CreateLabel,
       IInv, TypeOK
  <2> QED
    BY <2>1, LabelSteps
<1>3. ASSUME NEW a \in AnimeIds, Edit(a) PROVE Steps
  BY <1>3, EditSteps, EpisodeSteps, RelationSteps DEF Edit
<1>4. Next => Steps
  BY <1>2, <1>3, CreateSteps DEF Next
<1> QED
  BY <1>1, <1>4 DEF Steps, IInv

LEMMA Invariance == Spec => []IInv
<1> QED
  BY InitIInv, NextSteps, PTL DEF Spec

(* Every stored anime is one, with one external id per source, no video    *)
(* twice, and no episode outside a season.                                 *)
THEOREM TypeCorrect == Spec => []TypeOK
<1>1. IInv => TypeOK
  BY DEF IInv
<1> QED
  BY <1>1, Invariance, PTL

(* RelationLinkingService leaves no relation without an inverse.           *)
THEOREM Mirrors == Spec => []RelationsMirrored
<1>1. IInv => RelationsMirrored
  BY DEF IInv
<1> QED
  BY <1>1, Invariance, PTL

(* No use case of the catalog takes anything away.                         *)
THEOREM Keeping == Spec => NothingLost
<1>1. IInv /\ [Next]_vars => [\A a \in Stored : Keeps(animes[a], animes'[a])]_vars
  BY NextSteps DEF Kept
<1> QED
  BY <1>1, Invariance, PTL DEF Spec, NothingLost

---------------------------------------------------------------------------
(* Next and previous episodes.                                             *)

LEMMA ListedPositions ==
    ASSUME NEW anime, NEW p \in Listed(anime)
    PROVE  /\ p[1] \in SeasonNumbers /\ p[2] \in EpisodeNumbers /\ p = <<p[1], p[2]>>
           /\ p[1] \in Nat \ {0} /\ p[2] \in Nat \ {0}
<1>1. p \in SeasonNumbers \X EpisodeNumbers
  BY DEF Listed, Positions
<1>2. p[1] \in SeasonNumbers /\ p[2] \in EpisodeNumbers /\ p = <<p[1], p[2]>>
  BY ONLY <1>1
<1>3. p[1] \in Nat \ {0} /\ p[2] \in Nat \ {0}
  BY <1>2, CatalogAssumption
<1> QED
  BY <1>2, <1>3

(* The list of episodes is a list of all, from the first to the last.      *)
LEMMA ListOrdered ==
    ASSUME NEW anime \in Anime
    PROVE  LET list == EpisodeList(anime)
               n == Cardinality(Listed(anime))
           IN  /\ n \in Nat /\ DOMAIN list = 1..n /\ Len(list) = n
               /\ \A i \in 1..n : list[i] \in Listed(anime)
               /\ \A p \in Listed(anime) : \E i \in 1..n : list[i] = p
               /\ \A i, j \in 1..n : i < j <=> Before(list[i], list[j])
<1> DEFINE ps == Listed(anime)
           R == {pq \in ps \X ps : Before(pq[1], pq[2])}
           list == EpisodeList(anime)
           n == Cardinality(ps)
<1>1. \A p \in ps : p[1] \in Nat /\ p[2] \in Nat /\ p = <<p[1], p[2]>>
  BY ListedPositions
<1>2. IsFiniteSet(ps)
  <2>1. IsFiniteSet(Positions)
    BY CatalogAssumption, FS_Product DEF Positions
  <2>2. ps \in SUBSET Positions
    BY DEF Listed
  <2> QED
    BY <2>1, <2>2, FS_Subset
<1>3. \A p, q \in ps : <<p, q>> \in R <=> Before(p, q)
  OBVIOUS
<1> HIDE DEF R, ps
<1>4. StrictOrder(ps, R)
  BY <1>1, <1>3 DEF StrictOrder, Before
<1>5. list = Sorted(ps, R)
  BY DEF EpisodeList, ps, R
<1>6. /\ n \in Nat /\ list \in Bijection(1..n, ps)
      /\ \A i, j \in 1..n : i < j <=> <<list[i], list[j]>> \in R
  BY <1>2, <1>4, <1>5, SortedLists
<1>7. list \in [1..n -> ps] /\ \A p \in ps : \E i \in 1..n : list[i] = p
  BY <1>6 DEF Bijection, Injection, Surjection
<1>8. Len(list) = n
  BY <1>6, <1>7
<1> QED
  BY <1>3, <1>6, <1>7, <1>8 DEF ps

(* Without gaps, the episode after p in the list is the one its "next"     *)
(* button leads to, and the button of the last leads nowhere.              *)
LEMMA NextFollows ==
    ASSUME NEW anime \in Anime, Gapless(anime), NEW p \in Listed(anime)
    PROVE  /\ (\A q \in Listed(anime) : ~Before(p, q)) =>
                 NextEpisode(anime, p[1], p[2]) = NoPosition
           /\ \A q \in Listed(anime) :
                 Before(p, q) /\ (\A r \in Listed(anime) : ~(Before(p, r) /\ Before(r, q))) =>
                    NextEpisode(anime, p[1], p[2]) = q
<1> DEFINE ps == Listed(anime)
<1>1. \A q \in ps : /\ q[1] \in Nat \ {0} /\ q[2] \in Nat \ {0} /\ q = <<q[1], q[2]>>
                    /\ q[1] \in SeasonNumbers /\ q[2] \in EpisodeNumbers
  BY ListedPositions
<1>2. \A m : EpisodesOf(anime, m) = {e \in EpisodeNumbers : <<m, e>> \in ps}
  BY DEF EpisodesOf, HasEpisode
<1>3. ASSUME \A q \in ps : ~Before(p, q)
      PROVE  NextEpisode(anime, p[1], p[2]) = NoPosition
  <2>1. <<p[1], p[2] + 1>> \notin ps
    BY <1>1, <1>3 DEF Before
  <2>2. \A e \in EpisodeNumbers : <<p[1] + 1, e>> \notin ps
    BY <1>1, <1>3 DEF Before
  <2> QED
    BY <1>2, <2>1, <2>2 DEF NextEpisode, HasEpisode
<1>4. ASSUME NEW q \in ps, Before(p, q), \A r \in ps : ~(Before(p, r) /\ Before(r, q))
      PROVE  NextEpisode(anime, p[1], p[2]) = q
  <2>1. CASE <<p[1], p[2] + 1>> \in ps
    <3>1. q[1] = p[1] /\ q[2] = p[2] + 1
      BY <1>1, <1>4, <2>1 DEF Before
    <3> QED
      BY <1>1, <2>1, <3>1 DEF NextEpisode, HasEpisode
  <2>2. CASE <<p[1], p[2] + 1>> \notin ps
    <3>1. q[1] > p[1]
      <4>1. \A e \in 1..q[2] : <<q[1], e>> \in ps
        BY DEF Gapless, HasEpisode
      <4> QED
        BY <1>1, <1>4, <2>2, <4>1 DEF Before
    <3>2. EpisodesOf(anime, p[1] + 1) # {}
      BY <1>1, <3>1 DEF Gapless
    <3>3. PICK e \in EpisodeNumbers : <<p[1] + 1, e>> \in ps
      BY <1>2, <3>2
    <3>4. e \in Nat \ {0}
      BY CatalogAssumption
    <3>5. <<p[1] + 1, 1>> \in ps
      <4>1. \A k \in 1..e : <<p[1] + 1, k>> \in ps
        BY <3>3 DEF Gapless, HasEpisode
      <4> QED
        BY <3>4, <4>1
    <3>6. 1 \in EpisodesOf(anime, p[1] + 1)
      BY <1>1, <1>2, <3>5
    <3>7. \A k \in EpisodesOf(anime, p[1] + 1) : k \in Nat /\ 1 <= k
      <4> TAKE k \in EpisodesOf(anime, p[1] + 1)
      <4>1. k \in EpisodeNumbers
        BY DEF EpisodesOf
      <4>2. k \in Nat \ {0}
        BY ONLY <4>1, CatalogAssumption
      <4> QED
        BY ONLY <4>2
    <3>8. Min(EpisodesOf(anime, p[1] + 1)) = 1
      BY <3>6, <3>7 DEF Min
    <3>9. q[1] = p[1] + 1 /\ q[2] = 1
      BY <1>1, <1>4, <3>1, <3>5 DEF Before
    <3> QED
      BY <1>1, <2>2, <3>2, <3>8, <3>9 DEF NextEpisode, HasEpisode
  <2> QED
    BY <2>1, <2>2
<1> QED
  BY <1>3, <1>4

(* And the one before p is the one its "previous" button leads to.         *)
LEMMA PreviousFollows ==
    ASSUME NEW anime \in Anime, Gapless(anime), NEW p \in Listed(anime)
    PROVE  /\ (\A q \in Listed(anime) : ~Before(q, p)) =>
                 PreviousEpisode(anime, p[1], p[2]) = NoPosition
           /\ \A q \in Listed(anime) :
                 Before(q, p) /\ (\A r \in Listed(anime) : ~(Before(q, r) /\ Before(r, p))) =>
                    PreviousEpisode(anime, p[1], p[2]) = q
<1> DEFINE ps == Listed(anime)
<1>1. \A q \in ps : /\ q[1] \in Nat \ {0} /\ q[2] \in Nat \ {0} /\ q = <<q[1], q[2]>>
                    /\ q[1] \in SeasonNumbers /\ q[2] \in EpisodeNumbers
  BY ListedPositions
<1>2. \A m : EpisodesOf(anime, m) = {e \in EpisodeNumbers : <<m, e>> \in ps}
  BY DEF EpisodesOf, HasEpisode
<1>3. p[2] > 1 => <<p[1], p[2] - 1>> \in ps
  <2>1. \A e \in 1..p[2] : <<p[1], e>> \in ps
    BY DEF Gapless, HasEpisode
  <2> QED
    BY <1>1, <2>1
<1>4. ASSUME \A q \in ps : ~Before(q, p)
      PROVE  PreviousEpisode(anime, p[1], p[2]) = NoPosition
  <2>1. ~(p[2] > 1)
    BY <1>1, <1>3, <1>4 DEF Before
  <2>2. \A e \in EpisodeNumbers : <<p[1] - 1, e>> \notin ps
    BY <1>1, <1>4 DEF Before
  <2> QED
    BY <1>2, <2>1, <2>2 DEF PreviousEpisode
<1>5. ASSUME NEW q \in ps, Before(q, p), \A r \in ps : ~(Before(q, r) /\ Before(r, p))
      PROVE  PreviousEpisode(anime, p[1], p[2]) = q
  <2>1. CASE p[2] > 1
    <3>1. q[1] = p[1] /\ q[2] = p[2] - 1
      BY <1>1, <1>3, <1>5, <2>1 DEF Before
    <3> QED
      BY <1>1, <1>3, <2>1, <3>1 DEF PreviousEpisode, HasEpisode
  <2>2. CASE ~(p[2] > 1)
    <3>1. p[2] = 1 /\ q[1] < p[1]
      BY <1>1, <1>5, <2>2 DEF Before
    <3>2. EpisodesOf(anime, p[1] - 1) # {}
      BY <1>1, <3>1 DEF Gapless
    <3>3. \A e \in EpisodesOf(anime, p[1] - 1) :
              <<p[1] - 1, e>> \in ps /\ e \in Nat /\ Before(<<p[1] - 1, e>>, p)
      BY <1>1, <1>2 DEF Before
    <3>4. q[1] = p[1] - 1
      <4>1. PICK e \in EpisodesOf(anime, p[1] - 1) : TRUE
        BY <3>2
      <4>2. DEFINE r == <<p[1] - 1, e>>
      <4>3. r \in ps /\ Before(r, p) /\ r[1] = p[1] - 1
        BY <3>3
      <4>4. ~Before(q, r)
        BY <1>5, <4>3
      <4>5. q[1] \in Nat /\ p[1] \in Nat
        BY <1>1
      <4> HIDE DEF r
      <4>6. ~(q[1] < r[1])
        BY <4>4 DEF Before
      <4> QED
        BY <3>1, <4>3, <4>5, <4>6
    <3>5. q[2] \in EpisodesOf(anime, p[1] - 1)
      BY <1>1, <1>2, <3>4
    <3>6. \A e \in EpisodesOf(anime, p[1] - 1) : q[2] >= e
      <4> TAKE e \in EpisodesOf(anime, p[1] - 1)
      <4>2. DEFINE r == <<p[1] - 1, e>>
      <4>3. r \in ps /\ Before(r, p) /\ r[1] = p[1] - 1 /\ r[2] = e /\ e \in Nat
        BY <3>3
      <4>4. ~Before(q, r) /\ q[2] \in Nat
        BY <1>1, <1>5, <4>3
      <4> HIDE DEF r
      <4>5. ~(q[2] < r[2])
        BY <3>4, <4>3, <4>4 DEF Before
      <4> QED
        BY <4>3, <4>4, <4>5
    <3>7. Max(EpisodesOf(anime, p[1] - 1)) = q[2]
      BY <3>3, <3>5, <3>6 DEF Max
    <3> QED
      BY <1>1, <2>2, <3>1, <3>2, <3>4, <3>7 DEF PreviousEpisode
  <2> QED
    BY <2>1, <2>2
<1> QED
  BY <1>4, <1>5

LEMMA ListFollowed ==
    ASSUME NEW anime \in Anime, Gapless(anime), NEW i \in DOMAIN EpisodeList(anime)
    PROVE  Follows(anime, EpisodeList(anime), i)
<1> DEFINE ps == Listed(anime)
           n == Cardinality(ps)
           list == EpisodeList(anime)
           p == list[i]
<1>1. /\ n \in Nat /\ DOMAIN list = 1..n /\ Len(list) = n
      /\ \A j \in 1..n : list[j] \in ps
      /\ \A q \in ps : \E j \in 1..n : list[j] = q
      /\ \A j, k \in 1..n : j < k <=> Before(list[j], list[k])
  BY ListOrdered
<1>2. i \in 1..n /\ p \in ps
  BY <1>1
<1> HIDE DEF n, list, ps
<1>3. NextEpisode(anime, p[1], p[2]) = IF i = n THEN NoPosition ELSE list[i + 1]
  <2>1. CASE i = n
    <3>1. \A q \in ps : ~Before(p, q)
      BY <1>1, <1>2, <2>1
    <3> QED
      BY <1>2, <2>1, <3>1, NextFollows DEF ps
  <2>2. CASE i # n
    <3>1. i + 1 \in 1..n /\ list[i + 1] \in ps /\ Before(p, list[i + 1])
      BY <1>1, <1>2, <2>2
    <3>2. \A r \in ps : ~(Before(p, r) /\ Before(r, list[i + 1]))
      BY <1>1, <1>2, <3>1
    <3> QED
      BY <1>2, <2>2, <3>1, <3>2, NextFollows DEF ps
  <2> QED
    BY <2>1, <2>2
<1>4. PreviousEpisode(anime, p[1], p[2]) = IF i = 1 THEN NoPosition ELSE list[i - 1]
  <2>1. CASE i = 1
    <3>1. \A q \in ps : ~Before(q, p)
      BY <1>1, <1>2, <2>1
    <3> QED
      BY <1>2, <2>1, <3>1, PreviousFollows DEF ps
  <2>2. CASE i # 1
    <3>1. i - 1 \in 1..n /\ list[i - 1] \in ps /\ Before(list[i - 1], p)
      BY <1>1, <1>2, <2>2
    <3>2. \A r \in ps : ~(Before(list[i - 1], r) /\ Before(r, p))
      BY <1>1, <1>2, <3>1
    <3> QED
      BY <1>2, <2>2, <3>1, <3>2, PreviousFollows DEF ps
  <2> QED
    BY <2>1, <2>2
<1> QED
  BY <1>1, <1>3, <1>4 DEF Follows, list

(* Whatever has been written: where numbering has no gaps, the buttons     *)
(* "next" and "previous" walk the list of episodes end to end.             *)
THEOREM Navigation == Spec => []NavigationFollowsList
<1>1. TypeOK => NavigationFollowsList
  BY StoredTyped, ListFollowed DEF NavigationFollowsList
<1> QED
  BY <1>1, TypeCorrect, PTL
---------------------------------------------------------------------------
(* CatalogListing.  Each anime has its own created_at.                     *)
Stamped ==
    /\ \A a \in Animes : created[a] <= clock
    /\ \A a, b \in Built : created[a] = created[b] => a = b
    /\ committed \subseteq Built

Walking == step \in {"asks", "counted"}

(* What was there and is not shown yet is on this page or a later one.     *)
Awaited ==
    Walking => \A a \in before :
        /\ a \in Matching(filter)
        /\ shown[a] = 0 => Cardinality(Ahead(a, filter)) >= Offset(page)

(* What is shown lies before this page, but for what others have added.    *)
Passed ==
    Walking => \A a \in Animes : shown[a] > 0 =>
        /\ a \in Matching(filter)
        /\ shown[a] + Cardinality(Ahead(a, filter)) <= added + Offset(page)

ListingInv ==
    ListingTypeOK /\ Stamped /\ Awaited /\ Passed /\ WalkMissesNothing /\ RepeatsAreShifts

LEMMA Offsets ==
    ASSUME NEW p \in Nat \ {0}
    PROVE  /\ PageSize \in Nat /\ PageSize > 0
           /\ Offset(1) = 0
           /\ Offset(p) \in Nat
           /\ Offset(p + 1) = Offset(p) + PageSize
<1>1. PageSize \in Nat /\ PageSize > 0
  BY ListingAssumption
<1>2. \A x, y \in Nat : x * y \in Nat /\ (x + 1) * y = x * y + y /\ 0 * y = 0
  OBVIOUS
<1>3. p - 1 \in Nat /\ (p + 1) - 1 = (p - 1) + 1
  OBVIOUS
<1> QED
  BY <1>1, <1>2, <1>3 DEF Offset

LEMMA AheadCounts ==
    ASSUME ListingTypeOK, NEW a \in Animes, NEW f
    PROVE  /\ IsFiniteSet(Matching(f)) /\ IsFiniteSet(Ahead(a, f))
           /\ Cardinality(Ahead(a, f)) \in Nat
<1>1. Matching(f) \in SUBSET Animes /\ Ahead(a, f) \in SUBSET Animes
  BY DEF Matching, Ahead, ListingTypeOK
<1> QED
  BY <1>1, ListingAssumption, FS_Subset, FS_CardinalityType

(* A page that is not full is the last.                                    *)
LEMMA LastPage ==
    ASSUME ListingTypeOK, Stamped, NEW f, NEW p \in Nat \ {0},
           Cardinality(Rows(f, p)) < PageSize,
           NEW a \in Matching(f)
    PROVE  Cardinality(Ahead(a, f)) < Offset(p) + PageSize
<1> DEFINE S == Matching(f)
           R == {q \in S \X S : created[q[1]] > created[q[2]]}
<1>1. \A x \in S : x \in Animes /\ x \in Built /\ created[x] \in Nat
  BY DEF Matching, Stamped, ListingTypeOK
<1>2. StrictOrder(S, R)
  <2>1. \A x, y \in S : <<x, y>> \in R <=> created[x] > created[y]
    OBVIOUS
  <2> HIDE DEF R
  <2>2. \A x, y \in S : x # y => created[x] # created[y]
    BY <1>1 DEF Stamped
  <2> HIDE DEF S
  <2>3. \A x \in S : <<x, x>> \notin R
    BY <1>1, <2>1
  <2>4. \A x, y \in S : x # y => <<x, y>> \in R \/ <<y, x>> \in R
    BY <1>1, <2>1, <2>2
  <2>5. \A x, y, z \in S : <<x, y>> \in R /\ <<y, z>> \in R => <<x, z>> \in R
    BY <1>1, <2>1
  <2> QED
    BY <2>3, <2>4, <2>5 DEF StrictOrder
<1>3. \A x \in S : Below(S, R, x) = Ahead(x, f)
  BY DEF Below, Ahead
<1>4. IsFiniteSet(S)
  BY <1>1, AheadCounts
<1>5. Offset(p) \in Nat /\ PageSize \in Nat
  BY Offsets
<1>6. \A x \in S : Cardinality(Ahead(x, f)) \in Nat
  BY <1>1, AheadCounts
<1>7. Rows(f, p) = Stretch(S, R, Offset(p), PageSize)
  <2>1. \A x : x \in Rows(f, p) <=>
            x \in S /\ Cardinality(Ahead(x, f)) \in Offset(p)..(Offset(p) + PageSize - 1)
    BY DEF Rows
  <2>2. \A x : x \in Stretch(S, R, Offset(p), PageSize) <=>
            /\ x \in S
            /\ Offset(p) <= Cardinality(Ahead(x, f))
            /\ Cardinality(Ahead(x, f)) < Offset(p) + PageSize
    BY <1>3 DEF Stretch
  <2> HIDE DEF S, R
  <2>3. \A n \in Nat : n \in Offset(p)..(Offset(p) + PageSize - 1)
                          <=> Offset(p) <= n /\ n < Offset(p) + PageSize
    BY <1>5
  <2>4. \A x : x \in Rows(f, p) <=> x \in Stretch(S, R, Offset(p), PageSize)
    BY <1>6, <2>1, <2>2, <2>3
  <2> QED
    BY <2>4
<1> HIDE DEF S, R
<1>8. a \in S
  BY DEF S
<1>9. Cardinality(Below(S, R, a)) >= Offset(p) + PageSize =>
          Cardinality(Stretch(S, R, Offset(p), PageSize)) = PageSize
  BY <1>2, <1>4, <1>5, <1>8, FullStretch
<1> QED
  BY <1>3, <1>5, <1>6, <1>7, <1>8, <1>9

LEMMA ListingInitInv == ListingInit => ListingInv
<1> SUFFICES ASSUME ListingInit PROVE ListingInv
  OBVIOUS
<1>1. ListingTypeOK
  BY DEF ListingInit, ListingTypeOK
<1>2. Stamped
  BY DEF ListingInit, Stamped, Built
<1>3. RepeatsAreShifts
  BY DEF ListingInit, RepeatsAreShifts
<1>4. Awaited /\ Passed /\ WalkMissesNothing
  BY DEF ListingInit, Awaited, Passed, WalkMissesNothing, Walking
<1> QED
  BY <1>1, <1>2, <1>3, <1>4 DEF ListingInv

(* An anime that is built is not in any list yet.                          *)
LEMMA BuildKeeps ==
    ASSUME ListingInv, NEW x \in Animes, BuildAnime(x)
    PROVE  ListingInv'
<1>1. ListingTypeOK'
  BY DEF ListingInv, ListingTypeOK, BuildAnime, walk
<1>2. Stamped'
  <2>1. /\ clock \in Nat /\ created \in [Animes -> Nat] /\ created[x] = 0
        /\ clock' = clock + 1 /\ committed' = committed
        /\ created' = [created EXCEPT ![x] = clock + 1]
    BY DEF BuildAnime, Built, ListingInv, ListingTypeOK
  <2>2. \A a \in Animes : created[a] <= clock /\ created[a] \in Nat
    BY <2>1 DEF ListingInv, Stamped
  <2>3. \A a \in Animes : created'[a] = IF a = x THEN clock + 1 ELSE created[a]
    BY <2>1
  <2>4. \A a \in Animes : created'[a] <= clock'
    BY <2>1, <2>2, <2>3
  <2>5. \A a, b \in Animes : created[a] # 0 /\ created[a] = created[b] => a = b
    BY DEF ListingInv, Stamped, Built
  <2>6. \A a, b \in Animes : created'[a] # 0 /\ created'[a] = created'[b] => a = b
    BY <2>1, <2>2, <2>3, <2>5
  <2>7. \A a \in Animes : created[a] # 0 => created'[a] # 0
    BY <2>1, <2>3
  <2>8. committed' \subseteq Built'
    BY <2>1, <2>7 DEF ListingInv, Stamped, Built
  <2> QED
    BY <2>4, <2>6, <2>8 DEF Stamped, Built
<1>3. /\ step' = step /\ filter' = filter /\ page' = page /\ added' = added
      /\ shown' = shown /\ before' = before /\ committed' = committed
  BY DEF BuildAnime, walk
<1>4. Matching(filter)' = Matching(filter)
  BY <1>3 DEF Matching, Matches
<1>5. \A a \in committed : created'[a] = created[a]
  BY DEF BuildAnime, ListingInv, ListingTypeOK, Stamped, Built
<1>6. ASSUME NEW a \in Matching(filter) PROVE Ahead(a, filter)' = Ahead(a, filter)
  <2>1. a \in committed /\ Matching(filter) \subseteq committed
    BY <1>6 DEF Matching
  <2> QED
    BY <1>3, <1>4, <1>5, <2>1 DEF Ahead
<1>7. Awaited'
  <2> SUFFICES ASSUME Walking, NEW a \in before
               PROVE  /\ a \in Matching(filter)'
                      /\ shown[a] = 0 => Cardinality(Ahead(a, filter)') >= Offset(page)
    BY <1>3 DEF Awaited, Walking, Offset
  <2> QED
    BY <1>4, <1>6 DEF ListingInv, Awaited
<1>8. Passed'
  <2> SUFFICES ASSUME Walking, NEW a \in Animes, shown[a] > 0
               PROVE  /\ a \in Matching(filter)'
                      /\ shown[a] + Cardinality(Ahead(a, filter)') <= added + Offset(page)
    BY <1>3 DEF Passed, Walking, Offset
  <2> QED
    BY <1>4, <1>6 DEF ListingInv, Passed
<1>9. WalkMissesNothing' /\ RepeatsAreShifts'
  BY <1>3 DEF ListingInv, WalkMissesNothing, RepeatsAreShifts
<1> QED
  BY <1>1, <1>2, <1>7, <1>8, <1>9 DEF ListingInv

(* A commit puts at most one row before each.                              *)
LEMMA CommitKeeps ==
    ASSUME ListingInv, NEW x \in Animes, CommitAnime(x)
    PROVE  ListingInv'
<1>1. ListingTypeOK'
  BY DEF ListingInv, ListingTypeOK, CommitAnime, Built
<1>2. Stamped'
  BY DEF ListingInv, Stamped, CommitAnime, Built
<1>3. /\ step' = step /\ filter' = filter /\ page' = page
      /\ shown' = shown /\ before' = before /\ created' = created
      /\ committed' = committed \cup {x} /\ x \notin committed
      /\ Walking => added' = added + 1
      /\ ~Walking => added' = added
      /\ added \in Nat
  BY DEF CommitAnime, Walking, ListingInv, ListingTypeOK
<1>4. \A a \in Matching(filter) : a \in Matching(filter)'
  BY <1>3 DEF Matching, Matches
<1>5. ASSUME NEW a \in Animes
      PROVE  /\ Cardinality(Ahead(a, filter)) \in Nat
             /\ Cardinality(Ahead(a, filter)') \in Nat
             /\ Cardinality(Ahead(a, filter)) <= Cardinality(Ahead(a, filter)')
             /\ Cardinality(Ahead(a, filter)') <= Cardinality(Ahead(a, filter)) + 1
  <2>1. Ahead(a, filter) \in SUBSET Animes /\ Ahead(a, filter)' \in SUBSET Animes
    BY <1>1 DEF ListingInv, ListingTypeOK, Ahead, Matching
  <2>2. \A b : b # x => (b \in Ahead(a, filter) <=> b \in Ahead(a, filter)')
    BY <1>3 DEF Ahead, Matching, Matches
  <2>3. x \notin Ahead(a, filter)
    BY <1>3 DEF Ahead, Matching
  <2> DEFINE A == Ahead(a, filter)
             B == Ahead(a, filter)'
  <2> HIDE DEF A, B
  <2>4. A \in SUBSET Animes /\ B \in SUBSET Animes /\ x \notin A
        /\ \A y \in Animes : y # x => (y \in A <=> y \in B)
    BY <2>1, <2>2, <2>3 DEF A, B
  <2>5. /\ Cardinality(A) \in Nat /\ Cardinality(B) \in Nat
        /\ (x \in A <=> x \in B) => Cardinality(B) = Cardinality(A)
        /\ x \notin A /\ x \in B => Cardinality(B) = Cardinality(A) + 1
    BY <2>4, ListingAssumption, OneMoves
  <2>6. Cardinality(B) = Cardinality(A) \/ Cardinality(B) = Cardinality(A) + 1
    BY <2>4, <2>5
  <2>7. Cardinality(A) <= Cardinality(B) /\ Cardinality(B) <= Cardinality(A) + 1
    BY <2>5, <2>6
  <2> QED
    BY <2>5, <2>7 DEF A, B
<1>6. Offset(page) \in Nat
  BY Offsets DEF ListingInv, ListingTypeOK
<1>7. Awaited'
  <2> SUFFICES ASSUME Walking, NEW a \in before
               PROVE  /\ a \in Matching(filter)'
                      /\ shown[a] = 0 => Cardinality(Ahead(a, filter)') >= Offset(page)
    BY <1>3 DEF Awaited, Walking, Offset
  <2>1. a \in Animes /\ a \in Matching(filter)
        /\ (shown[a] = 0 => Cardinality(Ahead(a, filter)) >= Offset(page))
    BY DEF ListingInv, ListingTypeOK, Awaited
  <2> QED
    BY <1>4, <1>5, <1>6, <2>1
<1>8. Passed'
  <2> SUFFICES ASSUME Walking, NEW a \in Animes, shown[a] > 0
               PROVE  /\ a \in Matching(filter)'
                      /\ shown[a] + Cardinality(Ahead(a, filter)') <= added + 1 + Offset(page)
    BY <1>3 DEF Passed, Walking, Offset
  <2>1. /\ a \in Matching(filter)
        /\ shown[a] + Cardinality(Ahead(a, filter)) <= added + Offset(page)
        /\ shown[a] \in Nat
    BY DEF ListingInv, ListingTypeOK, Passed
  <2>2. a \in Matching(filter)'
    BY <1>4, <2>1
  <2> QED
    BY <1>3, <1>5, <1>6, <2>1, <2>2
<1>9. WalkMissesNothing'
  BY <1>3 DEF ListingInv, WalkMissesNothing
<1>10. RepeatsAreShifts'
  <2> SUFFICES ASSUME NEW a \in Animes PROVE shown[a] <= 1 + added'
    BY <1>3 DEF RepeatsAreShifts
  <2>1. shown[a] \in Nat /\ shown[a] <= 1 + added
    BY DEF ListingInv, ListingTypeOK, RepeatsAreShifts
  <2> QED
    BY <1>3, <2>1
<1> QED
  BY <1>1, <1>2, <1>7, <1>8, <1>9, <1>10 DEF ListingInv

LEMMA BeginKeeps ==
    ASSUME ListingInv, NEW f, BeginWalk(f)
    PROVE  ListingInv'
<1>1. ListingTypeOK'
  <2>1. Matching(f) \subseteq Animes
    BY DEF ListingInv, ListingTypeOK, Matching
  <2> QED
    BY <2>1 DEF ListingInv, ListingTypeOK, BeginWalk
<1>2. Stamped'
  BY DEF ListingInv, Stamped, BeginWalk, Built
<1>3. /\ filter' = f /\ page' = 1 /\ before' = Matching(f) /\ step' = "asks"
      /\ committed' = committed /\ created' = created /\ added' = 0
      /\ \A a \in Animes : shown'[a] = 0
  BY DEF BeginWalk
<1>4. Awaited'
  <2> SUFFICES ASSUME NEW a \in Matching(f)
               PROVE  /\ a \in Matching(filter)'
                      /\ Cardinality(Ahead(a, filter)') >= Offset(page')
    BY <1>3 DEF Awaited, Offset
  <2>1. Matching(filter)' = Matching(f)
    BY <1>3 DEF Matching, Matches
  <2>2. a \in Animes
    BY DEF Matching, ListingInv, ListingTypeOK
  <2>3. Ahead(a, filter)' = Ahead(a, f)
    BY <1>3, <2>1 DEF Ahead
  <2>4. Cardinality(Ahead(a, f)) \in Nat
    BY <2>2, AheadCounts DEF ListingInv
  <2>5. Offset(page') = 0
    BY <1>3, Offsets
  <2> QED
    BY <2>1, <2>3, <2>4, <2>5
<1>5. Passed'
  BY <1>3 DEF Passed
<1>6. WalkMissesNothing' /\ RepeatsAreShifts'
  BY <1>3 DEF WalkMissesNothing, RepeatsAreShifts
<1> QED
  BY <1>1, <1>2, <1>4, <1>5, <1>6 DEF ListingInv

LEMMA CountKeeps ==
    ASSUME ListingInv, CountRows
    PROVE  ListingInv'
<1>1. ListingTypeOK'
  <2>1. Matching(filter) \in SUBSET Animes
    BY DEF ListingInv, ListingTypeOK, Matching
  <2>2. Cardinality(Matching(filter)) \in Nat
    BY <2>1, ListingAssumption, FS_Subset, FS_CardinalityType
  <2> QED
    BY <2>2 DEF ListingInv, ListingTypeOK, CountRows
<1>2. Stamped'
  BY DEF ListingInv, Stamped, CountRows, Built
<1>3. Walking /\ step' # "done"
  BY DEF CountRows, Walking
<1>4. Awaited' /\ Passed'
  BY <1>3 DEF ListingInv, CountRows, Awaited, Passed, Ahead, Matching, Matches, Offset
<1>5. WalkMissesNothing' /\ RepeatsAreShifts'
  BY <1>3 DEF ListingInv, CountRows, WalkMissesNothing, RepeatsAreShifts
<1> QED
  BY <1>1, <1>2, <1>4, <1>5 DEF ListingInv

(* The page shows what lies between its offset and that of the next.       *)
LEMMA PageKeeps ==
    ASSUME ListingInv, ListPage
    PROVE  ListingInv'
<1> DEFINE rows == Rows(filter, page)
<1>1. ListingTypeOK'
  BY DEF ListingInv, ListingTypeOK, ListPage
<1>2. Stamped'
  BY DEF ListingInv, Stamped, ListPage, Built
<1>3. /\ filter' = filter /\ before' = before /\ added' = added
      /\ committed' = committed /\ created' = created
      /\ shown' = [a \in Animes |-> IF a \in rows THEN shown[a] + 1 ELSE shown[a]]
      /\ Walking
      /\ \/ Cardinality(rows) < PageSize /\ step' = "done"
         \/ step' = "asks" /\ page' = page + 1
  BY DEF ListPage, Walking
<1>4. /\ page \in Nat \ {0} /\ added \in Nat /\ before \subseteq Animes
      /\ \A a \in Animes : shown[a] \in Nat
  BY DEF ListingInv, ListingTypeOK
<1>5. /\ PageSize \in Nat /\ PageSize > 0 /\ Offset(page) \in Nat
      /\ Offset(page + 1) = Offset(page) + PageSize
  BY <1>4, Offsets
<1>6. \A a \in Animes : Cardinality(Ahead(a, filter)) \in Nat
  BY AheadCounts DEF ListingInv
<1>7. Matching(filter)' = Matching(filter)
  BY <1>3 DEF Matching, Matches
<1>8. \A a \in Animes : Ahead(a, filter)' = Ahead(a, filter)
  BY <1>3, <1>7 DEF Ahead
<1>9. \A a \in Animes : a \in rows =>
          /\ a \in Matching(filter)
          /\ Offset(page) <= Cardinality(Ahead(a, filter))
          /\ Cardinality(Ahead(a, filter)) + 1 <= Offset(page) + PageSize
  BY <1>5, <1>6 DEF Rows
<1>10. \A a \in Animes : a \in Matching(filter) /\ a \notin rows =>
           \/ Cardinality(Ahead(a, filter)) < Offset(page)
           \/ Cardinality(Ahead(a, filter)) >= Offset(page) + PageSize
  BY <1>5, <1>6 DEF Rows
<1>11. \A a \in before :
           /\ a \in Matching(filter)
           /\ shown[a] = 0 => Cardinality(Ahead(a, filter)) >= Offset(page)
  BY <1>3 DEF ListingInv, Awaited
<1>12. \A a \in Animes : shown[a] > 0 =>
           /\ a \in Matching(filter)
           /\ shown[a] + Cardinality(Ahead(a, filter)) <= added + Offset(page)
  BY <1>3 DEF ListingInv, Passed
<1>13. \A a \in Animes : shown[a] <= 1 + added
  BY DEF ListingInv, RepeatsAreShifts
<1>14. Cardinality(rows) < PageSize => \A a \in Matching(filter) :
           Cardinality(Ahead(a, filter)) < Offset(page) + PageSize
  BY <1>4, LastPage DEF ListingInv
<1> HIDE DEF rows
<1>15. \A a \in Animes : shown'[a] = IF a \in rows THEN shown[a] + 1 ELSE shown[a]
  BY <1>3
<1>16. ASSUME NEW a \in before, shown'[a] = 0
       PROVE  Cardinality(Ahead(a, filter)) >= Offset(page) + PageSize
  <2>1. a \in Animes /\ a \notin rows /\ shown[a] = 0
    BY <1>4, <1>15, <1>16
  <2> QED
    BY <1>5, <1>6, <1>10, <1>11, <2>1
<1>17. Awaited'
  <2> SUFFICES ASSUME Walking', NEW a \in before
               PROVE  /\ a \in Matching(filter)'
                      /\ shown'[a] = 0 => Cardinality(Ahead(a, filter)') >= Offset(page')
    BY <1>3 DEF Awaited, Offset
  <2>1. a \in Animes /\ page' = page + 1
    BY <1>3, <1>4 DEF Walking
  <2> QED
    BY <1>5, <1>7, <1>8, <1>11, <1>16, <2>1
<1>18. Passed'
  <2> SUFFICES ASSUME Walking', NEW a \in Animes, shown'[a] > 0
               PROVE  /\ a \in Matching(filter)'
                      /\ shown'[a] + Cardinality(Ahead(a, filter)') <= added + Offset(page')
    BY <1>3 DEF Passed, Offset
  <2>1. page' = page + 1
    BY <1>3 DEF Walking
  <2>2. a \in Matching(filter)
    BY <1>9, <1>12, <1>15
  <2>3. shown'[a] + Cardinality(Ahead(a, filter)) <= added + (Offset(page) + PageSize)
    <3> DEFINE k == Cardinality(Ahead(a, filter))
               o == Offset(page)
    <3>1. k \in Nat /\ o \in Nat /\ shown[a] \in Nat /\ added \in Nat
      BY <1>4, <1>5, <1>6
    <3>2. a \in rows => shown'[a] = shown[a] + 1 /\ k + 1 <= o + PageSize
      BY <1>9, <1>15
    <3>3. a \notin rows => shown'[a] = shown[a]
      BY <1>15
    <3>4. shown[a] > 0 => shown[a] + k <= added + o
      BY <1>12
    <3> HIDE DEF k, o
    <3> QED
      BY <1>5, <3>1, <3>2, <3>3, <3>4 DEF k, o
  <2> QED
    BY <1>5, <1>7, <1>8, <2>1, <2>2, <2>3
<1>19. WalkMissesNothing'
  <2> SUFFICES ASSUME step' = "done", NEW a \in before PROVE shown'[a] > 0
    BY <1>3 DEF WalkMissesNothing
  <2>1. a \in Animes /\ shown'[a] \in Nat
    BY <1>1, <1>4 DEF ListingTypeOK
  <2>2. Cardinality(Ahead(a, filter)) < Offset(page) + PageSize
    BY <1>3, <1>11, <1>14
  <2>3. shown'[a] # 0
    BY <1>5, <1>6, <1>16, <2>1, <2>2
  <2> QED
    BY <2>1, <2>3
<1>20. RepeatsAreShifts'
  <2> SUFFICES ASSUME NEW a \in Animes PROVE shown'[a] <= 1 + added
    BY <1>3 DEF RepeatsAreShifts
  <2>1. CASE a \in rows /\ shown[a] > 0
    <3> DEFINE k == Cardinality(Ahead(a, filter))
               o == Offset(page)
    <3>1. k \in Nat /\ o \in Nat /\ shown[a] \in Nat /\ o <= k /\ shown[a] + k <= added + o
      BY <1>4, <1>5, <1>6, <1>9, <1>12, <2>1
    <3> HIDE DEF k, o
    <3> QED
      BY <1>4, <1>15, <2>1, <3>1
  <2>2. CASE ~(a \in rows /\ shown[a] > 0)
    BY <1>4, <1>13, <1>15, <2>2
  <2> QED
    BY <2>1, <2>2
<1> QED
  BY <1>1, <1>2, <1>17, <1>18, <1>19, <1>20 DEF ListingInv

(* While others add to the catalog, what a walk has passed and what it has *)
(* still to come to stays told apart by the offset.                        *)
THEOREM ListingInvariance == ListingSpec => []ListingInv
<1>1. ListingInv /\ UNCHANGED listingVars => ListingInv'
  BY DEF ListingInv, ListingTypeOK, Stamped, Built, Awaited, Passed, Walking, Matching, Matches,
         Ahead, Offset, WalkMissesNothing, RepeatsAreShifts, listingVars, walk
<1>2. ListingInv /\ ListingNext => ListingInv'
  BY BuildKeeps, CommitKeeps, BeginKeeps, CountKeeps, PageKeeps DEF ListingNext
<1> QED
  BY <1>1, <1>2, ListingInitInv, PTL DEF ListingSpec

(* A walk over the pages shows all that was there when it began, however   *)
(* many animes are committed meanwhile, and wherever in the list.          *)
THEOREM Walked == ListingSpec => []WalkMissesNothing
BY ListingInvariance, PTL DEF ListingInv

(* And it shows none more often than others have pushed rows back.         *)
THEOREM Shown == ListingSpec => []RepeatsAreShifts
BY ListingInvariance, PTL DEF ListingInv
=============================================================================
