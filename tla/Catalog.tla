------------------------------ MODULE Catalog ------------------------------
(***************************************************************************)
(* The catalog under its use cases (application/catalog/use_cases, and the *)
(* ingestion), each one step: what they do on InMemoryCatalogUnitOfWork,   *)
(* which never waits and never rolls back, and what Ingestion has to live  *)
(* up to.                                                                  *)
(*                                                                         *)
(* A use case that raises before it has changed anything is no step.  Two  *)
(* raise later: AddRelation, with the source already changed, and the      *)
(* ingestion, with the genres already there.                               *)
(***************************************************************************)
EXTENDS CatalogAggregate

CONSTANTS NoAnime,
          FirstStatuses,   \* inputs: the status of a new anime,
          RelationTypes,   \* the relations callers ask for,
          Listings,        \* the episodes a provider lists, if sound
          MaxWrites        \* bound of the use cases in a behaviour

ASSUME CallersAssumption ==
    /\ FirstStatuses \subseteq AnimeStatus
    /\ RelationTypes \subseteq RelationType
    /\ MaxWrites \in Nat
    /\ Listings \subseteq [Positions -> Episode \cup {NoEpisode}]
    /\ \A listing \in Listings, p \in Positions :
          listing[p] # NoEpisode => p[1] = 1 /\ WellFormedEpisode(listing[p])
    /\ 1 \in SeasonNumbers
ASSUME NoAnimeAssumption == NoAnime \notin Anime

VARIABLES animes,    \* AnimeRepository
          labels,    \* slugs of the genre, studio, producer, tag repositories
          writes     \* use cases so far

vars == <<animes, labels, writes>>

LabelKinds == {"genre", "studio", "producer", "tag"}

Init ==
    /\ animes = [a \in AnimeIds |-> NoAnime]
    /\ labels = [k \in LabelKinds |-> {}]
    /\ writes = 0

---------------------------------------------------------------------------
Stored == {a \in AnimeIds : animes[a] # NoAnime}

ExistsBySlug(slug) == \E a \in Stored : animes[a].slug = slug

Writes == writes < MaxWrites /\ writes' = writes + 1

Put(a, anime) ==
    /\ Writes
    /\ animes' = [animes EXCEPT ![a] = anime]
    /\ UNCHANGED labels

(* a is a fresh id.  The genres are not looked up.                         *)
CreateAnime(a, slug, status, genres) ==
    /\ a \notin Stored
    /\ ~ExistsBySlug(slug)
    /\ Put(a, NewAnime(slug, status, genres))

ExistsLabel(kind, slug) == slug \in labels[kind]

CreateLabel(kind, slug) ==
    /\ ~ExistsLabel(kind, slug)
    /\ Writes
    /\ labels' = [labels EXCEPT ![kind] = @ \cup {slug}]
    /\ UNCHANGED animes

CreateGenre(slug) == CreateLabel("genre", slug)
CreateStudio(slug) == CreateLabel("studio", slug)
CreateProducer(slug) == CreateLabel("producer", slug)
CreateTag(slug) == CreateLabel("tag", slug)

ChangeAnimeStatus(a, status) ==
    /\ a \in Stored
    /\ MayBecome(animes[a], status)
    /\ Put(a, ChangeStatus(animes[a], status))

AddAnimeExternalId(a, x) ==
    /\ a \in Stored
    /\ NewToSource(animes[a].external_ids, x)
    /\ Put(a, AddExternalId(animes[a], x))

AddAnimeSeason(a, n) ==
    /\ a \in Stored
    /\ n \notin animes[a].seasons
    /\ Put(a, AddSeason(animes[a], n))

(* Wrong variant: an episode number may come twice.                        *)
AddEpisodeAgain(a, p) ==
    /\ a \in Stored
    /\ p[1] \in animes[a].seasons
    /\ Put(a, WithEpisode(animes[a], p, NewEpisode))

AddEpisode(a, p) ==
    /\ a \in Stored
    /\ p[1] \in animes[a].seasons
    /\ ~HasEpisode(animes[a], p)
    /\ Put(a, WithEpisode(animes[a], p, NewEpisode))

AddEpisodeExternalId(a, p, x) ==
    /\ a \in Stored
    /\ HasEpisode(animes[a], p)
    /\ NewToSource(animes[a].episodes[p].external_ids, x)
    /\ Put(a, WithEpisode(animes[a], p, AddExternalId(animes[a].episodes[p], x)))

AddEpisodeSource(a, p, s) ==
    /\ a \in Stored
    /\ HasEpisode(animes[a], p)
    /\ NewSource(animes[a].episodes[p], s)
    /\ Put(a, WithEpisode(animes[a], p, AddStreamingSource(animes[a].episodes[p], s)))

(* Wrong variant: one relation back to the source is taken to be enough.   *)
RelateOnce(a, b, type) ==
    LET back == RELATION_INVERSE[type]
        linked == \E r \in animes[b].relations : r[1] = a
    IN  animes' = [animes EXCEPT
                       ![a] = AddRelation(@, b, type),
                       ![b] = IF linked THEN @ ELSE AddRelation(@, a, back)]

(* RelationLinkingService.link changes the source and then the target.  If *)
(* the target has the inverse already it raises, and the source, a live    *)
(* object, keeps the relation.                                             *)
Relate(a, b, type) ==
    LET back == RELATION_INVERSE[type]
    IN  animes' = [animes EXCEPT
                       ![a] = AddRelation(@, b, type),
                       ![b] = IF NewRelation(@, a, back)
                              THEN AddRelation(@, a, back) ELSE @]

RelateAnimes(a, b, type) ==
    /\ {a, b} \subseteq Stored
    /\ a # b
    /\ NewRelation(animes[a], b, type)
    /\ Writes
    /\ Relate(a, b, type)
    /\ UNCHANGED labels

(* The anime an ingestion builds: all its episodes in season one.          *)
Ingested(slug, status, genres, listing) ==
    [NewAnime(slug, status, genres) EXCEPT !.seasons = {1}, !.episodes = listing]

(* IngestAnimeFromProvider: the genres are added one by one, then the      *)
(* episodes are built.                                                     *)
IngestAnime(a, slug, status, genres, listing) ==
    /\ a \notin Stored
    /\ ~ExistsBySlug(slug)
    /\ Writes
    /\ labels' = [labels EXCEPT !["genre"] = @ \cup genres]
    /\ animes' = [animes EXCEPT ![a] = Ingested(slug, status, genres, listing)]

(* A listing with a number that is zero or comes twice, or a source that   *)
(* comes twice, raises after the genres were added.                        *)
IngestBroken(slug, genres) ==
    /\ ~ExistsBySlug(slug)
    /\ Writes
    /\ labels' = [labels EXCEPT !["genre"] = @ \cup genres]
    /\ UNCHANGED animes

Label(slug) ==
    \/ CreateGenre(slug)
    \/ CreateStudio(slug)
    \/ CreateProducer(slug)
    \/ CreateTag(slug)

Edit(a) ==
    \/ \E status \in AnimeStatus : ChangeAnimeStatus(a, status)
    \/ \E x \in ExternalIds : AddAnimeExternalId(a, x)
    \/ \E n \in SeasonNumbers : AddAnimeSeason(a, n)
    \/ \E p \in Positions :
          \/ AddEpisode(a, p)
          \/ \E x \in ExternalIds : AddEpisodeExternalId(a, p, x)
          \/ \E s \in StreamingSources : AddEpisodeSource(a, p, s)
    \/ \E b \in AnimeIds, type \in RelationTypes : RelateAnimes(a, b, type)

Create(slug, genres) ==
    \/ IngestBroken(slug, genres)
    \/ \E a \in AnimeIds, status \in FirstStatuses :
          \/ CreateAnime(a, slug, status, genres)
          \/ \E listing \in Listings : IngestAnime(a, slug, status, genres, listing)

Next ==
    \/ \E slug \in LabelSlugs : Label(slug)
    \/ \E slug \in Slugs, genres \in SUBSET LabelSlugs : Create(slug, genres)
    \/ \E a \in AnimeIds : Edit(a)

Spec == Init /\ [][Next]_vars

---------------------------------------------------------------------------
TypeOK ==
    /\ animes \in [AnimeIds -> Anime \cup {NoAnime}]
    /\ labels \in [LabelKinds -> SUBSET LabelSlugs]
    /\ writes \in 0..MaxWrites
    /\ \A a \in Stored : WellFormed(animes[a])

(* RelationLinkingService keeps the graph of relations consistent in both  *)
(* directions: whoever relates, in whatever order, and also when a use     *)
(* case fails halfway, each relation has its inverse on the other side or  *)
(* is the inverse of one there.  (Three types share PARENT_STORY.)         *)
Mirrored(a, b, type) ==
    /\ b \in Stored
    /\ \E back \in RelationType :
          /\ <<a, back>> \in animes[b].relations
          /\ back = RELATION_INVERSE[type] \/ type = RELATION_INVERSE[back]

RelationsMirrored ==
    \A a \in Stored : \A r \in animes[a].relations : Mirrored(a, r[1], r[2])

(* Nothing in the catalog is ever lost: no use case takes anything away or *)
(* replaces it, and a completed or cancelled anime stays so.               *)
KeepsEpisode(old, new) ==
    /\ old.external_ids \subseteq new.external_ids
    /\ Len(old.sources) <= Len(new.sources)
    /\ \A i \in DOMAIN old.sources : new.sources[i] = old.sources[i]

Keeps(old, new) ==
    /\ new # NoAnime
    /\ new.slug = old.slug
    /\ old.status \in {"completed", "cancelled"} => new.status = old.status
    /\ old.external_ids \subseteq new.external_ids
    /\ old.relations \subseteq new.relations
    /\ old.seasons \subseteq new.seasons
    /\ \A p \in Listed(old) :
          HasEpisode(new, p) /\ KeepsEpisode(old.episodes[p], new.episodes[p])

NothingLost == [][\A a \in Stored : Keeps(animes[a], animes'[a])]_vars

(* Where numbering has no gaps, the buttons "next" and "previous" walk the *)
(* list GetAnimeEpisodes shows, forwards and backwards, end to end.        *)
Gapless(anime) ==
    \A p, q \in Listed(anime) :
        /\ \A e \in 1..p[2] : HasEpisode(anime, <<p[1], e>>)
        /\ \A n \in p[1]..q[1] : EpisodesOf(anime, n) # {}

Follows(anime, list, i) ==
    LET at == list[i]
    IN  /\ NextEpisode(anime, at[1], at[2])
              = IF i = Len(list) THEN NoPosition ELSE list[i + 1]
        /\ PreviousEpisode(anime, at[1], at[2])
              = IF i = 1 THEN NoPosition ELSE list[i - 1]

NavigationFollowsList ==
    \A a \in Stored :
        LET list == EpisodeList(animes[a])
        IN  Gapless(animes[a]) => \A i \in DOMAIN list : Follows(animes[a], list, i)

(* What the module comment of get_next_episode.py says: there is no next   *)
(* episode only at the end of the series.                                  *)
StopsAtEnd ==
    \A a \in Stored : \A p, q \in Listed(animes[a]) :
        NextEpisode(animes[a], p[1], p[2]) = NoPosition => ~Before(p, q)
=============================================================================
