-------------------------- MODULE IngestionProofs --------------------------
(***************************************************************************)
(* Ingestion: type correctness, that requests for one slug are served one  *)
(* anime, and that a request leaves all of its rows or none, for every set *)
(* of requests, slugs and genres and every size of the pool.               *)
(*                                                                         *)
(* Neither rests on the second lookup: what keeps two requests from adding *)
(* one slug, or one genre, is that a key is flushed by one transaction at  *)
(* a time (Exclusive) and only while it is not committed (Uncommitted).    *)
(*                                                                         *)
(* EpisodeFetch: answers are complete and in order, and no call leaves a   *)
(* permit or a place in the queue behind, for any number of calls and      *)
(* listed episodes.                                                        *)
(***************************************************************************)
EXTENDS Ingestion, OrderedProofs, SequenceTheorems

Looking == {"idle", "lookup", "detail", "episodes", "recheck"}

Writing == {"genres", "new_genre", "anime", "commit"}

(* How far a request has got with its genres.                              *)
SeenFits ==
    \A r \in Requests :
        /\ at[r] \in Looking => seen[r] = 0
        /\ at[r] \in Writing => seen[r] <= Len(GenresOf[r])
        /\ at[r] = "new_genre" => seen[r] < Len(GenresOf[r])
        /\ at[r] \in {"anime", "commit"} => seen[r] = Len(GenresOf[r])

(* The genres it has got or created are visible to it.                     *)
SeenVisible ==
    \A r \in Requests :
        at[r] \in Writing => \A i \in 1..seen[r] : GenresOf[r][i] \in VisibleGenres(r)

(* A request flushes its own keys only, and its anime last.                *)
OwnKeys ==
    \A r \in Requests :
        /\ at[r] \notin Writing => flushed[r] = {}
        /\ \A g \in Genres : <<"genre", g>> \in flushed[r] => g \in ToSet(GenresOf[r])
        /\ \A x \in Slugs :
              <<"anime", x>> \in flushed[r] <=> at[r] = "commit" /\ x = SlugOf[r]

(* No key is flushed by two transactions ...                               *)
Exclusive ==
    \A r, t \in Requests : \A key \in flushed[r] \cap flushed[t] : r = t

(* ... and none is committed while it is flushed.                          *)
Uncommitted == \A r \in Requests : \A key \in flushed[r] : ~Committed(key)

UniqueSlugs ==
    \A a, b \in Catalog!Stored : animes[a].slug = animes[b].slug => a = b

(* An anime is stored under the request that was served by adding it.      *)
StoredServed == \A a \in Catalog!Stored : at[a] = "served"

ServedStored == \A r \in Requests : at[r] = "served" => result[r] \in Found(r)

IInv == /\ TypeOK /\ SeenFits /\ SeenVisible /\ OwnKeys /\ Exclusive /\ Uncommitted
        /\ UniqueSlugs /\ StoredServed /\ ServedStored /\ AllOrNothing

---------------------------------------------------------------------------
LEMMA InitIInv == Init => IInv
<1> SUFFICES ASSUME Init PROVE IInv
  OBVIOUS
<1> USE DEF Init
<1>1. Catalog!Stored = {}
  BY DEF Catalog!Stored
<1>2. TypeOK
  BY DEF TypeOK
<1>3. SeenFits /\ SeenVisible /\ OwnKeys
  BY DEF SeenFits, SeenVisible, OwnKeys, Looking, Writing
<1>4. Exclusive /\ Uncommitted /\ UniqueSlugs /\ StoredServed /\ ServedStored
  BY <1>1 DEF Exclusive, Uncommitted, UniqueSlugs, StoredServed, ServedStored
<1>5. AllOrNothing
  BY <1>1 DEF AllOrNothing
<1> QED
  BY <1>2, <1>3, <1>4, <1>5 DEF IInv

(* Without a step of a request nothing of IInv changes.                    *)
LEMMA Unmoved ==
    ASSUME IInv, UNCHANGED <<requestVars, tables>>
    PROVE  IInv'
<1>1. /\ at' = at /\ seen' = seen /\ flushed' = flushed /\ result' = result
      /\ animes' = animes /\ genres' = genres
  BY DEF requestVars, tables
<1>2. TypeOK' /\ SeenFits' /\ OwnKeys' /\ Exclusive'
  BY <1>1 DEF IInv, TypeOK, SeenFits, OwnKeys, Exclusive
<1>3. SeenVisible' /\ Uncommitted'
  BY <1>1 DEF IInv, SeenVisible, VisibleGenres, Uncommitted, Committed, Catalog!Stored
<1>4. UniqueSlugs' /\ StoredServed' /\ AllOrNothing'
  BY <1>1 DEF IInv, UniqueSlugs, StoredServed, AllOrNothing, Catalog!Stored
<1>5. ServedStored'
  BY <1>1 DEF IInv, ServedStored, Found, Catalog!Stored
<1> QED
  BY <1>2, <1>3, <1>4, <1>5 DEF IInv

(* Steps that leave the tables alone and flush nothing: some requests go   *)
(* somewhere, and some forget what they flushed.                           *)
LEMMA MovesKeep ==
    ASSUME IInv, UNCHANGED tables, TypeOK', SeenFits', SeenVisible',
           \A r \in Requests :
               /\ flushed'[r] = flushed[r] \/ flushed'[r] = {}
               /\ at'[r] \notin Writing => flushed'[r] = {}
               /\ at'[r] = "commit" <=> at[r] = "commit" /\ flushed'[r] = flushed[r]
               /\ at[r] = "served" => at'[r] = "served" /\ result'[r] = result[r]
               /\ at'[r] = "served" => at[r] = "served" \/ result'[r] \in Found(r)
    PROVE  IInv'
<1>1. animes' = animes /\ genres' = genres
  BY DEF tables
<1>2. OwnKeys'
  BY DEF IInv, OwnKeys, TypeOK, Writing
<1>3. Exclusive' /\ Uncommitted'
  BY <1>1 DEF IInv, Exclusive, Uncommitted, Committed, Catalog!Stored
<1>4. UniqueSlugs' /\ StoredServed' /\ AllOrNothing'
  BY <1>1 DEF IInv, UniqueSlugs, StoredServed, AllOrNothing, Catalog!Stored
<1>5. ServedStored'
  BY <1>1 DEF IInv, ServedStored, Found, Catalog!Stored
<1> QED
  BY <1>2, <1>3, <1>4, <1>5 DEF IInv

(* A request moves on, or gets a genre that it can see.                    *)
LEMMA GoKeeps ==
    ASSUME IInv, NEW r \in Requests, NEW place, UNCHANGED <<flushed, result, tables>>,
           Go(r, place), at[r] \notin Done \cup {"commit"},
           \/ place \in Looking \ {"idle"} /\ at[r] \in Looking /\ seen' = seen
           \/ /\ place = "genres" /\ at[r] = "recheck" /\ seen' = seen
           \/ /\ place = "genres" /\ at[r] = "genres"
              /\ seen[r] < Len(GenresOf[r])
              /\ Genre(r) \in VisibleGenres(r)
              /\ seen' = [seen EXCEPT ![r] = @ + 1]
           \/ /\ place = "new_genre" /\ at[r] = "genres"
              /\ seen[r] < Len(GenresOf[r]) /\ seen' = seen
           \/ place = "anime" /\ Builds(r) /\ seen' = seen
    PROVE  IInv'
<1>1. /\ flushed' = flushed /\ result' = result /\ animes' = animes /\ genres' = genres
      /\ \A t \in Requests : at'[t] = IF t = r THEN place ELSE at[t]
      /\ at' \in [Requests -> {"idle", "lookup"} \cup InTransaction \cup Done]
  BY DEF tables, Go, IInv, TypeOK, Looking, InTransaction
<1>2. /\ GenresOf[r] \in Seq(Genres) /\ Len(GenresOf[r]) \in Nat
      /\ seen' \in [Requests -> Nat]
      /\ \A t \in Requests : t # r => seen'[t] = seen[t]
      /\ seen'[r] = seen[r] \/ seen'[r] = seen[r] + 1
  <2>1. GenresOf[r] \in Seq(Genres) /\ Len(GenresOf[r]) \in Nat
    BY IngestionAssumption
  <2>2. seen \in [Requests -> Nat]
    BY DEF IInv, TypeOK
  <2>3. seen' = seen \/ seen' = [seen EXCEPT ![r] = @ + 1]
    OBVIOUS
  <2> QED
    BY <2>1, <2>2, <2>3
<1>3. TypeOK'
  BY <1>1, <1>2 DEF IInv, TypeOK
<1>4. SeenFits'
  BY <1>1, <1>2 DEF IInv, TypeOK, SeenFits, Looking, Writing, Builds
<1>5. SeenVisible'
  <2> SUFFICES ASSUME NEW t \in Requests, at'[t] \in Writing, NEW i \in 1..seen'[t]
               PROVE  GenresOf[t][i] \in VisibleGenres(t)'
    BY DEF SeenVisible
  <2>1. VisibleGenres(t)' = VisibleGenres(t)
    BY <1>1 DEF VisibleGenres
  <2>2. CASE t # r \/ (at[t] \in Writing /\ seen' = seen)
    BY <1>1, <1>2, <2>1, <2>2 DEF IInv, SeenVisible
  <2>3. CASE t = r /\ at[t] \notin Writing
    BY <1>1, <1>2, <2>3 DEF IInv, TypeOK, SeenFits, Looking, Writing, Builds
  <2>4. CASE t = r /\ seen'[r] = seen[r] + 1 /\ at[r] = "genres" /\ Genre(r) \in VisibleGenres(r)
    <3>1. i \in 1..seen[r] \/ i = seen[r] + 1
      BY <1>2, <2>4 DEF IInv, TypeOK
    <3> QED
      BY <1>1, <2>1, <2>4, <3>1 DEF IInv, SeenVisible, Genre, Writing
  <2> QED
    BY <1>1, <1>2, <2>2, <2>3, <2>4 DEF Builds, IInv, TypeOK
<1>6. \A t \in Requests :
         /\ at'[t] \notin Writing => flushed'[t] = {}
         /\ at'[t] = "commit" <=> at[t] = "commit"
         /\ at[t] = "served" => at'[t] = "served"
         /\ at'[t] = "served" => at[t] = "served"
  BY <1>1 DEF IInv, OwnKeys, Writing, Looking, Done, Builds
<1> QED
  BY <1>1, <1>3, <1>4, <1>5, <1>6, MovesKeep

(* A request ends without an answer.                                       *)
LEMMA EndKeeps ==
    ASSUME IInv, NEW r \in Requests, at[r] # "served", End(r, "failed"), UNCHANGED tables
    PROVE  IInv'
<1>1. /\ seen' = seen /\ result' = result /\ animes' = animes /\ genres' = genres
      /\ \A t \in Requests : at'[t] = IF t = r THEN "failed" ELSE at[t]
      /\ \A t \in Requests : flushed'[t] = IF t = r THEN {} ELSE flushed[t]
  BY DEF tables, Go, End, IInv, TypeOK
<1>2. TypeOK'
  BY <1>1 DEF IInv, TypeOK, Go, End, Done
<1>3. SeenFits'
  BY <1>1 DEF IInv, SeenFits, Looking, Writing
<1>4. SeenVisible'
  BY <1>1 DEF IInv, SeenVisible, VisibleGenres, Writing
<1>5. \A t \in Requests :
         /\ at'[t] \notin Writing => flushed'[t] = {}
         /\ at'[t] = "commit" <=> at[t] = "commit" /\ flushed'[t] = flushed[t]
  <2>1. at[r] = "commit" => flushed[r] # {}
    BY IngestionAssumption DEF IInv, OwnKeys
  <2> QED
    BY <1>1, <2>1 DEF IInv, OwnKeys
<1> QED
  BY <1>1, <1>2, <1>3, <1>4, <1>5, MovesKeep

(* The process ends.                                                       *)
LEMMA CrashKeeps ==
    ASSUME IInv, Crash
    PROVE  IInv'
<1>1. /\ seen' = seen /\ result' = result /\ animes' = animes /\ genres' = genres
      /\ \A t \in Requests : at'[t] = IF at[t] \in Done \cup {"idle"} THEN at[t] ELSE "failed"
      /\ \A t \in Requests : flushed'[t] = {}
  BY DEF tables, Crash
<1>2. TypeOK'
  BY <1>1 DEF IInv, TypeOK, Crash, Done
<1>3. SeenFits' /\ SeenVisible'
  BY <1>1 DEF IInv, SeenFits, SeenVisible, Looking, Writing, Done
<1>4. \A t \in Requests : at'[t] # "commit" /\ (at[t] = "commit" => flushed'[t] # flushed[t])
  BY <1>1, IngestionAssumption DEF IInv, OwnKeys, Done
<1> QED
  BY <1>1, <1>2, <1>3, <1>4, MovesKeep DEF Done, tables

(* A lookup answers the request or lets it go on.                          *)
LEMMA LookUpKeeps ==
    ASSUME IInv, NEW r \in Requests, NEW next, LookUp(r, next),
           \/ at[r] = "lookup" /\ next = "detail"
           \/ at[r] = "recheck" /\ next = "genres"
    PROVE  IInv'
<1>1. CASE Found(r) = {}
  BY <1>1, GoKeeps DEF LookUp, Looking, Done, tables
<1>2. CASE Found(r) # {}
  <2>1. PICK a \in Found(r) : Serve(r, a)
    BY <1>2 DEF LookUp
  <2>2. /\ seen' = seen /\ animes' = animes /\ genres' = genres
        /\ \A t \in Requests : at'[t] = IF t = r THEN "served" ELSE at[t]
        /\ \A t \in Requests : result'[t] = IF t = r THEN a ELSE result[t]
        /\ \A t \in Requests : flushed'[t] = IF t = r THEN {} ELSE flushed[t]
        /\ a \in Requests
    BY <2>1 DEF tables, Go, Serve, IInv, TypeOK, LookUp, Found, Catalog!Stored
  <2>3. TypeOK'
    BY <2>1, <2>2 DEF IInv, TypeOK, Go, Serve, Done
  <2>4. SeenFits' /\ SeenVisible'
    BY <2>2 DEF IInv, SeenFits, SeenVisible, VisibleGenres, Looking, Writing
  <2>5. \A t \in Requests :
           /\ at'[t] \notin Writing => flushed'[t] = {}
           /\ at'[t] = "commit" <=> at[t] = "commit" /\ flushed'[t] = flushed[t]
    BY <2>2 DEF IInv, OwnKeys
  <2> QED
    BY <2>2, <2>3, <2>4, <2>5, MovesKeep DEF tables
<1> QED
  BY <1>1, <1>2

(* A key that nobody has flushed and nobody has committed keeps apart.     *)
LEMMA FlushedApart ==
    ASSUME IInv, NEW r \in Requests, UNCHANGED <<result, tables>>,
           at[r] # "served", at'[r] # "served",
           \A t \in Requests : t # r => at'[t] = at[t] /\ flushed'[t] = flushed[t],
           flushed'[r] = flushed[r] \cup {Key(r)},
           \A t \in Requests \ {r} : Key(r) \notin flushed[t],
           ~Committed(Key(r)),
           TypeOK', SeenFits', OwnKeys', SeenVisible'
    PROVE  IInv'
<1>1. animes' = animes /\ genres' = genres /\ result' = result
  BY DEF tables
<1>2. Exclusive'
  BY DEF IInv, Exclusive
<1>3. Uncommitted'
  <2> SUFFICES ASSUME NEW t \in Requests, NEW key \in flushed'[t]
               PROVE  ~Committed(key)
    BY <1>1 DEF Uncommitted, Committed, Catalog!Stored
  <2>1. key \in flushed[t] \/ key = Key(r)
    OBVIOUS
  <2> QED
    BY <2>1 DEF IInv, Uncommitted
<1>4. UniqueSlugs' /\ AllOrNothing'
  BY <1>1 DEF IInv, UniqueSlugs, AllOrNothing, Catalog!Stored
<1>5. StoredServed'
  BY <1>1 DEF IInv, StoredServed, Catalog!Stored
<1>6. ServedStored'
  BY <1>1 DEF IInv, ServedStored, Found, Catalog!Stored
<1> QED
  BY <1>2, <1>3, <1>4, <1>5, <1>6 DEF IInv

(* A request flushes a key that is nobody's and not committed.             *)
LEMMA FlushKeeps ==
    ASSUME IInv, NEW r \in Requests, Flush(r, Key(r)), UNCHANGED <<result, tables>>,
           \/ at[r] = "new_genre" /\ Go(r, "genres") /\ seen' = [seen EXCEPT ![r] = @ + 1]
           \/ at[r] = "anime" /\ Go(r, "commit") /\ seen' = seen
    PROVE  IInv'
<1> DEFINE n == seen[r] + 1
<1>1. /\ result' = result /\ animes' = animes /\ genres' = genres
      /\ \A t \in Requests : t # r => at'[t] = at[t] /\ flushed'[t] = flushed[t]
                                       /\ seen'[t] = seen[t]
      /\ flushed'[r] = flushed[r] \cup {Key(r)}
  BY DEF tables, Go, Flush, IInv, TypeOK
<1>2. /\ \A t \in Requests \ {r} : Key(r) \notin flushed[t]
      /\ ~Committed(Key(r))
  BY DEF Flush, HeldByOther
<1>3. /\ GenresOf[r] \in Seq(Genres) /\ Len(GenresOf[r]) \in Nat /\ SlugOf[r] \in Slugs
      /\ seen[r] \in Nat
  BY IngestionAssumption DEF IInv, TypeOK
<1>4. CASE at[r] = "new_genre"
  <2>1. /\ n \in 1..Len(GenresOf[r]) /\ Key(r) = <<"genre", GenresOf[r][n]>>
        /\ GenresOf[r][n] \in Genres /\ GenresOf[r][n] \in ToSet(GenresOf[r])
    BY <1>3, <1>4 DEF IInv, SeenFits, Writing, Key, Genre, ToSet
  <2>2. at'[r] = "genres" /\ seen'[r] = n
    BY <1>4, <1>3 DEF Go, IInv, TypeOK
  <2>3. TypeOK'
    <3>1. at' = [at EXCEPT ![r] = "genres"] /\ seen' = [seen EXCEPT ![r] = @ + 1]
      BY <1>4 DEF Go
    <3>2. seen' \in [Requests -> Nat]
      BY <3>1 DEF IInv, TypeOK
    <3>3. flushed' \in [Requests -> SUBSET (({"genre"} \X Genres) \cup ({"anime"} \X Slugs))]
      BY <2>1 DEF IInv, TypeOK, Flush
    <3> QED
      BY <1>1, <3>1, <3>2, <3>3 DEF IInv, TypeOK, InTransaction
  <2>4. SeenFits'
    BY <1>1, <1>3, <2>1, <2>2 DEF IInv, SeenFits, Looking, Writing
  <2>5. OwnKeys'
    BY <1>1, <1>4, <2>1, <2>2 DEF IInv, OwnKeys, Writing
  <2>6. SeenVisible'
    <3>1. \A t \in Requests : VisibleGenres(t) \subseteq VisibleGenres(t)'
      BY <1>1 DEF VisibleGenres
    <3>2. GenresOf[r][n] \in VisibleGenres(r)'
      BY <1>1, <2>1 DEF VisibleGenres
    <3>3. \A i \in 1..n : i \in 1..seen[r] \/ i = n
      BY <1>3
    <3>4. \A i \in 1..seen[r] : GenresOf[r][i] \in VisibleGenres(r)
      BY <1>4 DEF IInv, SeenVisible, Writing
    <3> QED
      BY <1>1, <2>2, <3>1, <3>2, <3>3, <3>4 DEF IInv, SeenVisible
  <2> QED
    BY <1>1, <1>4, <2>2, <2>3, <2>4, <2>5, <2>6, <1>2, FlushedApart DEF tables
<1>5. CASE at[r] = "anime"
  <2>1. Key(r) = <<"anime", SlugOf[r]>> /\ at'[r] = "commit" /\ seen' = seen
    BY <1>5 DEF Key, Go, IInv, TypeOK
  <2>2. TypeOK'
    BY <1>1, <1>5, <1>3, <2>1 DEF IInv, TypeOK, Go, Flush, tables, InTransaction
  <2>3. SeenFits'
    BY <1>1, <1>5, <2>1 DEF IInv, SeenFits, Looking, Writing
  <2>4. OwnKeys'
    BY <1>1, <1>5, <2>1 DEF IInv, OwnKeys, Writing
  <2>5. SeenVisible'
    <3>1. \A t \in Requests : VisibleGenres(t) \subseteq VisibleGenres(t)'
      BY <1>1 DEF VisibleGenres
    <3> QED
      BY <1>1, <1>5, <2>1, <3>1 DEF IInv, SeenVisible, Writing
  <2> QED
    BY <1>1, <1>5, <2>1, <2>2, <2>3, <2>4, <2>5, <1>2, FlushedApart DEF tables
<1> QED
  BY <1>4, <1>5

(* The commit: what r flushed becomes rows, and its anime is stored.       *)
LEMMA CommitKeeps ==
    ASSUME IInv, NEW r \in Requests, Commit(r)
    PROVE  IInv'
<1> DEFINE new == animes'[r]
<1>1. /\ at[r] = "commit"
      /\ seen' = seen
      /\ \A t \in Requests : at'[t] = IF t = r THEN "served" ELSE at[t]
      /\ \A t \in Requests : result'[t] = IF t = r THEN r ELSE result[t]
      /\ \A t \in Requests : flushed'[t] = IF t = r THEN {} ELSE flushed[t]
      /\ \A t \in Requests : t # r => animes'[t] = animes[t]
      /\ genres' = genres \cup {g \in Genres : <<"genre", g>> \in flushed[r]}
  BY DEF Commit, Serve, Go, IInv, TypeOK
<1>2. /\ SlugOf[r] \in Slugs /\ ToSet(GenresOf[r]) \subseteq Genres
      /\ GenresOf[r] \in Seq(Genres) /\ Len(GenresOf[r]) \in Nat
  BY IngestionAssumption DEF ToSet
<1>3. /\ new \in Catalog!Anime
      /\ new.slug = SlugOf[r] /\ new.genres = ToSet(GenresOf[r])
  <2>1. Listing(answer[r]) \in [Catalog!Positions -> Catalog!Episode \cup {NoEpisode}]
    BY DEF Listing, Catalog!Positions, Catalog!Episode, Catalog!NewEpisode
  <2>2. new = Catalog!Ingested(SlugOf[r], NormalizeStatus(KeywordsOf[r]),
                               ToSet(GenresOf[r]), Listing(answer[r]))
    BY DEF Commit, IInv, TypeOK, Normalized, Detail
  <2>3. new = [slug |-> SlugOf[r], status |-> NormalizeStatus(KeywordsOf[r]),
               genres |-> ToSet(GenresOf[r]), external_ids |-> {},
               relations |-> {}, seasons |-> {1},
               episodes |-> Listing(answer[r])]
    BY <2>2 DEF Catalog!Ingested, Catalog!NewAnime
  <2> HIDE DEF new
  <2> QED
    BY <1>2, <2>1, <2>3 DEF NormalizeStatus, Catalog!Anime, Catalog!AnimeStatus
<1>4. r \notin Catalog!Stored /\ Catalog!Stored' = Catalog!Stored \cup {r}
  BY <1>1, <1>3, NoAnimeAssumption DEF IInv, StoredServed, Catalog!Stored
<1>5. TypeOK'
  BY <1>1, <1>3 DEF IInv, TypeOK, Commit, Serve, Go, Done
<1>6. SeenFits' /\ OwnKeys'
  BY <1>1 DEF IInv, SeenFits, OwnKeys, Looking, Writing
<1>7. SeenVisible'
  BY <1>1 DEF IInv, SeenVisible, VisibleGenres, Writing
<1>8. Exclusive'
  BY <1>1 DEF IInv, Exclusive
<1>9. <<"anime", SlugOf[r]>> \in flushed[r]
  BY <1>1, <1>2 DEF IInv, OwnKeys
<1>10. Uncommitted'
  <2> SUFFICES ASSUME NEW t \in Requests, NEW key \in flushed'[t]
               PROVE  ~Committed(key)'
    BY DEF Uncommitted
  <2>1. t # r /\ key \in flushed[t] /\ ~Committed(key) /\ key \notin flushed[r]
    BY <1>1 DEF IInv, Exclusive, Uncommitted
  <2>2. CASE key[1] = "genre"
    <3>1. key = <<"genre", key[2]>>
      BY <2>1, <2>2 DEF IInv, TypeOK
    <3> QED
      BY <1>1, <2>1, <2>2, <3>1 DEF Committed
  <2>3. CASE key[1] = "anime"
    <3>1. key = <<"anime", key[2]>>
      BY <2>1, <2>3 DEF IInv, TypeOK
    <3>2. key[2] # SlugOf[r]
      BY <1>9, <2>1, <3>1
    <3> QED
      BY <1>1, <1>3, <1>4, <2>1, <2>3, <3>2 DEF Committed, Catalog!Stored
  <2> QED
    BY <2>1, <2>2, <2>3 DEF IInv, TypeOK
<1>11. UniqueSlugs'
  <2>1. \A a \in Catalog!Stored : animes[a].slug # SlugOf[r]
    BY <1>9 DEF IInv, Uncommitted, Committed
  <2> QED
    BY <1>1, <1>3, <1>4, <2>1 DEF IInv, UniqueSlugs, Catalog!Stored
<1>12. StoredServed'
  BY <1>1, <1>4 DEF IInv, StoredServed, Catalog!Stored
<1>13. ServedStored'
  <2>1. \A t \in Requests : Found(t) \subseteq Found(t)'
    BY <1>1, <1>4 DEF Found, Catalog!Stored
  <2>2. r \in Found(r)'
    BY <1>3, <1>4 DEF Found
  <2> QED
    BY <1>1, <2>1, <2>2 DEF IInv, ServedStored
<1>14. AllOrNothing'
  <2>1. genres' = genres \cup ToSet(GenresOf[r])
    <3>1. \A g \in Genres : <<"genre", g>> \in flushed[r] => g \in ToSet(GenresOf[r])
      BY DEF IInv, OwnKeys
    <3>2. \A i \in 1..Len(GenresOf[r]) : GenresOf[r][i] \in VisibleGenres(r)
      BY <1>1 DEF IInv, SeenFits, SeenVisible, Writing
    <3>3. ToSet(GenresOf[r]) \subseteq VisibleGenres(r)
      BY <1>2, <3>2 DEF ToSet
    <3> QED
      BY <1>1, <3>1, <3>3 DEF VisibleGenres
  <2>2. \A a \in Catalog!Stored : animes'[a] = animes[a]
    BY <1>1, <1>4 DEF Catalog!Stored
  <2>3. \A g : g \in genres <=> \E a \in Catalog!Stored : g \in animes[a].genres
    BY DEF IInv, AllOrNothing
  <2>4. \A g : g \in genres' <=> g \in genres \/ g \in animes'[r].genres
    BY <1>3, <2>1
  <2>5. \A g : g \in genres' <=> \E a \in Catalog!Stored \cup {r} : g \in animes'[a].genres
    BY <2>2, <2>3, <2>4
  <2>6. genres' = UNION {animes'[a].genres : a \in Catalog!Stored \cup {r}}
    BY <2>5
  <2> QED
    BY <1>4, <2>6 DEF AllOrNothing
<1> QED
  BY <1>5, <1>6, <1>7, <1>8, <1>10, <1>11, <1>12, <1>13, <1>14 DEF IInv

LEMMA NextIInv == IInv /\ [Next]_vars => IInv'
<1> SUFFICES ASSUME IInv, [Next]_vars PROVE IInv'
  OBVIOUS
<1>1. CASE UNCHANGED vars
  BY <1>1, Unmoved DEF vars
<1>2. CASE FetchProgress
  BY <1>2, Unmoved DEF FetchProgress
<1>3. ASSUME NEW c \in Calls, CallTimesOut(c) PROVE IInv'
  BY <1>3, Unmoved DEF CallTimesOut
<1>4. ASSUME NEW r \in Requests, Arrive(r) PROVE IInv'
  BY <1>4, GoKeeps DEF Arrive, Looking, Done
<1>5. ASSUME NEW r \in Requests, FirstLookup(r) PROVE IInv'
  BY <1>5, LookUpKeeps DEF FirstLookup
<1>6. ASSUME NEW r \in Requests, PoolTimesOut(r) PROVE IInv'
  BY <1>6, EndKeeps DEF PoolTimesOut
<1>7. ASSUME NEW r \in Requests, AsksProvider(r) PROVE IInv'
  <2>1. CASE DetailComes(r)
    BY <2>1, GoKeeps DEF DetailComes, Looking, Done
  <2>2. CASE DetailMissing(r)
    BY <2>2, EndKeeps DEF DetailMissing
  <2>3. CASE DetailFails(r)
    BY <2>3, EndKeeps DEF DetailFails
  <2>4. CASE EpisodesFail(r)
    BY <2>4, EndKeeps DEF EpisodesFail
  <2>5. CASE EpisodesCome(r)
    BY <2>5, GoKeeps DEF EpisodesCome, Looking, Done
  <2> QED
    BY <1>7, <2>1, <2>2, <2>3, <2>4, <2>5 DEF AsksProvider
<1>8. ASSUME NEW r \in Requests, Stores(r) PROVE IInv'
  <2>1. CASE Recheck(r)
    BY <2>1, LookUpKeeps DEF Recheck
  <2>2. CASE GetGenre(r)
    <3>1. /\ at[r] = "genres" /\ seen[r] < Len(GenresOf[r])
          /\ UNCHANGED <<flushed, result, tables>>
      BY <2>2 DEF GetGenre
    <3>2. CASE Genre(r) \in VisibleGenres(r)
      <4>1. seen' = [seen EXCEPT ![r] = @ + 1] /\ at' = at
        BY <2>2, <3>2 DEF GetGenre
      <4>2. Go(r, "genres")
        BY <3>1, <4>1 DEF Go, IInv, TypeOK
      <4> QED
        BY <3>1, <3>2, <4>1, <4>2, GoKeeps DEF Done
    <3>3. CASE Genre(r) \notin VisibleGenres(r)
      <4>1. Go(r, "new_genre") /\ seen' = seen
        BY <2>2, <3>3 DEF GetGenre
      <4> QED
        BY <3>1, <4>1, GoKeeps DEF Done
    <3> QED
      BY <3>2, <3>3
  <2>3. CASE CreateGenre(r)
    BY <2>3, FlushKeeps DEF CreateGenre
  <2>4. CASE BuildEpisodes(r)
    BY <2>4, GoKeeps DEF BuildEpisodes, Builds, Done
  <2>5. CASE RefusesData(r)
    BY <2>5, EndKeeps DEF RefusesData, Builds
  <2>6. CASE AddAnime(r)
    BY <2>6, FlushKeeps DEF AddAnime
  <2>7. CASE KeyTaken(r)
    BY <2>7, EndKeeps DEF KeyTaken, Flushing
  <2>8. CASE DeadlockVictim(r)
    <3>1. r \in Flushing
      BY <2>8 DEF DeadlockVictim, WaitsFor
    <3> QED
      BY <2>8, <3>1, EndKeeps DEF DeadlockVictim, Flushing
  <2>9. CASE Commit(r)
    BY <2>9, CommitKeeps
  <2> QED
    BY <1>8, <2>1, <2>2, <2>3, <2>4, <2>5, <2>6, <2>7, <2>8, <2>9 DEF Stores
<1>9. CASE Crash
  BY <1>9, CrashKeeps
<1> QED
  BY <1>1, <1>2, <1>3, <1>4, <1>5, <1>6, <1>7, <1>8, <1>9 DEF Next, Progress

LEMMA Invariance == Spec => []IInv
<1> QED
  BY InitIInv, NextIInv, PTL DEF Spec

(* Requests, seen genres, flushed keys and both tables keep their types.   *)
THEOREM TypeCorrect == Spec => []TypeOK
<1>1. IInv => TypeOK
  BY DEF IInv
<1> QED
  BY <1>1, Invariance, PTL

(* Whatever fails, times out, crashes or is chosen as a deadlock's victim, *)
(* the genres in the table are those of the animes in the table.           *)
THEOREM Atomic == Spec => []AllOrNothing
<1>1. IInv => AllOrNothing
  BY DEF IInv
<1> QED
  BY <1>1, Invariance, PTL

(* Two requests for one slug are served one anime, and it is in the table. *)
THEOREM ServedAlike == Spec => []OneAnimePerSlug
<1>1. IInv => OneAnimePerSlug
  BY DEF IInv, OneAnimePerSlug, ServedStored, UniqueSlugs, Found
<1> QED
  BY <1>1, Invariance, PTL

---------------------------------------------------------------------------
LEMMA CommitIngests ==
    ASSUME IInv, NEW r \in Requests, Commit(r)
    PROVE  Catalog!Next
<1> DEFINE gs == ToSet(GenresOf[r])
           st == Normalized(r).status
           listing == Listing(answer[r])
           all == {a \in Requests : animes[a] # NoAnime}
<1>1. /\ SlugOf[r] \in Slugs /\ gs \subseteq Genres
      /\ GenresOf[r] \in Seq(Genres) /\ Len(GenresOf[r]) \in Nat
  BY IngestionAssumption DEF ToSet
<1>2. /\ at[r] = "commit"
      /\ animes' = [animes EXCEPT ![r] = Catalog!Ingested(SlugOf[r], st, gs, listing)]
      /\ genres' = genres \cup {g \in Genres : <<"genre", g>> \in flushed[r]}
  BY DEF Commit, Normalized, Detail
<1>3. listing \in Listings
  BY DEF Listing, Listings, Catalog!NewEpisode
<1>4. genres' = genres \cup gs
  <2>1. \A g \in Genres : <<"genre", g>> \in flushed[r] => g \in gs
    BY DEF IInv, OwnKeys
  <2>2. \A i \in 1..Len(GenresOf[r]) : GenresOf[r][i] \in VisibleGenres(r)
    BY <1>2 DEF IInv, SeenFits, SeenVisible, Writing
  <2>3. gs \subseteq VisibleGenres(r)
    BY <1>1, <2>2 DEF ToSet
  <2> HIDE DEF gs
  <2> QED
    BY <1>2, <2>1, <2>3 DEF VisibleGenres
<1>5. r \notin Catalog!Stored
  BY <1>2 DEF IInv, StoredServed
<1>6. ~Catalog!ExistsBySlug(SlugOf[r])
  <2>1. ~Committed(<<"anime", SlugOf[r]>>)
    BY <1>1, <1>2 DEF IInv, OwnKeys, Uncommitted
  <2> QED
    BY <2>1 DEF Committed, Catalog!ExistsBySlug
<1>7. all' = all \cup {r} /\ r \notin all
  <2>1. IInv'
    BY NextIInv DEF Next, Progress, Stores
  <2>2. r \in all'
    <3>1. at'[r] = "served" /\ result'[r] = r
      BY DEF Commit, Serve, Go, IInv, TypeOK
    <3> QED
      BY <2>1, <3>1 DEF IInv, ServedStored, Found, Catalog!Stored
  <2> QED
    BY <1>2, <1>5, <2>2 DEF Catalog!Stored, IInv, TypeOK
<1>8. /\ Cardinality(all) < Cardinality(Requests)
      /\ Cardinality(all') = Cardinality(all) + 1
  <2> HIDE DEF all
  <2>1. all \subseteq Requests
    BY DEF all
  <2>2. IsFiniteSet(Requests) /\ IsFiniteSet(all)
    BY <2>1, IngestionAssumption, FS_Subset
  <2>3. Cardinality(all') = Cardinality(all) + 1
    BY <1>7, <2>2, FS_AddElement
  <2>4. all' \subseteq Requests
    BY DEF all
  <2>5. Cardinality(all) \in Nat /\ Cardinality(Requests) \in Nat
    BY <2>2, FS_CardinalityType
  <2> QED
    BY <2>2, <2>3, <2>4, <2>5, FS_Subset
<1>9. Catalog!IngestAnime(r, SlugOf[r], st, gs, listing)
  BY <1>2, <1>4, <1>5, <1>6, <1>8 DEF Catalog!IngestAnime, Catalog!Writes
<1>10. gs \in SUBSET Genres /\ st \in {Normalized(q).status : q \in Requests}
  BY <1>1
<1> HIDE DEF gs, st, listing
<1>11. \E slug \in Slugs, labels \in SUBSET Genres, a \in Requests,
         status \in {Normalized(q).status : q \in Requests}, l \in Listings :
            Catalog!IngestAnime(a, slug, status, labels, l)
  BY <1>1, <1>2, <1>3, <1>4, <1>5, <1>6, <1>8, <1>10
     DEF Catalog!IngestAnime, Catalog!Writes
<1> QED
  BY <1>11, Zenon DEF Catalog!Next, Catalog!Create

(* Concurrent ingestions change the tables as the one-step ingestions of   *)
(* Catalog would, in the order of their commits.                           *)
THEOREM Refinement == Spec => ImplementsCatalog
<1>1. Init => Catalog!Init
  <2> SUFFICES ASSUME Init PROVE Catalog!Init
    OBVIOUS
  <2>1. {r \in Requests : animes[r] # NoAnime} = {}
    BY DEF Init
  <2>2. Cardinality({r \in Requests : animes[r] # NoAnime}) = 0
    BY <2>1, FS_EmptySet
  <2> QED
    BY <2>2 DEF Init, Catalog!Init, Catalog!LabelKinds
<1>2. IInv /\ [Next]_vars => [UNCHANGED tables \/ Catalog!Next]_vars
  <2> SUFFICES ASSUME IInv, [Next]_vars PROVE UNCHANGED tables \/ Catalog!Next
    OBVIOUS
  <2>1. CASE \E r \in Requests : Commit(r)
    BY <2>1, CommitIngests
  <2>2. CASE ~\E r \in Requests : Commit(r)
    BY <2>2 DEF Next, Progress, FetchProgress, AsksProvider, Stores, vars, tables,
       CallTimesOut, Arrive, FirstLookup, LookUp, PoolTimesOut, DetailComes,
       DetailMissing, DetailFails, EpisodesFail, EpisodesCome, Recheck, GetGenre, CreateGenre,
       BuildEpisodes, RefusesData, AddAnime, KeyTaken, DeadlockVictim, Crash
  <2> QED
    BY <2>1, <2>2
<1> QED
  BY <1>1, <1>2, Invariance, PTL DEF Spec, ImplementsCatalog

---------------------------------------------------------------------------
(* The adapters.                                                           *)

(* Tasks that wait or hold a permit.                                       *)
Running == ToSet(queue) \cup fetching

(* They are tasks of calls that got their page and were neither answered   *)
(* nor cancelled.                                                          *)
RunningOwned ==
    \A t \in Running : t \in TasksOf(t[1]) /\ call[t[1]] \in {"episodes", "failed"}

(* No task is in two places, or twice in the queue.                        *)
InOnePlace ==
    /\ \A i, j \in DOMAIN queue : queue[i] = queue[j] => i = j
    /\ ToSet(queue) \cap fetching = {}

(* Every task of a page has a place among the results, which holds nothing *)
(* while it runs, and nothing but its own episode later.                   *)
ResultsFit ==
    /\ \A c \in Calls :
          /\ DOMAIN results[c] = DOMAIN listed[c]
          /\ \A i \in DOMAIN listed[c] : results[c][i] \in {NoPage, listed[c][i]}
    /\ \A t \in Running : results[t[1]][t[2]] = NoPage

PermitsKept == IsFiniteSet(fetching) /\ permits + Cardinality(fetching) = MaxFetches

AnswersInOrder == \A c \in Calls : call[c] = "answered" => answer[c] = InOrder(listed[c])

FetchInv == /\ FetchTypeOK /\ RunningOwned /\ InOnePlace /\ ResultsFit
            /\ PermitsKept /\ AnswersInOrder

(* What a step of Ingestion does to the adapters.                          *)
FetchesCrash ==
    /\ call' = [c \in Calls |-> IF call[c] \in Pending THEN "failed" ELSE call[c]]
    /\ queue' = <<>>
    /\ fetching' = {}
    /\ permits' = MaxFetches
    /\ UNCHANGED <<listed, results, answer>>

FetchStep ==
    \/ UNCHANGED fetchVars
    \/ \E c \in Calls : GetEpisodes(c) \/ PageAnswers(c) \/ Gathered(c) \/ TimesOut(c)
    \/ Acquire
    \/ \E t \in fetching : FetchEnds(t)
    \/ FetchesCrash

LEMMA NextFetches == [Next]_vars => FetchStep
<1> SUFFICES ASSUME [Next]_vars PROVE FetchStep
  OBVIOUS
<1>1. CASE UNCHANGED vars
  BY <1>1 DEF vars, FetchStep
<1>2. CASE FetchProgress
  BY <1>2 DEF FetchProgress, FetchStep
<1>3. ASSUME NEW c \in Calls, CallTimesOut(c) PROVE FetchStep
  BY <1>3 DEF CallTimesOut, FetchStep
<1>4. ASSUME NEW r \in Requests, DetailComes(r) PROVE FetchStep
  BY <1>4, IngestionAssumption DEF DetailComes, FetchStep
<1>5. CASE Crash
  BY <1>5 DEF Crash, FetchesCrash, FetchStep
<1>6. ASSUME NEW r \in Requests, Arrive(r) \/ FirstLookup(r) \/ PoolTimesOut(r)
      PROVE  FetchStep
  BY <1>6 DEF Arrive, FirstLookup, PoolTimesOut, LookUp, FetchStep
<1>7. ASSUME NEW r \in Requests, AsksProvider(r) PROVE FetchStep
  BY <1>4, <1>7 DEF AsksProvider, DetailMissing, DetailFails, EpisodesFail, EpisodesCome,
                    FetchStep
<1>8. ASSUME NEW r \in Requests, Stores(r) PROVE UNCHANGED fetchVars
  BY <1>8 DEF Stores, Recheck, LookUp, GetGenre, CreateGenre, BuildEpisodes, RefusesData,
              AddAnime, KeyTaken, DeadlockVictim, Commit
<1> QED
  BY <1>1, <1>2, <1>3, <1>5, <1>6, <1>7, <1>8 DEF Next, Progress, FetchStep

LEMMA InitFetchInv == Init => FetchInv
<1> SUFFICES ASSUME Init PROVE FetchInv
  OBVIOUS
<1>1. FetchInit
  BY DEF Init
<1>2. queue = <<>> /\ ToSet(queue) = {} /\ Running = {}
  BY <1>1 DEF FetchInit, ToSet, Running
<1>3. FetchTypeOK
  BY <1>1, FetchAssumption DEF FetchInit, FetchTypeOK
<1>4. RunningOwned /\ InOnePlace /\ ResultsFit
  BY <1>1, <1>2 DEF FetchInit, RunningOwned, InOnePlace, ResultsFit
<1>5. PermitsKept
  BY <1>1, FetchAssumption, FS_EmptySet DEF FetchInit, PermitsKept
<1>6. AnswersInOrder
  BY <1>1 DEF FetchInit, AnswersInOrder
<1> QED
  BY <1>3, <1>4, <1>5, <1>6 DEF FetchInv

LEMMA RunningTask ==
    ASSUME NEW t
    PROVE  /\ t \in ToSet(queue) <=> \E i \in DOMAIN queue : t = queue[i]
           /\ t \in Running <=> t \in fetching \/ \E i \in DOMAIN queue : t = queue[i]
  BY DEF Running, ToSet

(* What InOrder makes of episodes.                                         *)
LEMMA OrderComplete ==
    ASSUME NEW s \in Seq(Nat)
    PROVE  /\ InOrder(s) \in Seq(Nat)
           /\ \A i, j \in DOMAIN InOrder(s) : i <= j => InOrder(s)[i] <= InOrder(s)[j]
           /\ \A v : Occurrences(InOrder(s), v) = Occurrences(s, v)
<1> DEFINE n == Len(s)
           before == {p \in (DOMAIN s) \X (DOMAIN s) :
                         s[p[1]] < s[p[2]] \/ (s[p[1]] = s[p[2]] /\ p[1] < p[2])}
           b == Sorted(1..n, before)
           o == InOrder(s)
<1>1. n \in Nat /\ DOMAIN s = 1..n /\ \A i \in 1..n : s[i] \in Nat
  OBVIOUS
<1>2. o = [k \in 1..n |-> s[b[k]]]
  BY <1>1 DEF InOrder
<1>3. \A i, j \in 1..n :
          <<i, j>> \in before <=> s[i] < s[j] \/ (s[i] = s[j] /\ i < j)
  BY <1>1
<1> HIDE DEF before, n, o
<1>4. StrictOrder(1..n, before)
  <2>1. \A i, j \in 1..n : i # j => <<i, j>> \in before \/ <<j, i>> \in before
    BY <1>1, <1>3
  <2>2. ASSUME NEW i \in 1..n, NEW j \in 1..n, NEW k \in 1..n,
               <<i, j>> \in before, <<j, k>> \in before
        PROVE  <<i, k>> \in before
    <3>1. s[i] \in Nat /\ s[j] \in Nat /\ s[k] \in Nat
      BY <1>1
    <3>2. /\ s[i] < s[j] \/ (s[i] = s[j] /\ i < j)
          /\ s[j] < s[k] \/ (s[j] = s[k] /\ j < k)
      BY <1>3, <2>2
    <3>3. s[i] < s[k] \/ (s[i] = s[k] /\ i < k)
      BY <3>1, <3>2
    <3> QED
      BY <1>3, <3>3
  <2>3. \A i \in 1..n : <<i, i>> \notin before
    BY <1>1, <1>3
  <2> QED
    BY <2>1, <2>2, <2>3 DEF StrictOrder
<1>5. IsFiniteSet(1..n) /\ Cardinality(1..n) = n
  BY <1>1, FS_Interval
<1>6. /\ b \in Bijection(1..n, 1..n)
      /\ \A i, j \in 1..n : i < j <=> <<b[i], b[j]>> \in before
  BY <1>4, <1>5, SortedLists
<1> HIDE DEF b
<1>7. \A i \in 1..n : b[i] \in 1..n
  BY <1>6 DEF Bijection, Injection
<1>8. DOMAIN o = 1..n /\ \A i \in 1..n : o[i] = s[b[i]] /\ o[i] \in Nat
  BY <1>1, <1>2, <1>7
<1>9. o \in Seq(Nat)
  BY <1>1, <1>2, <1>8
<1>10. ASSUME NEW i \in 1..n, NEW j \in 1..n, i <= j
       PROVE  o[i] <= o[j]
  <2>1. CASE i = j
    BY <1>8, <2>1
  <2>2. CASE i < j
    <3>1. <<b[i], b[j]>> \in before /\ b[i] \in 1..n /\ b[j] \in 1..n
      BY <1>6, <1>7, <2>2
    <3>2. s[b[i]] < s[b[j]] \/ s[b[i]] = s[b[j]]
      BY <1>3, <3>1
    <3>3. o[i] = s[b[i]] /\ o[j] = s[b[j]] /\ s[b[i]] \in Nat /\ s[b[j]] \in Nat
      BY <1>8
    <3>4. s[b[i]] <= s[b[j]]
      BY <3>2, <3>3
    <3> QED
      BY <3>3, <3>4
  <2>3. i \in Nat /\ j \in Nat
    BY <1>1
  <2>4. i = j \/ i < j
    BY <1>10, <2>3
  <2> QED
    BY <2>1, <2>2, <2>4
<1>11. ASSUME NEW v PROVE Occurrences(o, v) = Occurrences(s, v)
  <2> DEFINE A == {i \in 1..n : o[i] = v}
             B == {i \in 1..n : s[i] = v}
  <2>1. Occurrences(o, v) = Cardinality(A) /\ Occurrences(s, v) = Cardinality(B)
    BY <1>1, <1>8 DEF Occurrences
  <2>2. \A i \in 1..n : i \in A <=> b[i] \in B
    BY <1>7, <1>8
  <2> HIDE DEF A, B
  <2>3. A \in SUBSET (1..n) /\ B \in SUBSET (1..n)
    BY DEF A, B
  <2>4. Cardinality(A) = Cardinality(B)
    BY <1>1, <1>6, <2>2, <2>3, Rearranged
  <2> QED
    BY <2>1, <2>4
<1> QED
  BY <1>8, <1>9, <1>10, <1>11 DEF o

LEMMA RunningTyped ==
    ASSUME FetchTypeOK, NEW t \in Running
    PROVE  t \in Calls \X Nat /\ t[1] \in Calls
<1>1. /\ fetching \subseteq Calls \X Nat /\ queue \in Seq(Calls \X Nat)
  BY DEF FetchTypeOK
<1>2. \A i \in DOMAIN queue : queue[i] \in Calls \X Nat
  BY ONLY <1>1
<1>3. t \in Calls \X Nat
  BY <1>1, <1>2, RunningTask
<1> QED
  BY ONLY <1>3

(* A task returns.                                                         *)
LEMMA TaskReturns ==
    ASSUME FetchInv, NEW t \in Running,
           results' = [results EXCEPT ![t[1]][t[2]] = listed[t[1]][t[2]]]
    PROVE  /\ results' \in [Calls -> Seq(Nat \cup {NoPage})]
           /\ \A c \in Calls :
                 /\ DOMAIN results'[c] = DOMAIN results[c]
                 /\ \A i \in DOMAIN results[c] :
                       results'[c][i] = IF <<c, i>> = t THEN listed[c][i] ELSE results[c][i]
<1>1. t \in Calls \X Nat /\ t[1] \in Calls /\ t \in TasksOf(t[1])
  BY RunningTyped DEF FetchInv, RunningOwned
<1> DEFINE c == t[1]
           i == t[2]
<1>2. c \in Calls /\ i \in DOMAIN listed[c] /\ t = <<c, i>>
  BY <1>1 DEF TasksOf
<1> HIDE DEF c, i
<1> DEFINE Numbers == Nat \cup {NoPage}
<1>3. /\ results \in [Calls -> Seq(Numbers)] /\ listed[c] \in Seq(Nat)
      /\ DOMAIN results[c] = DOMAIN listed[c]
  BY <1>2 DEF FetchInv, FetchTypeOK, ResultsFit
<1>4. listed[c][i] \in Numbers
  BY <1>2, <1>3
<1> HIDE DEF Numbers
<1> DEFINE new == [results[c] EXCEPT ![i] = listed[c][i]]
<1>5. results[c] \in Seq(Numbers)
  BY <1>2, <1>3
<1>6. /\ new \in Seq(Numbers) /\ DOMAIN new = DOMAIN results[c]
      /\ \A k \in DOMAIN results[c] :
            new[k] = IF k = i THEN listed[c][i] ELSE results[c][k]
  <2> DEFINE s == results[c]
             v == listed[c][i]
             n == Len(s)
  <2>1. n \in Nat /\ s \in [1..n -> Numbers] /\ DOMAIN s = 1..n
    BY <1>5
  <2>2. v \in Numbers /\ new = [s EXCEPT ![i] = v]
    BY <1>4
  <2> HIDE DEF s, v, n, new
  <2>3. /\ new \in [1..n -> Numbers] /\ DOMAIN new = 1..n
        /\ \A k \in 1..n : new[k] = IF k = i THEN v ELSE s[k]
    BY <2>1, <2>2
  <2>4. new \in Seq(Numbers)
    BY <2>1, <2>3
  <2> QED
    BY <2>1, <2>3, <2>4 DEF s, v
<1>7. results' = [results EXCEPT ![c] = new]
  BY <1>2, <1>3
<1> HIDE DEF new
<1>8. results' \in [Calls -> Seq(Numbers)]
  BY <1>2, <1>3, <1>6, <1>7
<1>9. results'[c] = new /\ \A d \in Calls : d # c => results'[d] = results[d]
  BY <1>2, <1>3, <1>7
<1>10. ASSUME NEW d \in Calls
       PROVE  /\ DOMAIN results'[d] = DOMAIN results[d]
              /\ \A k \in DOMAIN results[d] :
                    results'[d][k] = IF <<d, k>> = t THEN listed[d][k] ELSE results[d][k]
  <2>1. CASE d = c
    BY <1>2, <1>6, <1>9, <2>1
  <2>2. CASE d # c
    BY <1>2, <1>9, <2>2
  <2> QED
    BY <2>1, <2>2
<1> QED
  BY <1>8, <1>10 DEF Numbers

(* Where no task moves, it matters only which calls change.                *)
LEMMA CallChangeKeeps ==
    ASSUME FetchInv, NEW c \in Calls,
           UNCHANGED <<listed, queue, fetching, results, permits>>,
           NEW stage \in {"page", "failed"}, call' = [call EXCEPT ![c] = stage],
           \/ call[c] = "idle"
           \/ call[c] \in Pending /\ stage = "failed",
           answer' = answer
    PROVE  FetchInv'
<1> USE DEF FetchInv
<1>1. /\ call \in [Calls -> {"idle"} \cup Pending \cup Ended]
      /\ Running' = Running
      /\ \A d : TasksOf(d)' = TasksOf(d)
  BY DEF FetchTypeOK, Running, TasksOf
<1>2. FetchTypeOK'
  BY <1>1 DEF FetchTypeOK, Pending, Ended
<1>3. RunningOwned'
  BY <1>1 DEF RunningOwned, Pending
<1>4. InOnePlace' /\ PermitsKept'
  BY <1>1 DEF InOnePlace, PermitsKept
<1>5. ResultsFit'
  BY <1>1 DEF ResultsFit
<1>6. AnswersInOrder'
  <2>1. \A d \in Calls : call'[d] = "answered" => call[d] = "answered"
    BY <1>1
  <2> QED
    BY <2>1 DEF AnswersInOrder
<1> QED
  BY <1>2, <1>3, <1>4, <1>5, <1>6

LEMMA PageComesKeeps ==
    ASSUME FetchInv, NEW c \in Calls, NEW numbers \in Pages, PageComes(c, numbers)
    PROVE  FetchInv'
<1> DEFINE new == [i \in DOMAIN numbers |-> <<c, i>>]
           n == Len(queue)
<1> USE DEF FetchInv
<1>1. /\ call[c] = "page" /\ call' = [call EXCEPT ![c] = "episodes"]
      /\ listed' = [listed EXCEPT ![c] = numbers] /\ queue' = queue \o new
      /\ results' = [results EXCEPT ![c] = [i \in DOMAIN numbers |-> NoPage]]
      /\ fetching' = fetching /\ permits' = permits /\ answer' = answer
  BY DEF PageComes
<1>2. /\ call \in [Calls -> {"idle"} \cup Pending \cup Ended] /\ listed \in [Calls -> Seq(Nat)]
      /\ queue \in Seq(Calls \X Nat)
      /\ fetching \subseteq Calls \X Nat
      /\ results \in [Calls -> Seq(Nat \cup {NoPage})]
  BY DEF FetchTypeOK
<1>3. numbers \in Seq(Nat)
  BY FetchAssumption
<1>4. /\ new \in Seq(Calls \X Nat) /\ Len(new) = Len(numbers) /\ DOMAIN numbers = 1..Len(numbers)
      /\ \A i \in 1..Len(numbers) : new[i] = <<c, i>>
  BY <1>3
<1>5. /\ queue' \in Seq(Calls \X Nat) /\ n \in Nat /\ DOMAIN queue = 1..n
      /\ DOMAIN queue' = 1..(n + Len(numbers))
      /\ \A i \in 1..(n + Len(numbers)) :
            queue'[i] = IF i <= n THEN queue[i] ELSE <<c, i - n>>
  <2> HIDE DEF new
  <2>1. /\ queue' \in Seq(Calls \X Nat) /\ Len(queue') = n + Len(numbers)
        /\ \A i \in 1..(n + Len(numbers)) :
              queue'[i] = IF i <= n THEN queue[i] ELSE new[i - n]
    <3>1. queue \in Seq(Calls \X Nat) /\ new \in Seq(Calls \X Nat)
      BY <1>2, <1>4
    <3>2. /\ queue \o new \in Seq(Calls \X Nat) /\ Len(queue \o new) = n + Len(new)
          /\ \A i \in 1..(n + Len(new)) :
                (queue \o new)[i] = IF i <= n THEN queue[i] ELSE new[i - n]
      BY ONLY <3>1, ConcatProperties
    <3> QED
      BY <1>1, <1>4, <3>2
  <2>2. n \in Nat /\ Len(numbers) \in Nat
    BY <1>2, <1>3
  <2>3. \A i \in 1..(n + Len(numbers)) : ~(i <= n) => new[i - n] = <<c, i - n>>
    BY <1>4, <2>2
  <2> QED
    <3>1. DOMAIN queue = 1..n /\ DOMAIN queue' = 1..(n + Len(numbers))
      BY ONLY <1>2, <2>1
    <3> QED
      BY <2>1, <2>2, <2>3, <3>1
<1> HIDE DEF new, n
<1>6. \A t \in Running : t \in Calls \X Nat /\ t[1] # c /\ call'[t[1]] = call[t[1]]
  <2>1. \A t \in Running : t \in Calls \X Nat
    <3>1. \A i \in DOMAIN queue : queue[i] \in Calls \X Nat
      BY ONLY <1>2
    <3> QED
      BY <1>2, <3>1, RunningTask
  <2> QED
    BY <1>1, <1>2, <2>1 DEF RunningOwned
<1>7. ASSUME NEW t \in Running'
      PROVE  t \in Running \/ \E k \in DOMAIN numbers : t = <<c, k>>
  <2>1. t \in fetching \/ \E i \in DOMAIN queue' : t = queue'[i]
    BY <1>1, <1>7 DEF Running, ToSet
  <2>2. CASE t \in fetching
    BY <2>2 DEF Running
  <2>3. ASSUME NEW i \in DOMAIN queue', t = queue'[i]
        PROVE  t \in Running \/ \E k \in DOMAIN numbers : t = <<c, k>>
    <3>1. CASE i <= n
      <4>1. i \in DOMAIN queue /\ t = queue[i]
        BY <1>5, <2>3, <3>1
      <4> QED
        BY <4>1, RunningTask
    <3>2. CASE ~(i <= n)
      <4>1. i - n \in DOMAIN numbers /\ t = <<c, i - n>>
        BY <1>3, <1>4, <1>5, <2>3, <3>2
      <4> QED
        BY <4>1
    <3> QED
      BY <3>1, <3>2
  <2> QED
    BY <2>1, <2>2, <2>3
<1>8. FetchTypeOK'
  <2>1. [i \in DOMAIN numbers |-> NoPage] \in Seq(Nat \cup {NoPage})
    BY <1>3
  <2>2. results' \in [Calls -> Seq(Nat \cup {NoPage})]
    BY <1>1, <1>2, <2>1
  <2> QED
    BY <1>1, <1>2, <1>3, <1>5, <2>2 DEF FetchTypeOK, Pending
<1>9. RunningOwned'
  <2> SUFFICES ASSUME NEW t \in Running'
               PROVE  t \in TasksOf(t[1])' /\ call'[t[1]] \in {"episodes", "failed"}
    BY DEF RunningOwned
  <2>1. CASE t \in Running
    <3>1. t \in TasksOf(t[1]) /\ call[t[1]] \in {"episodes", "failed"}
      BY <2>1 DEF RunningOwned
    <3>2. listed'[t[1]] = listed[t[1]]
      BY <1>1, <1>2, <1>6, <2>1
    <3> QED
      BY <1>6, <2>1, <3>1, <3>2 DEF TasksOf
  <2>2. CASE \E k \in DOMAIN numbers : t = <<c, k>>
    BY <1>1, <1>2, <2>2 DEF TasksOf
  <2> QED
    BY <1>7, <2>1, <2>2
<1>10. \A i, j \in DOMAIN queue' : queue'[i] = queue'[j] => i = j
  <2> SUFFICES ASSUME NEW i \in DOMAIN queue', NEW j \in DOMAIN queue', queue'[i] = queue'[j]
               PROVE  i = j
    OBVIOUS
  <2>1. i \in Nat /\ j \in Nat /\ n \in Nat
    BY <1>5
  <2>2. CASE i <= n /\ j <= n
    <3>1. i \in DOMAIN queue /\ j \in DOMAIN queue /\ queue[i] = queue[j]
      BY <1>5, <2>2
    <3> QED
      BY <3>1 DEF InOnePlace
  <2>3. CASE ~(i <= n) /\ ~(j <= n)
    BY <1>5, <2>1, <2>3
  <2>4. \A k \in DOMAIN queue' : k <= n => queue'[k][1] # c
    <3> TAKE k \in DOMAIN queue'
    <3>1. k <= n => k \in DOMAIN queue /\ queue'[k] = queue[k]
      BY <1>5
    <3> QED
      BY <1>6, <3>1, RunningTask
  <2>5. \A k \in DOMAIN queue' : ~(k <= n) => queue'[k][1] = c
    BY <1>5
  <2> QED
    BY <2>2, <2>3, <2>4, <2>5
<1>11. ToSet(queue') \cap fetching = {}
  <2> SUFFICES ASSUME NEW i \in DOMAIN queue' PROVE queue'[i] \notin fetching
    BY DEF ToSet
  <2>1. CASE i <= n
    <3>1. i \in DOMAIN queue /\ queue'[i] = queue[i]
      BY <1>5, <2>1
    <3> QED
      BY <3>1 DEF InOnePlace, ToSet
  <2>2. CASE ~(i <= n)
    <3>1. queue'[i] = <<c, i - n>>
      BY <1>5, <2>2
    <3> QED
      BY <1>6, <3>1 DEF Running
  <2> QED
    BY <2>1, <2>2
<1>12. InOnePlace'
  BY <1>1, <1>10, <1>11 DEF InOnePlace
<1>13. ResultsFit'
  <2>1. /\ results'[c] = [i \in DOMAIN numbers |-> NoPage] /\ listed'[c] = numbers
        /\ \A d \in Calls : d # c => results'[d] = results[d] /\ listed'[d] = listed[d]
    BY <1>1, <1>2
  <2>2. ASSUME NEW d \in Calls
        PROVE  /\ DOMAIN results'[d] = DOMAIN listed'[d]
               /\ \A i \in DOMAIN listed'[d] : results'[d][i] \in {NoPage, listed'[d][i]}
    BY <2>1 DEF ResultsFit
  <2>3. ASSUME NEW t \in Running' PROVE results'[t[1]][t[2]] = NoPage
    <3>1. CASE t \in Running
      BY <1>6, <2>1, <3>1 DEF ResultsFit
    <3>2. CASE \E k \in DOMAIN numbers : t = <<c, k>>
      BY <2>1, <3>2
    <3> QED
      BY <1>7, <2>3, <3>1, <3>2
  <2> QED
    BY <2>2, <2>3 DEF ResultsFit
<1>14. PermitsKept'
  BY <1>1 DEF PermitsKept
<1>15. AnswersInOrder'
  <2> SUFFICES ASSUME NEW d \in Calls, call'[d] = "answered"
               PROVE  answer'[d] = InOrder(listed'[d])
    BY DEF AnswersInOrder
  <2>1. d # c /\ call[d] = "answered"
    BY <1>1, <1>2
  <2>2. listed'[d] = listed[d]
    BY <1>1, <1>2, <2>1
  <2> QED
    BY <1>1, <2>1, <2>2 DEF AnswersInOrder
<1> QED
  BY <1>8, <1>9, <1>12, <1>13, <1>14, <1>15

(* Where no task is added, and what came is from one that ended.           *)
LEMMA TasksKeep ==
    ASSUME FetchInv, FetchTypeOK', PermitsKept', AnswersInOrder',
           \A i, j \in DOMAIN queue' : queue'[i] = queue'[j] => i = j,
           ToSet(queue') \cap fetching' = {},
           Running' \subseteq Running, listed' = listed,
           \/ results' = results
           \/ \E t \in Running \ Running' :
                 results' = [results EXCEPT ![t[1]][t[2]] = listed[t[1]][t[2]]],
           \A t \in Running' : call'[t[1]] \in {"episodes", "failed"}
    PROVE  FetchInv'
<1>1. RunningOwned'
  BY DEF FetchInv, RunningOwned, TasksOf
<1>2. InOnePlace'
  BY DEF FetchInv, InOnePlace
<1>3. ResultsFit'
  <2>1. CASE results' = results
    BY <2>1 DEF FetchInv, ResultsFit
  <2>2. ASSUME NEW t \in Running \ Running',
               results' = [results EXCEPT ![t[1]][t[2]] = listed[t[1]][t[2]]]
        PROVE  ResultsFit'
    <3>1. \A c \in Calls :
             /\ DOMAIN results'[c] = DOMAIN results[c]
             /\ \A i \in DOMAIN results[c] :
                   results'[c][i] = IF <<c, i>> = t THEN listed[c][i] ELSE results[c][i]
      BY <2>2, TaskReturns
    <3>2. ASSUME NEW c \in Calls
          PROVE  /\ DOMAIN results'[c] = DOMAIN listed'[c]
                 /\ \A i \in DOMAIN listed'[c] : results'[c][i] \in {NoPage, listed'[c][i]}
      BY <3>1 DEF FetchInv, ResultsFit
    <3>3. ASSUME NEW u \in Running' PROVE results'[u[1]][u[2]] = NoPage
      <4>1. /\ u \in Running /\ u # t /\ u \in TasksOf(u[1])
            /\ results[u[1]][u[2]] = NoPage
        BY DEF FetchInv, RunningOwned, ResultsFit
      <4>2. /\ u[1] \in Calls /\ u[2] \in DOMAIN listed[u[1]] /\ u = <<u[1], u[2]>>
            /\ t \in Calls \X Nat
        BY <4>1, RunningTyped DEF FetchInv, TasksOf
      <4>3. u[2] \in DOMAIN results[u[1]]
        BY <4>2 DEF FetchInv, ResultsFit
      <4> QED
        BY <3>1, <4>1, <4>2, <4>3
    <3> QED
      BY <3>2, <3>3 DEF ResultsFit
  <2> QED
    BY <2>1, <2>2
<1> QED
  BY <1>1, <1>2, <1>3 DEF FetchInv

LEMMA SameAnswers ==
    ASSUME FetchInv, listed' = listed, answer' = answer,
           \A c \in Calls : call'[c] = "answered" => call[c] = "answered"
    PROVE  AnswersInOrder'
  BY DEF FetchInv, AnswersInOrder

LEMMA AcquireKeeps ==
    ASSUME FetchInv, Acquire
    PROVE  FetchInv'
<1> DEFINE t == Head(queue)
<1>1. /\ queue # <<>> /\ permits > 0 /\ queue' = Tail(queue) /\ fetching' = fetching \cup {t}
      /\ permits' = permits - 1 /\ call' = call /\ listed' = listed /\ results' = results
      /\ answer' = answer
  BY DEF Acquire
<1>2. /\ queue \in Seq(Calls \X Nat) /\ permits \in 0..MaxFetches /\ MaxFetches \in Nat
      /\ fetching \subseteq Calls \X Nat
  BY FetchAssumption DEF FetchInv, FetchTypeOK
<1>3. /\ queue' \in Seq(Calls \X Nat) /\ Len(queue') = Len(queue) - 1 /\ Len(queue) \in Nat
      /\ \A i \in 1..Len(queue') : queue'[i] = queue[i + 1]
      /\ DOMAIN queue = 1..Len(queue) /\ DOMAIN queue' = 1..Len(queue')
  <2> DEFINE Tasks == Calls \X Nat
  <2> HIDE DEF Tasks
  <2>1. queue \in Seq(Tasks) /\ queue # <<>>
    BY <1>1, <1>2 DEF Tasks
  <2>2. /\ Tail(queue) \in Seq(Tasks) /\ Len(Tail(queue)) = Len(queue) - 1
        /\ \A i \in 1..Len(Tail(queue)) : Tail(queue)[i] = queue[i + 1]
    BY <2>1, HeadTailProperties
  <2>3. Len(queue) \in Nat /\ DOMAIN queue = 1..Len(queue)
    BY <2>1
  <2>4. DOMAIN Tail(queue) = 1..Len(Tail(queue))
    BY <2>2
  <2> QED
    BY <1>1, <2>2, <2>3, <2>4 DEF Tasks
<1>4. 1 \in DOMAIN queue /\ t = queue[1] /\ t \in Calls \X Nat
  BY <1>1, <1>2, <1>3
<1> HIDE DEF t
<1>5. \A i \in DOMAIN queue' : i + 1 \in DOMAIN queue /\ queue'[i] = queue[i + 1] /\ i \in Nat \ {0}
  <2> SUFFICES ASSUME NEW i \in DOMAIN queue'
      PROVE  i + 1 \in DOMAIN queue /\ queue'[i] = queue[i + 1] /\ i \in Nat \ {0}
    OBVIOUS
  <2>1. i \in 1..Len(queue') /\ Len(queue') = Len(queue) - 1 /\ Len(queue) \in Nat
    BY <1>3
  <2>2. i + 1 \in 1..Len(queue) /\ i \in Nat \ {0}
    BY <2>1
  <2> QED
    BY <1>3, <2>1, <2>2
<1>6. \A i, j \in DOMAIN queue : queue[i] = queue[j] => i = j
  BY DEF FetchInv, InOnePlace
<1>7. t \notin fetching
  <2>1. t \in ToSet(queue)
    BY <1>4, RunningTask
  <2> QED
    BY <2>1 DEF FetchInv, InOnePlace
<1>8. FetchTypeOK'
  <2>1. permits' \in 0..MaxFetches
    BY <1>1, <1>2
  <2>2. fetching' \subseteq Calls \X Nat /\ queue' \in Seq(Calls \X Nat)
    BY <1>1, <1>2, <1>3, <1>4
  <2>3. /\ call \in [Calls -> {"idle"} \cup Pending \cup Ended]
        /\ listed \in [Calls -> Seq(Nat)]
        /\ results \in [Calls -> Seq(Nat \cup {NoPage})]
        /\ answer \in [Calls -> Seq(Nat)]
    BY DEF FetchInv, FetchTypeOK
  <2>4. call' = call /\ listed' = listed /\ results' = results /\ answer' = answer
    BY <1>1
  <2> QED
    BY <2>1, <2>2, <2>3, <2>4 DEF FetchTypeOK
<1>9. PermitsKept'
  <2>1. IsFiniteSet(fetching) /\ permits + Cardinality(fetching) = MaxFetches
    BY DEF FetchInv, PermitsKept
  <2>2. IsFiniteSet(fetching') /\ Cardinality(fetching') = Cardinality(fetching) + 1
    BY <1>1, <1>7, <2>1, FS_AddElement
  <2>3. Cardinality(fetching) \in Nat
    BY <2>1, FS_CardinalityType
  <2> QED
    BY <1>1, <1>2, <2>1, <2>2, <2>3 DEF PermitsKept
<1>10. AnswersInOrder'
  BY <1>1, SameAnswers
<1>11. \A i, j \in DOMAIN queue' : queue'[i] = queue'[j] => i = j
  BY <1>5, <1>6
<1>12. ToSet(queue') \cap fetching' = {}
  <2> SUFFICES ASSUME NEW i \in DOMAIN queue' PROVE queue'[i] \notin fetching'
    BY DEF ToSet
  <2>1. queue'[i] # t
    BY <1>4, <1>5, <1>6
  <2>2. queue'[i] \in ToSet(queue)
    BY <1>5, RunningTask
  <2> QED
    BY <1>1, <2>1, <2>2 DEF FetchInv, InOnePlace
<1>13. Running' \subseteq Running
  <2>1. ToSet(queue') \subseteq Running
    BY <1>5, RunningTask DEF ToSet
  <2>2. t \in Running
    BY <1>4, RunningTask
  <2> QED
    BY <1>1, <2>1, <2>2 DEF Running
<1>14. \A u \in Running' : call'[u[1]] \in {"episodes", "failed"}
  BY <1>1, <1>13 DEF FetchInv, RunningOwned
<1> QED
  BY <1>1, <1>8, <1>9, <1>10, <1>11, <1>12, <1>13, <1>14, TasksKeep

LEMMA FetchEndsKeeps ==
    ASSUME FetchInv, NEW t \in fetching, FetchEnds(t)
    PROVE  FetchInv'
<1>1. /\ fetching' = fetching \ {t} /\ permits' = permits + Cardinality({t})
      /\ queue' = queue /\ listed' = listed /\ answer' = answer
      /\ \/ results' = results
         \/ results' = [results EXCEPT ![t[1]][t[2]] = listed[t[1]][t[2]]]
      /\ \/ call' = call
         \/ call' = [call EXCEPT ![t[1]] = IF @ = "episodes" THEN "failed" ELSE @]
  BY DEF FetchEnds, FetchComes, FetchFails, Release
<1>2. /\ call \in [Calls -> {"idle"} \cup Pending \cup Ended] /\ permits \in 0..MaxFetches
      /\ fetching \subseteq Calls \X Nat /\ MaxFetches \in Nat
  BY FetchAssumption DEF FetchInv, FetchTypeOK
<1>3. /\ call' \in [Calls -> {"idle"} \cup Pending \cup Ended]
      /\ \A c \in Calls : call'[c] = call[c] \/ (call[c] = "episodes" /\ call'[c] = "failed")
  BY <1>1, <1>2 DEF Pending, Ended
<1>4. PermitsKept' /\ permits' \in 0..MaxFetches
  <2>1. IsFiniteSet(fetching) /\ permits + Cardinality(fetching) = MaxFetches
    BY DEF FetchInv, PermitsKept
  <2>2. IsFiniteSet(fetching') /\ Cardinality(fetching') = Cardinality(fetching) - 1
    BY <1>1, <2>1, FS_RemoveElement
  <2>3. Cardinality({t}) = 1
    BY FS_Singleton
  <2>4. Cardinality(fetching) \in Nat /\ Cardinality(fetching') \in Nat
    BY <2>1, <2>2, FS_CardinalityType
  <2> QED
    BY <1>1, <1>2, <2>1, <2>2, <2>3, <2>4 DEF PermitsKept
<1>5. FetchTypeOK'
  <2>1. queue' \in Seq(Calls \X Nat) /\ listed' \in [Calls -> Seq(Nat)]
        /\ answer' \in [Calls -> Seq(Nat)]
    BY <1>1 DEF FetchInv, FetchTypeOK
  <2>2. fetching' \subseteq Calls \X Nat
    BY <1>1, <1>2
  <2>3. t \in Running
    BY DEF Running
  <2>4. results' \in [Calls -> Seq(Nat \cup {NoPage})]
    BY <1>1, <2>3, TaskReturns DEF FetchInv, FetchTypeOK
  <2> QED
    BY <1>3, <1>4, <2>1, <2>2, <2>4 DEF FetchTypeOK
<1>6. AnswersInOrder'
  <2>1. \A c \in Calls : call'[c] = "answered" => call[c] = "answered"
    BY <1>3
  <2> QED
    BY <1>1, <2>1, SameAnswers
<1>7. /\ \A i, j \in DOMAIN queue' : queue'[i] = queue'[j] => i = j
      /\ ToSet(queue') \cap fetching' = {}
  BY <1>1 DEF FetchInv, InOnePlace
<1>8. Running' \subseteq Running /\ t \in Running \ Running'
  BY <1>1 DEF FetchInv, InOnePlace, Running
<1>9. \/ results' = results
      \/ \E u \in Running \ Running' :
            results' = [results EXCEPT ![u[1]][u[2]] = listed[u[1]][u[2]]]
  BY <1>1, <1>8
<1>10. \A u \in Running' : call'[u[1]] \in {"episodes", "failed"}
  <2> SUFFICES ASSUME NEW u \in Running' PROVE call'[u[1]] \in {"episodes", "failed"}
    OBVIOUS
  <2>1. u \in Running /\ call[u[1]] \in {"episodes", "failed"} /\ u \in TasksOf(u[1])
    BY <1>8 DEF FetchInv, RunningOwned
  <2>2. u[1] \in Calls
    BY <2>1, RunningTyped DEF FetchInv
  <2> QED
    BY <1>1, <1>2, <2>1, <2>2
<1> QED
  BY <1>1, <1>4, <1>5, <1>6, <1>7, <1>8, <1>9, <1>10, TasksKeep

(* When every place holds a result, the results are what the page listed,  *)
(* and no task is left.                                                    *)
LEMMA GatheredKeeps ==
    ASSUME FetchInv, NEW c \in Calls, Gathered(c)
    PROVE  FetchInv'
<1>1. /\ call[c] = "episodes" /\ Returned(c) = DOMAIN results[c]
      /\ call' = [call EXCEPT ![c] = "answered"]
      /\ answer' = [answer EXCEPT ![c] = InOrder(results[c])]
      /\ listed' = listed /\ queue' = queue /\ fetching' = fetching /\ results' = results
      /\ permits' = permits /\ Running' = Running
  BY DEF Gathered, Answer, Running
<1>2. /\ call \in [Calls -> {"idle"} \cup Pending \cup Ended] /\ listed \in [Calls -> Seq(Nat)]
      /\ answer \in [Calls -> Seq(Nat)] /\ results \in [Calls -> Seq(Nat \cup {NoPage})]
  BY DEF FetchInv, FetchTypeOK
<1>3. results[c] = listed[c]
  <2>1. DOMAIN results[c] = DOMAIN listed[c]
    BY DEF FetchInv, ResultsFit
  <2>2. \A i \in DOMAIN listed[c] : results[c][i] = listed[c][i]
    BY <1>1, <2>1 DEF FetchInv, ResultsFit, Returned
  <2>3. /\ results[c] = [i \in DOMAIN results[c] |-> results[c][i]]
        /\ listed[c] = [i \in DOMAIN listed[c] |-> listed[c][i]]
    BY <1>2
  <2> QED
    BY <2>1, <2>2, <2>3
<1>4. FetchTypeOK'
  <2>1. listed[c] \in Seq(Nat)
    BY <1>2
  <2>2. InOrder(results[c]) \in Seq(Nat)
    BY <1>3, <2>1, OrderComplete
  <2> QED
    BY <1>1, <1>2, <2>2 DEF FetchInv, FetchTypeOK, Ended
<1>5. PermitsKept' /\ InOnePlace'
  BY <1>1 DEF FetchInv, PermitsKept, InOnePlace
<1>6. AnswersInOrder'
  <2> SUFFICES ASSUME NEW d \in Calls, call'[d] = "answered"
               PROVE  answer'[d] = InOrder(listed[d])
    BY <1>1 DEF AnswersInOrder
  <2>1. CASE d = c
    BY <1>1, <1>2, <1>3, <2>1
  <2>2. CASE d # c
    BY <1>1, <1>2, <2>2 DEF FetchInv, AnswersInOrder
  <2> QED
    BY <2>1, <2>2
<1>7. \A t \in Running' : call'[t[1]] \in {"episodes", "failed"}
  <2> SUFFICES ASSUME NEW t \in Running PROVE call'[t[1]] \in {"episodes", "failed"}
    BY <1>1
  <2>1. /\ call[t[1]] \in {"episodes", "failed"} /\ t \in TasksOf(t[1]) /\ t[1] \in Calls
        /\ results[t[1]][t[2]] = NoPage
    BY RunningTyped DEF FetchInv, RunningOwned, ResultsFit
  <2>2. t[2] \in DOMAIN results[t[1]]
    BY <2>1 DEF FetchInv, ResultsFit, TasksOf
  <2>3. t[1] # c
    BY <1>1, <2>1, <2>2 DEF Returned
  <2> QED
    BY <1>1, <1>2, <2>1, <2>3
<1> QED
  BY <1>1, <1>4, <1>5, <1>6, <1>7, TasksKeep DEF InOnePlace

LEMMA TimesOutKeeps ==
    ASSUME FetchInv, NEW c \in Calls, TimesOut(c)
    PROVE  FetchInv'
<1> DEFINE kept == {i \in DOMAIN queue : queue[i][1] # c}
           n == Cardinality(kept)
           gone == fetching \cap TasksOf(c)
<1>1. /\ call[c] \in Pending /\ call' = [call EXCEPT ![c] = "timed_out"]
      /\ queue' = [k \in 1..n |-> queue[Ascending(kept)[k]]]
      /\ fetching' = fetching \ gone /\ permits' = permits + Cardinality(gone)
      /\ listed' = listed /\ results' = results /\ answer' = answer
  BY DEF TimesOut, CancelTasks, Release
<1>2. /\ call \in [Calls -> {"idle"} \cup Pending \cup Ended] /\ permits \in 0..MaxFetches
      /\ queue \in Seq(Calls \X Nat) /\ fetching \subseteq Calls \X Nat /\ MaxFetches \in Nat
  BY FetchAssumption DEF FetchInv, FetchTypeOK
<1>3. /\ n \in Nat /\ Ascending(kept) \in Bijection(1..n, kept)
  <2>1. kept \in SUBSET (1..Len(queue)) /\ kept \in SUBSET Int /\ Len(queue) \in Nat
    BY <1>2
  <2>2. IsFiniteSet(1..Len(queue))
    BY <2>1, FS_Interval
  <2>3. IsFiniteSet(kept)
    BY <2>1, <2>2, FS_Subset
  <2> HIDE DEF kept
  <2> QED
    BY <2>1, <2>3, AscendingLists
<1>4. /\ \A k \in 1..n : Ascending(kept)[k] \in kept
      /\ \A k, l \in 1..n : Ascending(kept)[k] = Ascending(kept)[l] => k = l
  BY <1>3 DEF Bijection, Injection, IsInjective
<1>5. /\ DOMAIN queue' = 1..n
      /\ \A k \in 1..n : queue'[k] = queue[Ascending(kept)[k]]
  BY <1>1
<1>6. \A k \in 1..n : /\ Ascending(kept)[k] \in DOMAIN queue
                      /\ queue'[k] \in ToSet(queue) /\ queue'[k][1] # c
  BY <1>4, <1>5, RunningTask
<1>7. queue' \in Seq(Calls \X Nat)
  <2>1. \A k \in 1..n : queue'[k] \in Calls \X Nat
    BY <1>6, RunningTyped DEF FetchInv, Running
  <2>2. queue' = [k \in 1..n |-> queue'[k]]
    BY <1>1
  <2> HIDE DEF n
  <2> QED
    BY <1>3, <2>1, <2>2
<1>8. /\ \A i, j \in DOMAIN queue : queue[i] = queue[j] => i = j
      /\ ToSet(queue) \cap fetching = {}
  BY DEF FetchInv, InOnePlace
<1>9. ToSet(queue') \subseteq ToSet(queue)
  BY <1>5, <1>6 DEF ToSet
<1> HIDE DEF n, kept
<1>10. \A i, j \in DOMAIN queue' : queue'[i] = queue'[j] => i = j
  BY <1>4, <1>5, <1>6, <1>8
<1>11. /\ IsFiniteSet(fetching) /\ IsFiniteSet(gone) /\ IsFiniteSet(fetching')
       /\ permits + Cardinality(fetching) = MaxFetches
       /\ Cardinality(fetching') = Cardinality(fetching) - Cardinality(gone)
       /\ Cardinality(fetching) \in Nat /\ Cardinality(gone) \in Nat
       /\ Cardinality(fetching') \in Nat
  <2>1. IsFiniteSet(fetching) /\ permits + Cardinality(fetching) = MaxFetches
    BY DEF FetchInv, PermitsKept
  <2>2. gone \in SUBSET fetching /\ fetching \ gone \in SUBSET fetching
    OBVIOUS
  <2>3. IsFiniteSet(gone) /\ IsFiniteSet(fetching')
    BY <1>1, <2>1, <2>2, FS_Subset
  <2>4. Cardinality(fetching \ gone) = Cardinality(fetching) - Cardinality(fetching \cap gone)
    BY <2>1, FS_Difference
  <2>5. fetching \cap gone = gone
    OBVIOUS
  <2> HIDE DEF gone
  <2> QED
    BY <1>1, <2>1, <2>3, <2>4, <2>5, FS_CardinalityType
<1>12. PermitsKept' /\ permits' \in 0..MaxFetches
  <2> HIDE DEF gone
  <2> QED
    BY <1>1, <1>2, <1>11 DEF PermitsKept
<1>13. FetchTypeOK'
  <2>1. fetching' \subseteq Calls \X Nat /\ results' \in [Calls -> Seq(Nat \cup {NoPage})]
        /\ listed' \in [Calls -> Seq(Nat)] /\ answer' \in [Calls -> Seq(Nat)]
    BY <1>1 DEF FetchInv, FetchTypeOK
  <2>2. call' \in [Calls -> {"idle"} \cup Pending \cup Ended]
    BY <1>1, <1>2 DEF Ended
  <2> QED
    BY <1>7, <1>12, <2>1, <2>2 DEF FetchTypeOK
<1>14. \A d \in Calls : d # c => call'[d] = call[d]
  BY <1>1, <1>2
<1>15. call'[c] = "timed_out"
  BY <1>1, <1>2
<1>16. AnswersInOrder'
  <2>1. \A d \in Calls : call'[d] = "answered" => call[d] = "answered"
    BY <1>14, <1>15
  <2> QED
    BY <1>1, <2>1, SameAnswers
<1>17. Running' \subseteq Running /\ ToSet(queue') \cap fetching' = {}
  BY <1>1, <1>8, <1>9 DEF Running
<1>18. \A t \in Running' : call'[t[1]] \in {"episodes", "failed"}
  <2> SUFFICES ASSUME NEW t \in Running' PROVE call'[t[1]] \in {"episodes", "failed"}
    OBVIOUS
  <2>1. call[t[1]] \in {"episodes", "failed"} /\ t \in TasksOf(t[1]) /\ t[1] \in Calls
    BY <1>17, RunningTyped DEF FetchInv, RunningOwned
  <2>2. t[1] # c
    BY <1>1, <1>5, <1>6, <2>1 DEF Running, ToSet
  <2> QED
    BY <1>14, <2>1, <2>2
<1> QED
  BY <1>1, <1>10, <1>12, <1>13, <1>16, <1>17, <1>18, TasksKeep

LEMMA FetchesCrashKeeps ==
    ASSUME FetchInv, FetchesCrash
    PROVE  FetchInv'
<1>1. /\ call' = [c \in Calls |-> IF call[c] \in Pending THEN "failed" ELSE call[c]]
      /\ queue' = <<>> /\ fetching' = {} /\ permits' = MaxFetches
      /\ listed' = listed /\ results' = results /\ answer' = answer
  BY DEF FetchesCrash
<1>2. ToSet(queue') = {} /\ Running' = {} /\ DOMAIN queue' = {}
  BY <1>1 DEF ToSet, Running
<1>3. FetchTypeOK'
  BY <1>1, FetchAssumption DEF FetchInv, FetchTypeOK, Pending, Ended
<1>4. PermitsKept'
  BY <1>1, FetchAssumption, FS_EmptySet DEF PermitsKept
<1>5. \A c \in Calls : call'[c] = "answered" => call[c] = "answered"
  BY <1>1
<1>6. AnswersInOrder'
  BY <1>1, <1>5, SameAnswers
<1> QED
  BY <1>1, <1>2, <1>3, <1>4, <1>5, <1>6, TasksKeep

LEMMA FetchInvariance == Spec => []FetchInv
<1>1. FetchInv /\ FetchStep => FetchInv'
  <2> SUFFICES ASSUME FetchInv, FetchStep PROVE FetchInv'
    OBVIOUS
  <2>1. CASE UNCHANGED fetchVars
    <3>1. /\ call' = call /\ listed' = listed /\ queue' = queue /\ fetching' = fetching
          /\ results' = results /\ permits' = permits /\ answer' = answer
      BY <2>1 DEF fetchVars
    <3> QED
      BY <3>1, SameAnswers, TasksKeep DEF FetchInv, FetchTypeOK, RunningOwned, InOnePlace,
                                          PermitsKept, Running
  <2>2. ASSUME NEW c \in Calls, GetEpisodes(c) \/ PageAnswers(c) PROVE FetchInv'
    BY <2>2, CallChangeKeeps, PageComesKeeps DEF GetEpisodes, PageAnswers, PageFails, Pending
  <2>3. ASSUME NEW c \in Calls, Gathered(c) \/ TimesOut(c) PROVE FetchInv'
    BY <2>3, GatheredKeeps, TimesOutKeeps
  <2>4. CASE Acquire
    BY <2>4, AcquireKeeps
  <2>5. ASSUME NEW t \in fetching, FetchEnds(t) PROVE FetchInv'
    BY <2>5, FetchEndsKeeps
  <2>6. CASE FetchesCrash
    BY <2>6, FetchesCrashKeeps
  <2> QED
    BY <2>1, <2>2, <2>3, <2>4, <2>5, <2>6 DEF FetchStep
<1> QED
  BY InitFetchInv, NextFetches, <1>1, PTL DEF Spec

(* A call that ended leaves no task behind, unless it failed, and every    *)
(* permit is held by one fetch or by none.                                 *)
THEOREM NothingLeft == Spec => []NothingLeftBehind
<1>1. FetchInv => NothingLeftBehind
  BY DEF FetchInv, RunningOwned, PermitsKept, NothingLeftBehind, Running
<1> QED
  BY <1>1, FetchInvariance, PTL

(* An answer put together from what the tasks bring has every episode the  *)
(* page lists, in the order of their numbers, whatever overtook what.      *)
THEOREM Complete == Spec => []AnswersComplete
<1>1. FetchInv => AnswersComplete
  <2> SUFFICES ASSUME FetchInv, NEW c \in Calls, call[c] = "answered"
               PROVE  /\ \A i, j \in DOMAIN answer[c] : i <= j => answer[c][i] <= answer[c][j]
                      /\ \A n : Occurrences(answer[c], n) = Occurrences(listed[c], n)
    BY DEF AnswersComplete
  <2>1. answer[c] = InOrder(listed[c])
    BY DEF FetchInv, AnswersInOrder
  <2>2. listed[c] \in Seq(Nat)
    BY DEF FetchInv, FetchTypeOK
  <2> QED
    BY <2>1, <2>2, OrderComplete
<1> QED
  BY <1>1, FetchInvariance, PTL
=============================================================================
