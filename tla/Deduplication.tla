--------------------------- MODULE Deduplication ---------------------------
(***************************************************************************)
(* The Deduplication and Ranking Engines on the results of one search:     *)
(* _group_by places one result after another, merge_search_results makes   *)
(* one record of each group, rank_search_results orders the records.       *)
(*                                                                         *)
(* group[i] numbers the group of the i-th result, in the order the groups  *)
(* were opened; 0 while it is not placed.  Grouping takes a step for every *)
(* result, so that what holds after any prefix can be stated and proved.   *)
(***************************************************************************)
EXTENDS Integers

CONSTANTS Contributors, Titles, Types,
          Similar,       \* titles_are_similar, as a set of pairs
          Priority,      \* StreamingProvider.priority of each provider
          ResponseTime,  \* its average_response_time_ms
          Images,        \* which kinds of image address occur
          Length,        \* results in a search
          None

(* SequenceMatcher.ratio is neither symmetric nor transitive, and a title  *)
(* without a single letter of a to z is not even similar to itself.        *)
ASSUME DeduplicationAssumption ==
    /\ Similar \subseteq Titles \X Titles
    /\ Priority \in [Contributors -> Int]
    /\ ResponseTime \in [Contributors -> Nat]
    /\ Images \subseteq {"none", "broken", "valid"}
    /\ Length \in Nat
    /\ None \notin Types

VARIABLES results,  \* what ProviderManager.search returned
          placed,   \* how many of them are in a group
          group,
          opened    \* how many groups there are

groupingVars == <<results, placed, group, opened>>

(* SearchResultDTO; year is chosen as type is, and left out.  image: does  *)
(* normalize_image_url accept the address?                                 *)
Result == [provider : Contributors, title : Titles, type : Types \cup {None},
           image : Images]

Positions == 1..Length

Ungrouped ==
    /\ results \in [Positions -> Result]
    /\ placed = 0
    /\ group = [i \in Positions |-> 0]
    /\ opened = 0

---------------------------------------------------------------------------
(* Grouping.                                                               *)

(* _search_results_match: an unknown type is compatible with any.          *)
Matches(a, b) ==
    /\ a.type = None \/ b.type = None \/ a.type = b.type
    /\ <<a.title, b.title>> \in Similar

(* Wrong variant: what is of another type is not told apart.               *)
CandidatesByTitle(i) ==
    {group[j] : j \in {k \in 1..placed :
                          <<results[i].title, results[k].title>> \in Similar}}

(* Wrong variant: only the result before it is looked at.                  *)
LastCandidate(i) ==
    {group[j] : j \in {k \in 1..placed : k = i - 1 /\ Matches(results[i], results[k])}}

(* Groups with a member that the i-th result matches.                      *)
Candidates(i) ==
    {group[j] : j \in {k \in 1..placed : Matches(results[i], results[k])}}

(* The result joins the first group that will have it, or opens a new one. *)
Join(i, g) ==
    /\ g \in Candidates(i)
    /\ \A h \in Candidates(i) : g <= h
    /\ group' = [group EXCEPT ![i] = g]
    /\ UNCHANGED opened

Open(i) ==
    /\ Candidates(i) = {}
    /\ group' = [group EXCEPT ![i] = opened + 1]
    /\ opened' = opened + 1

Place ==
    /\ placed < Length
    /\ placed' = placed + 1
    /\ Open(placed + 1) \/ \E g \in 1..opened : Join(placed + 1, g)
    /\ UNCHANGED results

Grouping == Ungrouped /\ [][Place]_groupingVars

---------------------------------------------------------------------------
(* Merging: merge_search_results, and the same choices in                  *)
(* merge_normalized_anime.                                                 *)

Members(g) == {i \in 1..placed : group[i] = g}

PriorityOf(i) == Priority[results[i].provider]

(* Wrong variant: one is taken for the highest priority.                   *)
PrimaryLowest(g) ==
    CHOOSE i \in Members(g) :
        \A j \in Members(g) :
            PriorityOf(i) < PriorityOf(j) \/ (PriorityOf(i) = PriorityOf(j) /\ i <= j)

(* max keeps the first of equals.                                          *)
Primary(g) ==
    CHOOSE i \in Members(g) :
        \A j \in Members(g) :
            PriorityOf(i) > PriorityOf(j) \/ (PriorityOf(i) = PriorityOf(j) /\ i <= j)

(* Wrong variant: every later one overwrites it.                           *)
LastOf(S) == IF S = {} THEN None ELSE CHOOSE i \in S : \A j \in S : i >= j

(* next(... for r in group if r.field): the first one that has the field;  *)
(* None if nobody has it.                                                  *)
FirstOf(S) == IF S = {} THEN None ELSE CHOOSE i \in S : \A j \in S : i <= j

Typed(g) == {i \in Members(g) : results[i].type # None}
Pictured(g) == {i \in Members(g) : results[i].image # "none"}

(* Whose title, type and image the merged record has.  The image is        *)
(* validated after it was chosen.                                          *)
TitleFrom(g) == Primary(g)
TypeFrom(g) == FirstOf(Typed(g))
ImageFrom(g) ==
    LET i == FirstOf(Pictured(g))
    IN  IF i = None THEN None ELSE IF results[i].image = "valid" THEN i ELSE None

---------------------------------------------------------------------------
(* Ranking: the key rank_search_results sorts by.  Search results carry no *)
(* rating, so quality is the same for all of them.                         *)

MaxPriority(g) == PriorityOf(Primary(g))

Completeness(g) ==
    (IF TypeFrom(g) # None THEN 1 ELSE 0) + (IF ImageFrom(g) # None THEN 1 ELSE 0)

MinResponseTime(g) ==
    LET times == {ResponseTime[results[i].provider] : i \in Members(g)}
    IN  CHOOSE t \in times : \A u \in times : t <= u

RankKey(g) == <<MaxPriority(g), Completeness(g), MinResponseTime(g)>>

RanksBelow(k, l) ==
    \/ k[1] < l[1]
    \/ k[1] = l[1] /\ k[2] < l[2]
    \/ k[1] = l[1] /\ k[2] = l[2] /\ k[3] > l[3]

---------------------------------------------------------------------------
GroupsOK ==
    /\ results \in [Positions -> Result]
    /\ placed \in 0..Length
    /\ group \in [Positions -> 0..Length]
    /\ opened \in 0..placed
    /\ \A i \in Positions : group[i] = 0 <=> i > placed
    /\ \A i \in Positions : group[i] <= opened

(* Nothing is merged that no chain of matches joins: where the results     *)
(* fall into two parts and none of one part matches any of the other, no   *)
(* record takes from both, whatever similarity is and in whatever order    *)
(* the providers answered (_group_by).  With a result of unknown type, or  *)
(* one whose title is like two that are not alike, there may be a chain,   *)
(* and a record of a film and a series.                                    *)
Unrelated(S, T) ==
    \A i \in S, j \in T : /\ ~Matches(results[i], results[j])
                          /\ ~Matches(results[j], results[i])

PartsStayApart ==
    \A S \in SUBSET Positions :
        Unrelated(S, Positions \ S) =>
            \A i, j \in 1..placed : group[i] = group[j] => (i \in S <=> j \in S)

(* The reference: where matching is an equivalence on the results at hand, *)
(* the groups are its classes, whatever order the providers answered in.   *)
Equivalence ==
    \A i, j, k \in Positions :
        /\ Matches(results[i], results[j]) => Matches(results[j], results[i])
        /\ Matches(results[i], results[j]) /\ Matches(results[j], results[k])
               => Matches(results[i], results[k])

GroupsAreClasses ==
    Equivalence =>
        \A i, j \in 1..placed :
            i # j => (group[i] = group[j] <=> Matches(results[i], results[j]))

(* i is the member of S whose provider's priority is highest.              *)
Preferred(i, S) ==
    IF S = {} THEN i = None
    ELSE i \in S /\ \A j \in S : PriorityOf(i) >= PriorityOf(j)

FieldsFromPreferred ==
    \A g \in 1..opened :
        /\ Preferred(TitleFrom(g), Members(g))
        /\ Preferred(TypeFrom(g), Typed(g))
        /\ ImageFrom(g) # None => Preferred(ImageFrom(g), Pictured(g))

(* Where the results come in descending priority, as a fan-out over the    *)
(* default providers lists them (list_enabled_by_priority, gather), every  *)
(* field is the one of the preferred provider that has it.                 *)
DefaultOrderPrefers ==
    (\A i, j \in Positions : i < j => PriorityOf(i) >= PriorityOf(j))
        => FieldsFromPreferred

(* A further source that comes after the others in the results never makes *)
(* a record rank lower: neither its fields nor its priority or response    *)
(* time can get worse (merge_search_results, rank_search_results).  One    *)
(* that comes before them may: it hides a good image with a broken one.    *)
LaterSourcesNeverHurt ==
    [][\A g \in 1..opened : ~RanksBelow(RankKey(g)', RankKey(g))]_groupingVars

(* docs/architecture.md 17.3: the most complete record is kept, with what  *)
(* only a secondary provider knows; 17.2: a broken address is discarded.   *)
ImageKept ==
    \A g \in 1..opened :
        (\E i \in Members(g) : results[i].image = "valid") => ImageFrom(g) # None
============================================================================
