--------------------------- MODULE CatalogListing ---------------------------
(***************************************************************************)
(* ListCatalog on SQLAlchemyAnimeRepository.list, while ingestions add to  *)
(* the catalog.  A page is two statements, a count and the rows, and under *)
(* READ COMMITTED each sees what is committed when it runs.  The rows come *)
(* newest first, by created_at, which the entity takes from the clock when *)
(* it is built; it is committed some time later, or never.                 *)
(*                                                                         *)
(* A visitor walks the pages of one filter until one is not full.  No two  *)
(* animes are built in the same microsecond.  Nothing that is wired takes  *)
(* an anime away or changes what a filter looks at.                        *)
(***************************************************************************)
EXTENDS Integers, FiniteSets

CONSTANTS Animes,
          StatusOf, GenresOf,   \* what the filters look at, by anime
          Filters,              \* records [status, genre]
          PageSize,
          Unset                   \* None: no condition

ASSUME ListingAssumption ==
    /\ IsFiniteSet(Animes)
    /\ PageSize \in 1..100
    /\ DOMAIN StatusOf = Animes /\ DOMAIN GenresOf = Animes

VARIABLES clock,       \* counts the animes as they are built
          created,     \* created_at, by anime; 0 where it is not built yet
          committed,   \* animes whose rows are committed
          step,        \* of the visitor: idle, asks, counted, done
          filter, page,
          total,       \* as the last page gave it
          shown,       \* history: how often the walk showed an anime
          before,      \* history: what matched when the walk began
          added        \* history: commits since

walk == <<step, filter, page, total, shown, before, added>>
listingVars == <<clock, created, committed, walk>>

Built == {a \in Animes : created[a] # 0}

Matches(a, f) ==
    /\ f.status \in {Unset, StatusOf[a]}
    /\ f.genre \in {Unset} \cup GenresOf[a]

Matching(f) == {a \in committed : Matches(a, f)}

(* ORDER BY created_at DESC: what comes before a.                          *)
Ahead(a, f) == {b \in Matching(f) : created[b] > created[a]}

(* Wrong variant: as for a page that counts from zero.                     *)
OffsetOfNext(p) == p * PageSize

Offset(p) == (p - 1) * PageSize

(* Wrong variant: one row more, to see whether there is a next page.       *)
RowsAndOne(f, p) ==
    {a \in Matching(f) : Cardinality(Ahead(a, f)) \in Offset(p)..(Offset(p) + PageSize)}

(* OFFSET and LIMIT.                                                       *)
Rows(f, p) ==
    {a \in Matching(f) : Cardinality(Ahead(a, f)) \in Offset(p)..(Offset(p) + PageSize - 1)}

ListingInit ==
    /\ clock = 0
    /\ created = [a \in Animes |-> 0]
    /\ committed = {}
    /\ step = "idle"
    /\ filter = [status |-> Unset, genre |-> Unset]
    /\ page = 1
    /\ total = 0
    /\ shown = [a \in Animes |-> 0]
    /\ before = {}
    /\ added = 0

---------------------------------------------------------------------------
BuildAnime(a) ==
    /\ a \notin Built
    /\ clock' = clock + 1
    /\ created' = [created EXCEPT ![a] = clock']
    /\ UNCHANGED <<committed, walk>>

CommitAnime(a) ==
    /\ a \in Built \ committed
    /\ committed' = committed \cup {a}
    /\ added' = IF step \in {"asks", "counted"} THEN added + 1 ELSE added
    /\ UNCHANGED <<clock, created, step, filter, page, total, shown, before>>

BeginWalk(f) ==
    /\ step \in {"idle", "done"}
    /\ step' = "asks"
    /\ filter' = f
    /\ page' = 1
    /\ total' = 0
    /\ shown' = [a \in Animes |-> 0]
    /\ before' = Matching(f)
    /\ added' = 0
    /\ UNCHANGED <<clock, created, committed>>

CountRows ==
    /\ step = "asks"
    /\ step' = "counted"
    /\ total' = Cardinality(Matching(filter))
    /\ UNCHANGED <<clock, created, committed, filter, page, shown, before, added>>

(* The page is served, and the visitor asks for the next or is done.       *)
ListPage ==
    LET rows == Rows(filter, page)
    IN  /\ step = "counted"
        /\ shown' = [a \in Animes |-> IF a \in rows THEN shown[a] + 1 ELSE shown[a]]
        /\ IF Cardinality(rows) < PageSize
           THEN step' = "done" /\ UNCHANGED page
           ELSE step' = "asks" /\ page' = page + 1
        /\ UNCHANGED <<clock, created, committed, filter, total, before, added>>

ListingNext ==
    \/ \E a \in Animes : BuildAnime(a) \/ CommitAnime(a)
    \/ \E f \in Filters : BeginWalk(f)
    \/ CountRows
    \/ ListPage

ListingSpec == ListingInit /\ [][ListingNext]_listingVars

---------------------------------------------------------------------------
ListingTypeOK ==
    /\ clock \in Nat /\ created \in [Animes -> Nat]
    /\ committed \subseteq Animes
    /\ step \in {"idle", "asks", "counted", "done"}
    /\ page \in Nat \ {0} /\ total \in Nat /\ added \in Nat
    /\ shown \in [Animes -> Nat]
    /\ before \subseteq Animes

(* Pages are cut by offset out of a list that others add to, also in the   *)
(* middle, since animes may be committed in another order than they were   *)
(* built in.  Still a walk misses nothing that was there when it began.    *)
WalkMissesNothing == step = "done" => \A a \in before : shown[a] > 0

(* What others add can only push rows to the next page: a walk shows an    *)
(* anime again at most as often as there were commits meanwhile.           *)
RepeatsAreShifts == \A a \in Animes : shown[a] <= 1 + added

(* What a visitor would rely on who stops where page * page_size reaches   *)
(* total: it fails if an anime is committed between the two statements.    *)
TotalEndsWalk ==
    step = "asks" /\ page > 1 /\ Offset(page) >= total => \A a \in before : shown[a] > 0
=============================================================================
