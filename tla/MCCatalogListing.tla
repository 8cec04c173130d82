-------------------------- MODULE MCCatalogListing --------------------------
(* CatalogListing for TLC.  Animes of the same status and genres are alike. *)
EXTENDS CatalogListing, TLC

CONSTANTS a1, a2, a3, a4, a5

MCStatusOf == [a \in Animes |-> IF a \in {a4, a5} THEN "completed" ELSE "ongoing"]
MCGenresOf == [a \in Animes |-> IF a = a5 THEN {"drama"} ELSE {"action", "drama"}]

MCFilters ==
    {[status |-> Unset, genre |-> Unset],
     [status |-> "ongoing", genre |-> "action"],
     [status |-> "completed", genre |-> Unset]}

Symmetry == Permutations({a1, a2, a3})
=============================================================================
