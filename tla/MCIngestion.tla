---------------------------- MODULE MCIngestion ----------------------------
(* Ingestion for TLC.                                                      *)
EXTENDS Ingestion, TLC

CONSTANTS r1, r2, r3, g, h, s1, s2

(* Two episodes, newest first; one that is refused for its number, 0.      *)
MCPages == {<<2, 1>>, <<0>>}

(* r1 and r3 ask for one slug, r1 and r2 for the same genres in opposite   *)
(* orders.                                                                 *)
MCSlugOf == (r1 :> s1) @@ (r2 :> s2) @@ (r3 :> s1)

(* Finished, though the status says airing too; and one that says neither. *)
MCKeywordsOf == (r1 :> {"completed", "ongoing"}) @@ (r2 :> {}) @@ (r3 :> {"ongoing"})

MCGenresOf == (r1 :> <<g, h>>) @@ (r2 :> <<h, g>>) @@ (r3 :> <<g>>)
=============================================================================
