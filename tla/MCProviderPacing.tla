------------------------- MODULE MCProviderPacing -------------------------
(* ProviderPacing for TLC.                                                 *)
EXTENDS ProviderPacing, TLC

Symmetry == Permutations(Dispatches)
===========================================================================
