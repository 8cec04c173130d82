------------------------ MODULE MCAggregationEngine ------------------------
(* AggregationEngine for TLC.                                              *)
EXTENDS AggregationEngine, TLC

Symmetry == Permutations(Requests)
============================================================================
