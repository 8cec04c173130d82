------------------------- MODULE MCProviderManager -------------------------
(* ProviderManager for TLC.                                                *)
EXTENDS ProviderManager, TLC

CONSTANTS p1

(* p1 is cached, limited to two dispatches a window and tried twice; any   *)
(* other provider is neither cached nor limited and tried once.            *)
MCQuota == [p \in Providers |-> IF p = p1 THEN 2 ELSE Unlimited]

MCMaxAttempts == [p \in Providers |-> IF p = p1 THEN 2 ELSE 1]

Symmetry == Permutations(Requests)
===========================================================================
