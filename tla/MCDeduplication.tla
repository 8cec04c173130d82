-------------------------- MODULE MCDeduplication --------------------------
(* Deduplication for TLC.                                                  *)
EXTENDS Deduplication

CONSTANTS near, mid, far, high, low

(* near and mid are similar, and far is to mid, but mid not to far.        *)
MCSimilar ==
    {<<a, b>> \in Titles \X Titles : a = b \/ {a, b} = {near, mid} \/ <<a, b>> = <<far, mid>>}

MCPriority == [p \in Contributors |-> IF p = high THEN 10 ELSE 1]

MCResponseTime == [p \in Contributors |-> IF p = high THEN 2 ELSE 1]
============================================================================
