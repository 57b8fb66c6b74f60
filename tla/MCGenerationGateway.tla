------------------------- MODULE MCGenerationGateway -------------------------
(* All requests but Other share their adapters; Large needs as much KV as two  *)
(* of the rest, which are alike.                                               *)
EXTENDS GenerationGateway, TLC

CONSTANTS Large, Other

TwoKeys == [r \in Requests |-> IF r = Other THEN 2 ELSE 1]
Needs == [r \in Requests |-> IF r = Large THEN 2 ELSE 1]
EqualRequests == Permutations(Requests \ {Large, Other})
=============================================================================
