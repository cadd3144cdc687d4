------------------------- MODULE MCSessionRotation -------------------------
(* Session under the rotation of docs/configuration.md section 10, "Key    *)
(* rotation": the new key goes before the old one, and the old one is      *)
(* dropped after one ttl. Every block is in one process, which is the      *)
(* better case.                                                            *)
EXTENDS Session, TLC

CONSTANTS k1, k2

DocumentedPlans ==
    {[lists |-> << <<k1>>, <<k2, k1>>, <<k2>> >>, atOnce |-> TRUE]}

Symmetry == Permutations(Requests) \cup Permutations(Instances)
=============================================================================
