----------------------------- MODULE MCSession -----------------------------
(* Session with two requests and two instances, from one key to another,   *)
(* by rotations that lose nobody's cookie.                                 *)
EXTENDS Session, TLC

CONSTANTS k1, k2

(* the new key goes before the old one, with every block in one process    *)
Prepend == [lists |-> << <<k1>>, <<k2, k1>>, <<k2>> >>, atOnce |-> TRUE]

(* instances that reload one by one: every one verifies k2 before any signs *)
VerifyFirst == [lists |-> << <<k1>>, <<k1, k2>>, <<k2, k1>>, <<k2>> >>, atOnce |-> FALSE]

SafePlans == {Prepend, VerifyFirst}
ASSUME Supposed == (\A p \in Plans : SafeRotation(p)) /\ Unhurried

Symmetry == Permutations(Requests) \cup Permutations(Instances)
=============================================================================
