----------------------------- MODULE MCScheduler -----------------------------
(* Instances of HeapScheduler: requests named by number, two of them with the  *)
(* same score so that both keys of the order decide.                       *)
EXTENDS HeapScheduler, TLC

Scores2 == (1 :> 5) @@ (2 :> 9)
Scores3 == Scores2 @@ (3 :> 5)
Scores4 == Scores3 @@ (4 :> 9)
=============================================================================
