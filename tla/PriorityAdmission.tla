-------------------------- MODULE PriorityAdmission --------------------------
(***************************************************************************)
(* What the scheduler of adaptiveadmission/queue.go promises to the        *)
(* requests, without its goroutines, locks and signals: one line, served   *)
(* by score and then by arrival, never more requests being served than     *)
(* there is capacity, nobody refused by an empty line, and a line that     *)
(* only closes when it is empty.                                           *)
(***************************************************************************)
EXTENDS Naturals, FiniteSets, SequencesExt

CONSTANTS
  Requests,
  Score,      (* the fairness score of each request; higher is served first *)
  MaxSize,    (* longest line; 0 for no bound                               *)
  Capacity    (* most requests served at a time                             *)

VARIABLES
  line,     (* the waiting requests in order of arrival *)
  served,
  left,     (* requests refused or finished             *)
  closed

vars == <<line, served, left, closed>>

Init == line = <<>> /\ served = {} /\ left = {} /\ closed = FALSE

Fresh(r) == r \notin Range(line) \cup served \cup left

Arrive(r) ==
  /\ Fresh(r)
  /\ MaxSize > 0 => Len(line) < MaxSize
  /\ line' = Append(line, r)
  /\ UNCHANGED <<served, left, closed>>

Refuse(r) ==
  /\ Fresh(r)
  /\ line # <<>>
  /\ left' = left \cup {r}
  /\ UNCHANGED <<line, served, closed>>

(* The position of the request to serve next. *)
IsNext(i) ==
  \A j \in DOMAIN line \ {i} :
    \/ Score[line[i]] > Score[line[j]]
    \/ Score[line[i]] = Score[line[j]] /\ i < j

Admit ==
  /\ ~closed
  /\ Cardinality(served) < Capacity
  /\ \E i \in DOMAIN line :
       /\ IsNext(i)
       /\ line' = RemoveAt(line, i)
       /\ served' = served \cup {line[i]}
  /\ UNCHANGED <<left, closed>>

Finish(r) ==
  /\ r \in served
  /\ served' = served \ {r}
  /\ left' = left \cup {r}
  /\ UNCHANGED <<line, closed>>

Close ==
  /\ line = <<>>
  /\ closed' = TRUE
  /\ UNCHANGED <<line, served, left>>

Next ==
  \/ \E r \in Requests : Arrive(r) \/ Refuse(r) \/ Finish(r)
  \/ Admit \/ Close

Spec == Init /\ [][Next]_vars

(* Whoever is at the head of an open line is served when there is room. *)
FairSpec == Spec /\ WF_vars(Admit)
=============================================================================
