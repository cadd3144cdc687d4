--------------------------- MODULE HeapScheduler ---------------------------
(***************************************************************************)
(* The scheduler with the heap it keeps its tickets in: every step of      *)
(* Scheduler that adds a ticket to the queue is a heap.Push with s.mu held,*)
(* every one that takes a ticket out is a heap.Pop, and no other touches   *)
(* the slice.  Which ticket Scheduler takes and which one the slice yields *)
(* are decided apart, the one by Less and the other by container/heap's    *)
(* loops.                                                                  *)
(***************************************************************************)
EXTENDS Scheduler, TicketHeap

ASSUME HeapSchedulerAssumption ==   \* the heap's bounds leave no request out
  Range(Score) \subseteq Scores /\ MaxPushes = Cardinality(Requests)

HeapFollows ==
  \/ queue' = queue /\ UNCHANGED heapVars
  \/ \E t \in queue' \ queue : PushTicket(Score[t.req])
  \/ queue \ queue' # {} /\ PopTicket

QueueInit == Init /\ HeapInit
QueueNext == Next /\ HeapFollows

QueueSpec == QueueInit /\ [][QueueNext]_<<vars, heapVars>>
FairQueueSpec == QueueSpec /\ Fairness

-----------------------------------------------------------------------------
InHeap(t) == [Score |-> Score[t.req], seq |-> t.seq]

(* The slice holds the queue, ticket for ticket, whatever the order of     *)
(* pushes and pops and of the rejections in between: len(s.pq) is the      *)
(* depth Enqueue bounds and projects from, and what heap.Pop takes out for *)
(* the dispatch loop to grant is the ticket Scheduler takes out, before    *)
(* every other by score and then by arrival.                               *)
HeapHoldsQueue == Len(pq) = depth /\ Range(pq) = {InHeap(t) : t \in queue}
=============================================================================
