----------------------------- MODULE TicketHeap -----------------------------
(***************************************************************************)
(* The ticket heap of adaptiveadmission/queue.go: ticketHeap's five        *)
(* methods and, as external code, what container/heap does with them.      *)
(* Indices count from 0 as in the program; names that would meet those of  *)
(* Scheduler begin with Heap or end in Ticket.                             *)
(***************************************************************************)
EXTENDS Integers, SequencesExt

CONSTANTS
  Scores,
  MaxPushes   (* bound: tickets pushed in a behaviour *)

ASSUME HeapAssumption == Scores \subseteq Nat /\ MaxPushes \in Nat

VARIABLES
  pq,       (* the slice: tickets [Score, seq] *)
  index,    (* the index field of each ticket, by seq; -1 once popped *)
  lastSeq   (* the last seq given out *)

heapVars == <<pq, index, lastSeq>>

At(h, i) == h[i + 1]

HeapLess_ScoreOnly(h, i, j) == At(h, i).Score > At(h, j).Score   \* mutant

HeapLess(h, i, j) ==
  \/ At(h, i).Score > At(h, j).Score
  \/ At(h, i).Score = At(h, j).Score /\ At(h, i).seq < At(h, j).seq

(* The slice and the index fields together: Swap keeps them in step.       *)
Swap(H, i, j) ==
  [H EXCEPT !.h = [@ EXCEPT ![i + 1] = At(H.h, j), ![j + 1] = At(H.h, i)],
            !.x = [@ EXCEPT ![At(H.h, j).seq] = i, ![At(H.h, i).seq] = j]]

Append1(H, t) ==   \* ticketHeap.Push
  [h |-> Append(H.h, t), x |-> [H.x EXCEPT ![t.seq] = Len(H.h)]]

RemoveLast(H) ==   \* ticketHeap.Pop
  [h |-> Front(H.h), x |-> [H.x EXCEPT ![Last(H.h).seq] = -1]]

(* container/heap: up and down are loops over a place in the slice. A      *)
(* round of one swaps the ticket there with its parent or the better of    *)
(* its children, or finds that the loop ends. The place moves towards one  *)
(* end of the slice, so n rounds are enough for n tickets.                 *)
Parent(k) == (k - 1) \div 2
Moved(S, i, k) == [Swap(S, i, k) EXCEPT !.at = i]

UpRound(S) ==
  IF S.at = 0 \/ ~HeapLess(S.h, S.at, Parent(S.at)) THEN S ELSE Moved(S, Parent(S.at), S.at)

Up(H, j) ==
  LET after[k \in 0..Len(H.h)] ==
        IF k = 0 THEN [h |-> H.h, x |-> H.x, at |-> j] ELSE UpRound(after[k - 1])
  IN  after[Len(H.h)]

Child(h, i, n) ==
  LET left == 2 * i + 1
  IN  IF left + 1 < n /\ HeapLess(h, left + 1, left) THEN left + 1 ELSE left

DownRound(S, n) ==
  LET j == Child(S.h, S.at, n)
  IN  IF 2 * S.at + 1 >= n \/ ~HeapLess(S.h, j, S.at) THEN S ELSE Moved(S, j, S.at)

Down(H, i, n) ==
  LET after[k \in 0..n] ==
        IF k = 0 THEN [h |-> H.h, x |-> H.x, at |-> i] ELSE DownRound(after[k - 1], n)
  IN  after[n]

HeapPush(H, t) == Up(Append1(H, t), Len(H.h))

HeapPop_LastLeaf(H) == H   \* mutant: ticketHeap.Pop called for heap.Pop

HeapPop(H) ==   \* before ticketHeap.Pop takes the last one
  LET n == Len(H.h) - 1 IN Down(Swap(H, 0, n), 0, n)

-----------------------------------------------------------------------------
HeapInit ==
  /\ pq = <<>>
  /\ index = [s \in 1..MaxPushes |-> -1]
  /\ lastSeq = 0

(* Enqueue: s.seq++, a new ticket, heap.Push *)
PushTicket(score) ==
  /\ lastSeq < MaxPushes
  /\ lastSeq' = lastSeq + 1
  /\ LET H == HeapPush([h |-> pq, x |-> index], [Score |-> score, seq |-> lastSeq + 1])
     IN  pq' = H.h /\ index' = H.x

(* waitPopHead: heap.Pop of a non-empty queue *)
PopTicket ==
  /\ pq # <<>>
  /\ LET H == HeapPop([h |-> pq, x |-> index])
     IN  pq' = RemoveLast(H).h /\ index' = RemoveLast(H).x
  /\ UNCHANGED lastSeq

HeapNext == (\E score \in Scores : PushTicket(score)) \/ PopTicket

HeapSpec == HeapInit /\ [][HeapNext]_heapVars

-----------------------------------------------------------------------------
HeapTypeOK ==
  /\ Range(pq) \subseteq [Score : Scores, seq : 1..MaxPushes]
  /\ Len(pq) <= MaxPushes
  /\ index \in [1..MaxPushes -> -1..(MaxPushes - 1)]
  /\ lastSeq \in 0..MaxPushes

Precedes(t, u) == t.Score > u.Score \/ (t.Score = u.Score /\ t.seq < u.seq)

(* A push adds its ticket and loses none; every other step takes out       *)
(* exactly one, which no queued ticket precedes: higher score first, then  *)
(* earlier arrival, over any history of pushes and pops.  This is what     *)
(* Scheduler assumes of the heap where it keeps a set of tickets.          *)
PopsHighest ==
  [][IF lastSeq' # lastSeq
       THEN \E score \in Scores : Range(pq') = Range(pq) \cup {[Score |-> score, seq |-> lastSeq']}
       ELSE \E t \in Range(pq) :
              /\ Range(pq') = Range(pq) \ {t}
              /\ \A u \in Range(pq') : Precedes(t, u)]_heapVars

(* The index field of every queued ticket is its place in the slice, and   *)
(* -1 for every ticket that has left.                                      *)
IndexTracksSlice ==
  \A s \in 1..MaxPushes :
    \/ index[s] = -1 /\ \A t \in Range(pq) : t.seq # s
    \/ index[s] \in 0..(Len(pq) - 1) /\ At(pq, index[s]).seq = s
=============================================================================
