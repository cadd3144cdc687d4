------------------------------ MODULE Scheduler ------------------------------
(***************************************************************************)
(* The bounded priority queue of adaptiveadmission/queue.go over the       *)
(* Controller of capacity.go: requests that Enqueue and wait for their     *)
(* ticket, the dispatch loop that acquires a unit before it looks at the   *)
(* queue, the requests that release it after dispatch (dispatch.go), Stop, *)
(* and the controller's own adjustment loop, interleaved critical section  *)
(* by critical section.                                                    *)
(*                                                                         *)
(* The dispatch loop is the controller's only acquirer.  The heap is the   *)
(* set of its tickets; HeapScheduler adds the slice container/heap sorts.  *)
(* The rolling mean latency is a value any Release may set.                *)
(***************************************************************************)
EXTENDS SequencesExt

CONSTANTS
  Requests,        (* each is one HTTP request                              *)
  Score,           (* the fairness score each comes with                    *)
  MaxSize,         (* QueueConfig.MaxSize, 0 unbounded                      *)
  WaitTimeout,     (* QueueConfig.WaitTimeout, 0 off                        *)
  Means,           (* bound: the mean latencies the window may show         *)
  Panics,          (* the requests whose next handler panics (external)     *)
  Dispatcher, Nobody,
  kind, InitialConcurrency, MinConcurrency, MaxConcurrency, MaxWaking, TiesDown

ASSUME SchedulerAssumption ==
  /\ IsFiniteSet(Requests) /\ Nobody \notin Requests
  /\ Score \in [Requests -> Nat]
  /\ MaxSize \in Nat /\ WaitTimeout \in Nat
  /\ Means \subseteq Nat \ {0} /\ Means # {}
  /\ Panics \subseteq Requests
  /\ MaxWaking > Cardinality(Requests)   \* so that it never blocks a Release

ASSUME ConfigAssumption ==   \* what buildController validates (Controller)
  /\ kind \in {"fixed", "adaptive"}
  /\ InitialConcurrency \in Nat \ {0}
  /\ MinConcurrency \in Nat \ {0}
  /\ MaxConcurrency \in Nat \ {0}
  /\ MaxWaking \in Nat \ {0}
  /\ TiesDown \subseteq Nat

VARIABLES
  limit, inFlight, acq, waking, sampled, loop, owed, gauge, stopping,
  pc,        (* per request: "new", "projecting" (in Enqueue, holding s.mu), *)
             (* "queued" on its ticket, "running" in dispatch, "waking" (to  *)
             (* Signal after Release), "done", "rejected", "panicked"        *)
  queue,     (* s.pq: tickets [req, seq]                                     *)
  seq,
  mu,        (* who holds s.mu across other steps                            *)
  limitRead, (* what projectedWaitLocked got from Limit()                    *)
  mean,      (* the window's mean latency, 0 if it is empty                  *)
  disp,      (* dispatch loop: "acquire", "pop" (in waitPopHead), "asleep"   *)
             (* (in s.cond.Wait), "grant", "giveback", "lastwake", "exited"  *)
  head,      (* the ticket popped                                            *)
  stopped

C == INSTANCE Controller WITH Acquirers <- {Dispatcher}

controllerVars ==
  <<limit, inFlight, acq, waking, sampled, loop, owed, gauge, stopping>>
queueVars == <<pc, queue, seq, mu, limitRead, mean, disp, head, stopped>>
vars == <<controllerVars, queueVars>>

NoTicket == [req |-> Nobody, seq |-> 0]

Init ==
  /\ C!Init
  /\ pc = [r \in Requests |-> "new"]
  /\ queue = {} /\ seq = 0
  /\ mu = Nobody /\ limitRead = 0 /\ mean = 0
  /\ disp = "acquire" /\ head = NoTicket
  /\ stopped = FALSE

-----------------------------------------------------------------------------
(* Enqueue.  Limit() and MeanLatency() lock the controller one after the   *)
(* other, so the projection may mix values of different moments; with the  *)
(* timeout off neither is called, and what limitRead holds decides nothing.*)
depth == Cardinality(queue)

(* s.cond.Signal with s.mu held: the dispatch loop is the only waiter.     *)
SignalDispatcher == disp' = IF disp = "asleep" THEN "pop" ELSE disp

Reject(r) ==
  /\ pc' = [pc EXCEPT ![r] = "rejected"]
  /\ UNCHANGED <<queue, seq, disp>>

Push_NoSignal(r) ==   \* mutant
  /\ seq' = seq + 1
  /\ queue' = queue \cup {[req |-> r, seq |-> seq + 1]}
  /\ pc' = [pc EXCEPT ![r] = "queued"]
  /\ UNCHANGED disp

Push(r) ==
  /\ seq' = seq + 1
  /\ queue' = queue \cup {[req |-> r, seq |-> seq + 1]}
  /\ pc' = [pc EXCEPT ![r] = "queued"]
  /\ SignalDispatcher

Enqueue(r) ==
  /\ pc[r] = "new" /\ mu = Nobody
  /\ \/ /\ MaxSize > 0 /\ depth >= MaxSize
        /\ Reject(r)
        /\ UNCHANGED <<mu, limitRead>>
     \/ /\ MaxSize > 0 => depth < MaxSize
        /\ pc' = [pc EXCEPT ![r] = "projecting"]
        /\ mu' = r
        /\ limitRead' = limit
        /\ UNCHANGED <<queue, seq, disp>>
  /\ UNCHANGED <<controllerVars, mean, head, stopped>>

projectedWait == (depth * mean) \div limitRead

FinishEnqueue(r) ==
  /\ pc[r] = "projecting"
  /\ IF WaitTimeout > 0 /\ mean > 0 /\ limitRead > 0 /\ projectedWait > WaitTimeout
       THEN Reject(r) ELSE Push(r)
  /\ mu' = Nobody
  /\ limitRead' = 0
  /\ UNCHANGED <<controllerVars, mean, head, stopped>>

-----------------------------------------------------------------------------
(* runDispatchLoop and waitPopHead *)
Acquire ==
  /\ disp = "acquire"
  /\ C!Acquire(Dispatcher)
  /\ disp' = IF inFlight' > inFlight THEN "pop" ELSE "acquire"
  /\ UNCHANGED <<pc, queue, seq, mu, limitRead, mean, head, stopped>>

Less_LastIn(t, u) ==   \* mutant: latest first among equal scores
  \/ Score[t.req] > Score[u.req]
  \/ Score[t.req] = Score[u.req] /\ t.seq > u.seq

(* ticketHeap.Less *)
Less(t, u) ==
  \/ Score[t.req] > Score[u.req]
  \/ Score[t.req] = Score[u.req] /\ t.seq < u.seq

waitPopHead_Peeks ==   \* mutant: the head stays in the heap
  /\ disp = "pop" /\ mu = Nobody
  /\ \/ /\ queue = {}
        /\ disp' = IF stopped THEN "giveback" ELSE "asleep"
        /\ UNCHANGED <<queue, head>>
     \/ \E t \in queue :
          /\ \A u \in queue \ {t} : Less(t, u)
          /\ head' = t
          /\ disp' = "grant"
          /\ UNCHANGED queue
  /\ UNCHANGED <<controllerVars, pc, seq, mu, limitRead, mean, stopped>>

waitPopHead_StopFirst ==   \* mutant: gives up once stopped, whatever is queued
  /\ disp = "pop" /\ mu = Nobody
  /\ \/ /\ stopped
        /\ disp' = "giveback"
        /\ UNCHANGED <<queue, head>>
     \/ /\ queue = {} /\ ~stopped
        /\ disp' = "asleep"
        /\ UNCHANGED <<queue, head>>
     \/ \E t \in queue :
          /\ ~stopped
          /\ \A u \in queue \ {t} : Less(t, u)
          /\ queue' = queue \ {t}
          /\ head' = t
          /\ disp' = "grant"
  /\ UNCHANGED <<controllerVars, pc, seq, mu, limitRead, mean, stopped>>

waitPopHead ==
  /\ disp = "pop" /\ mu = Nobody
  /\ \/ /\ queue = {} /\ ~stopped
        /\ disp' = "asleep"
        /\ UNCHANGED <<queue, head>>
     \/ /\ queue = {} /\ stopped
        /\ disp' = "giveback"
        /\ UNCHANGED <<queue, head>>
     \/ \E t \in queue :
          /\ \A u \in queue \ {t} : Less(t, u)
          /\ queue' = queue \ {t}
          /\ head' = t
          /\ disp' = "grant"
  /\ UNCHANGED <<controllerVars, pc, seq, mu, limitRead, mean, stopped>>

Grant_FreesUnit ==   \* mutant: the loop releases what the request holds
  /\ disp = "grant"
  /\ C!ReleaseUnused
  /\ pc' = [pc EXCEPT ![head.req] = "running"]
  /\ head' = NoTicket
  /\ disp' = "acquire"
  /\ UNCHANGED <<queue, seq, mu, limitRead, mean, stopped>>

Grant ==   \* close(t.granted)
  /\ disp = "grant"
  /\ pc' = [pc EXCEPT ![head.req] = "running"]
  /\ head' = NoTicket
  /\ disp' = "acquire"
  /\ UNCHANGED <<controllerVars, queue, seq, mu, limitRead, mean, stopped>>

GiveBack_KeepsUnit ==   \* mutant: the loop exits with its unit
  /\ disp = "giveback"
  /\ disp' = "exited"
  /\ UNCHANGED <<controllerVars, pc, queue, seq, mu, limitRead, mean, head, stopped>>

GiveBack ==
  /\ disp = "giveback"
  /\ C!ReleaseUnused
  /\ disp' = "lastwake"
  /\ UNCHANGED <<pc, queue, seq, mu, limitRead, mean, head, stopped>>

ExitLoop ==
  /\ disp = "lastwake"
  /\ C!WakeOne
  /\ disp' = "exited"
  /\ UNCHANGED <<pc, queue, seq, mu, limitRead, mean, head, stopped>>

-----------------------------------------------------------------------------
(* dispatch: next returns, Release, its wake(1).  A panic of next unwinds  *)
(* dispatch before Release; net/http recovers it.                          *)
Finish(r) ==
  /\ pc[r] = "running"
  /\ C!Release
  /\ mean' \in Means
  /\ pc' = [pc EXCEPT ![r] = "waking"]
  /\ UNCHANGED <<queue, seq, mu, limitRead, disp, head, stopped>>

WakeAfter(r) ==
  /\ pc[r] = "waking"
  /\ C!WakeOne
  /\ pc' = [pc EXCEPT ![r] = "done"]
  /\ UNCHANGED <<queue, seq, mu, limitRead, mean, disp, head, stopped>>

Panic(r) ==
  /\ r \in Panics /\ pc[r] = "running"
  /\ pc' = [pc EXCEPT ![r] = "panicked"]
  /\ UNCHANGED <<controllerVars, queue, seq, mu, limitRead, mean, disp, head, stopped>>

-----------------------------------------------------------------------------
Stop ==
  /\ ~stopped /\ mu = Nobody
  /\ stopped' = TRUE
  /\ SignalDispatcher
  /\ UNCHANGED <<controllerVars, pc, queue, seq, mu, limitRead, mean, head>>

(* The controller's loop; Cleanup stops it once Scheduler.Stop returned.   *)
ControllerLoop ==
  /\ \/ C!Start \/ (\E b \in C!Branches : C!adjust(b)) \/ C!onLimitChange
     \/ C!WakeDelta \/ C!LoopExit \/ C!StopReturn
     \/ disp = "exited" /\ C!StopCall
  /\ UNCHANGED queueVars

RequestNext(r) ==
  Enqueue(r) \/ FinishEnqueue(r) \/ Finish(r) \/ WakeAfter(r) \/ Panic(r)

DispatchNext == Acquire \/ waitPopHead \/ Grant \/ GiveBack \/ ExitLoop

Next ==
  \/ \E r \in Requests : RequestNext(r)
  \/ DispatchNext \/ Stop \/ ControllerLoop

Spec == Init /\ [][Next]_vars

(* Goroutines are scheduled, s.mu and c.mu are held for straight-line code *)
(* only, and the next handler of an admitted request returns or panics.    *)
(* Requests need not arrive and Stop need not be called.                   *)
Fairness ==
  /\ WF_vars(DispatchNext)
  /\ \A r \in Requests : WF_vars(FinishEnqueue(r))
  /\ \A r \in Requests : WF_vars(Finish(r) \/ WakeAfter(r) \/ Panic(r))
  /\ WF_vars(C!onLimitChange /\ UNCHANGED queueVars)
  /\ WF_vars(C!WakeDelta /\ UNCHANGED queueVars)

FairSpec == Spec /\ Fairness

-----------------------------------------------------------------------------
Running  == {r \in Requests : pc[r] = "running"}
Panicked == {r \in Requests : pc[r] = "panicked"}

(* The dispatch loop holds a unit from Acquire to the grant or give-back.  *)
HoldsUnit == disp \in {"pop", "asleep", "grant", "giveback"}
Lookahead == IF HoldsUnit THEN 1 ELSE 0

TypeOK ==
  /\ C!TypeOK
  /\ pc \in [Requests -> {"new", "projecting", "queued", "running", "waking",
                         "done", "rejected", "panicked"}]
  /\ queue \subseteq [req : Requests, seq : 1..Cardinality(Requests)]
  /\ seq \in 0..Cardinality(Requests)
  /\ mu \in Requests \cup {Nobody}
  /\ limitRead \in Nat
  /\ mean \in Means \cup {0}
  /\ disp \in {"acquire", "pop", "asleep", "grant", "giveback", "lastwake", "exited"}
  /\ head \in [req : Requests \cup {Nobody}, seq : 0..Cardinality(Requests)]
  /\ stopped \in BOOLEAN

(* Conservation of capacity across the goroutine that acquires a unit and  *)
(* the one that releases it: every unit out is the lookahead's, a running  *)
(* request's, or lost to a panic; never released twice, never granted to   *)
(* two.                                                                    *)
UnitsAccounted ==
  inFlight = Cardinality(Running) + Lookahead + Cardinality(Panicked)

(* Every ticket is in exactly one place: a request waits on its ticket iff *)
(* the ticket is queued or the dispatch loop is about to grant it.         *)
TicketsAccounted ==
  /\ {r \in Requests : pc[r] = "queued"}
       = {t.req : t \in queue} \cup (IF disp = "grant" THEN {head.req} ELSE {})
  /\ disp = "grant" => head \notin queue
  /\ \A t, u \in queue : t # u => t.req # u.req /\ t.seq # u.seq

(* The dispatch loop never sleeps on work: s.cond.Signal of Enqueue and of *)
(* Stop is not lost between its test of the queue and its Wait.            *)
SleepsOnlyWhenIdle == disp = "asleep" => queue = {} /\ ~stopped

(* Work conservation: with requests queued and a unit free, the dispatch   *)
(* loop is not parked without a wake-up on its way.                        *)
FreeUnitReachesQueue ==
  (queue # {} /\ inFlight < limit /\ acq[Dispatcher] = "parked")
     => waking + owed > 0

(* Overload protection seen by the backend: the requests in it at a time   *)
(* are at most the largest limit the configuration allows.                 *)
BackendProtected == Cardinality(Running) <= C!Ceiling

(* capacity.go, InFlight: reads "up to 1 higher than genuinely in-flight   *)
(* work"; dispatch.go: every path calls Release exactly once.              *)
AtMostOneAhead == inFlight <= Cardinality(Running) + 1

(* Every ticket queued while the dispatch loop still looks at the queue is *)
(* granted, Stop or not: a pending Stop drains the queue first.            *)
TicketsGranted ==
  \A r \in Requests :
    (pc[r] = "queued" /\ disp \notin {"giveback", "lastwake", "exited"})
       ~> pc[r] = "running"

(* The scheduler implements the abstract line, liveness included.  A       *)
(* ticket's place in it is one more than the tickets pushed before it.     *)
Before(Q, t)   == {u \in Q : u.seq < t.seq}
TicketAt(Q, i) == CHOOSE t \in Q : Cardinality(Before(Q, t)) = i - 1

Line == [i \in 1..depth |-> TicketAt(queue, i).req]

P == INSTANCE PriorityAdmission WITH
       line     <- Line,
       served   <- Running \cup (IF disp = "grant" THEN {head.req} ELSE {}),
       left     <- {r \in Requests : pc[r] \in {"waking", "done", "rejected", "panicked"}},
       closed   <- disp \in {"giveback", "lastwake", "exited"},
       Capacity <- C!Ceiling

ImplementsLine == P!FairSpec
=============================================================================
