--------------------------- MODULE SchedulerProofs ---------------------------
(***************************************************************************)
(* Proofs about Scheduler, for every set of requests, every score and      *)
(* every configuration.  What the controller under the queue keeps is      *)
(* taken from ControllerProofs, with the dispatch loop as its only         *)
(* acquirer.  The heap that Scheduler takes for a set is at the end.       *)
(***************************************************************************)
EXTENDS HeapScheduler, FiniteSetTheorems, SequenceTheorems, WellFoundedInduction,
        NaturalsInduction, TLAPS

CP == INSTANCE ControllerProofs WITH Acquirers <- {Dispatcher}

(* The dispatch loop is one acquirer (what ControllerProofs asks of the    *)
(* set of them).                                                           *)
LEMMA ConfigFinite == CP!IsFiniteSet({Dispatcher})
BY FS_Singleton DEF CP!IsFiniteSet, IsFiniteSet

(* Every step of the scheduler is a step of the controller, or leaves it   *)
(* as it is.                                                               *)
LEMMA ControllerStep == [Next]_vars => [CP!Next]_(CP!vars)
<1> SUFFICES ASSUME Next PROVE [CP!Next]_(CP!vars)
  BY DEF vars, controllerVars, CP!vars
<1> USE DEF controllerVars, CP!vars
<1>1. ASSUME NEW r \in Requests, RequestNext(r)
      PROVE  [CP!Next]_(CP!vars)
  <2>1. CASE Enqueue(r) \/ FinishEnqueue(r) \/ Panic(r)
    BY <2>1 DEF Enqueue, FinishEnqueue, Panic
  <2>2. CASE Finish(r)
    BY <2>2 DEF Finish, CP!Next, C!Release, CP!Release, C!FreeUnit,
       CP!FreeUnit, C!loopVars, CP!loopVars
  <2>3. CASE WakeAfter(r)
    BY <2>3 DEF WakeAfter, CP!Next, C!WakeOne, CP!WakeOne, C!loopVars,
       CP!loopVars, C!Signal, CP!Signal, C!Parked, CP!Parked
  <2>4. QED
    BY <1>1, <2>1, <2>2, <2>3 DEF RequestNext
<1>2. ASSUME DispatchNext PROVE [CP!Next]_(CP!vars)
  <2>1. CASE Acquire
    BY <2>1 DEF Acquire, CP!Next, C!Acquire, CP!Acquire, C!loopVars, CP!loopVars
  <2>2. CASE waitPopHead \/ Grant
    BY <2>2 DEF waitPopHead, Grant
  <2>3. CASE GiveBack
    BY <2>3 DEF GiveBack, CP!Next, C!ReleaseUnused, CP!ReleaseUnused,
       C!FreeUnit, CP!FreeUnit, C!loopVars, CP!loopVars
  <2>4. CASE ExitLoop
    BY <2>4 DEF ExitLoop, CP!Next, C!WakeOne, CP!WakeOne, C!loopVars,
       CP!loopVars, C!Signal, CP!Signal, C!Parked, CP!Parked
  <2>5. QED
    BY <1>2, <2>1, <2>2, <2>3, <2>4 DEF DispatchNext
<1>3. CASE Stop
  BY <1>3 DEF Stop
<1>4. ASSUME ControllerLoop PROVE [CP!Next]_(CP!vars)
  <2>1. ASSUME NEW b \in C!Branches, C!adjust(b)
        PROVE  CP!Next
    <3>1. b \in CP!Branches /\ CP!adjust(b)
      BY <2>1 DEF C!adjust, CP!adjust, C!Branches, CP!Branches, C!Branch,
         CP!Branch, C!clampInt, CP!clampInt, C!shrink, CP!shrink, C!grow,
         CP!grow, C!Round, CP!Round, C!timeoutShrinkMultiplier,
         CP!timeoutShrinkMultiplier, C!errorShrinkMultiplier,
         CP!errorShrinkMultiplier, C!p95HardShrinkMultiplier,
         CP!p95HardShrinkMultiplier, C!p95SoftShrinkMultiplier,
         CP!p95SoftShrinkMultiplier, C!growMultiplier, CP!growMultiplier
    <3>2. QED
      BY <3>1 DEF CP!Next, CP!LoopNext
  <2>2. C!Start \/ C!onLimitChange \/ C!LoopExit \/ C!StopCall \/ C!StopReturn
          => CP!Next
    BY DEF CP!Next, CP!LoopNext, C!Start, CP!Start, C!onLimitChange,
       CP!onLimitChange, C!LoopExit, CP!LoopExit, C!StopCall, CP!StopCall,
       C!StopReturn, CP!StopReturn
  <2>3. C!WakeDelta => CP!Next
    BY DEF CP!Next, CP!LoopNext, C!WakeDelta, CP!WakeDelta, C!Signal,
       CP!Signal, C!Parked, CP!Parked
  <2>4. QED
    BY <1>4, <2>1, <2>2, <2>3 DEF ControllerLoop
<1>5. QED
  BY <1>1, <1>2, <1>3, <1>4 DEF Next

(* The controller under the scheduler keeps its invariant.                 *)
LEMMA ControllerKeeps ==
  /\ Init => CP!IInv
  /\ CP!IInv /\ [Next]_vars => CP!IInv'
<1>1. Init => CP!Init
  BY DEF Init, C!Init, CP!Init
<1>2. CP!Init => CP!IInv
  BY CP!InitIInv, ConfigAssumption, ConfigFinite
<1>3. CP!IInv /\ [CP!Next]_(CP!vars) => CP!IInv'
  BY CP!NextIInv, ConfigAssumption, ConfigFinite
<1>4. QED
  BY <1>1, <1>2, <1>3, ControllerStep

(* A ticket number is given to every request pushed, in order.             *)
Pushed == {r \in Requests : pc[r] \notin {"new", "projecting", "rejected"}}

SeqInv ==
  /\ seq = Cardinality(Pushed)
  /\ \A t \in queue : t.seq <= seq

(* While a request computes its projection it holds s.mu, so the queue it  *)
(* has found below MaxSize cannot grow.                                    *)
LockInv ==
  \A r \in Requests :
    pc[r] = "projecting" => mu = r /\ (MaxSize > 0 => depth < MaxSize)

(* The request about to be granted has no second ticket in the queue.      *)
GrantInv == disp = "grant" => \A t \in queue : t.req # head.req

SInv ==
  /\ TypeOK /\ UnitsAccounted /\ TicketsAccounted /\ SleepsOnlyWhenIdle
  /\ SeqInv /\ LockInv /\ GrantInv

(* A set of requests is finite, and no larger than all of them.            *)
LEMMA Finite ==
  \A T \in SUBSET Requests :
    /\ IsFiniteSet(T) /\ Cardinality(T) \in Nat
    /\ Cardinality(T) <= Cardinality(Requests)
BY SchedulerAssumption, FS_Subset, FS_CardinalityType

(* A request that enters or leaves a set of requests counts for one.       *)
LEMMA CountOne ==
  ASSUME NEW S \in SUBSET Requests, NEW T \in SUBSET Requests, NEW r \in Requests
  PROVE  /\ r \notin S /\ T = S \cup {r} => Cardinality(T) = Cardinality(S) + 1
         /\ r \in S /\ T = S \ {r} => Cardinality(T) = Cardinality(S) - 1
BY Finite, FS_AddElement, FS_RemoveElement

(* The parts of the type invariant the proofs below use.                   *)
LEMMA TypeFacts ==
  ASSUME TypeOK
  PROVE  /\ limit \in Nat \ {0} /\ inFlight \in Nat
         /\ pc \in [Requests -> {"new", "projecting", "queued", "running",
                                 "waking", "done", "rejected", "panicked"}]
         /\ queue \subseteq [req : Requests, seq : 1..Cardinality(Requests)]
         /\ seq \in 0..Cardinality(Requests)
         /\ mu \in Requests \cup {Nobody} /\ limitRead \in Nat
         /\ mean \in Means \cup {0}
         /\ disp \in {"acquire", "pop", "asleep", "grant", "giveback",
                      "lastwake", "exited"}
         /\ head \in [req : Requests \cup {Nobody}, seq : 0..Cardinality(Requests)]
         /\ stopped \in BOOLEAN
BY DEF TypeOK, C!TypeOK

(* The scheduler starts with an empty queue.                               *)
LEMMA InitSInv == Init => SInv
<1> SUFFICES ASSUME Init PROVE SInv
  OBVIOUS
<1> USE DEF Init
<1>1. CP!IInv
  BY ControllerKeeps
<1>2. TypeOK
  <2>1. C!TypeOK
    BY <1>1 DEF CP!IInv, CP!TypeOK, C!TypeOK
  <2>3. 0 \in 0..Cardinality(Requests)
    BY Finite
  <2>2. NoTicket \in [req : Requests \cup {Nobody}, seq : 0..Cardinality(Requests)]
    BY <2>3 DEF NoTicket
  <2>4. seq \in 0..Cardinality(Requests)
    BY <2>3
  <2>5. QED
    BY <2>1, <2>2, <2>3, <2>4 DEF TypeOK
<1>3. Running = {} /\ Panicked = {} /\ Pushed = {} /\ Lookahead = 0
  BY DEF Running, Panicked, Pushed, Lookahead, HoldsUnit
<1>4. UnitsAccounted /\ SeqInv
  BY <1>3, FS_EmptySet DEF UnitsAccounted, SeqInv, C!Init
<1>5. TicketsAccounted /\ SleepsOnlyWhenIdle /\ LockInv /\ GrantInv
  BY DEF TicketsAccounted, SleepsOnlyWhenIdle, LockInv, GrantInv
<1>6. QED
  BY <1>2, <1>4, <1>5 DEF SInv

(* A request pushed gets the next number, and there is one left for it.    *)
LEMMA PushKeeps ==
  ASSUME SInv, CP!IInv', NEW r \in Requests, pc[r] \in {"new", "projecting"},
         Push(r), mu' \in {mu, Nobody}, limitRead' \in Nat,
         UNCHANGED <<controllerVars, mean, head, stopped>>,
         mu = Nobody \/ mu = r
  PROVE  SInv'
<1> DEFINE t == [req |-> r, seq |-> seq + 1]
<1>0. /\ seq' = seq + 1 /\ queue' = queue \cup {t}
      /\ pc' = [pc EXCEPT ![r] = "queued"]
      /\ disp' = IF disp = "asleep" THEN "pop" ELSE disp
  BY DEF Push, SignalDispatcher
<1>1. TypeOK
  BY DEF SInv
<1>2. Pushed' = Pushed \cup {r} /\ r \notin Pushed
  BY <1>0, <1>1, TypeFacts DEF Pushed
<1>3. seq' = Cardinality(Pushed') /\ seq' \in 1..Cardinality(Requests)
  <2>1. Pushed' \in SUBSET Requests /\ Pushed \in SUBSET Requests
    BY DEF Pushed
  <2>2. Cardinality(Pushed') = Cardinality(Pushed) + 1
    BY <1>2, <2>1, CountOne
  <2>3. QED
    BY <2>1, <2>2, <1>0, Finite DEF SInv, SeqInv
<1>4. TypeOK'
  <2>1. C!TypeOK'
    BY DEF CP!IInv, CP!TypeOK, C!TypeOK
  <2>2. queue' \subseteq [req : Requests, seq : 1..Cardinality(Requests)]
    BY <1>0, <1>1, <1>3, TypeFacts
  <2>3. QED
    BY <2>1, <2>2, <1>0, <1>1, <1>3, TypeFacts, Finite DEF TypeOK
<1>5. UnitsAccounted'
  <2>1. Running' = Running /\ Panicked' = Panicked /\ Lookahead' = Lookahead
    BY <1>0, <1>1, TypeFacts DEF Running, Panicked, Lookahead, HoldsUnit
  <2>2. QED
    BY <2>1 DEF SInv, UnitsAccounted, controllerVars
<1>6. SeqInv'
  BY <1>0, <1>1, <1>3, TypeFacts DEF SInv, SeqInv
<1>7. TicketsAccounted'
  <2>1. {q \in Requests : pc[q] = "queued"}' = {q \in Requests : pc[q] = "queued"} \cup {r}
    BY <1>0, <1>1, TypeFacts
  <2>2. {u.req : u \in queue'} = {u.req : u \in queue} \cup {t.req}
    BY <1>0
  <2>3. \A u \in queue : u.seq # seq + 1 /\ u.req # r
    BY <1>1, TypeFacts DEF SInv, SeqInv, TicketsAccounted
  <2>4. disp = "grant" => head # t
    BY DEF SInv, TicketsAccounted
  <2>5. QED
    BY <1>0, <2>1, <2>2, <2>3, <2>4 DEF SInv, TicketsAccounted
<1>8. SleepsOnlyWhenIdle'
  BY <1>0 DEF SleepsOnlyWhenIdle
<1>9. LockInv'
  <2>1. \A q \in Requests : pc'[q] = "projecting" => q # r /\ pc[q] = "projecting"
    BY <1>0, <1>1, TypeFacts
  <2>2. \A q \in Requests : pc[q] = "projecting" => q = r
    BY SchedulerAssumption DEF SInv, LockInv
  <2>3. QED
    BY <2>1, <2>2 DEF LockInv
<1>10. GrantInv'
  <2>1. disp = "grant" => head.req # r
    BY DEF SInv, TicketsAccounted
  <2>2. QED
    BY <1>0, <2>1 DEF SInv, GrantInv
<1>11. QED
  BY <1>4, <1>5, <1>6, <1>7, <1>8, <1>9, <1>10 DEF SInv

(* A request refused keeps no ticket.                                      *)
LEMMA RejectKeeps ==
  ASSUME SInv, CP!IInv', NEW r \in Requests, pc[r] \in {"new", "projecting"},
         Reject(r), mu' \in {mu, Nobody}, limitRead' \in Nat,
         UNCHANGED <<controllerVars, mean, head, stopped>>,
         mu = Nobody \/ mu = r
  PROVE  SInv'
<1>0. UNCHANGED <<seq, queue, disp>> /\ pc' = [pc EXCEPT ![r] = "rejected"]
  BY DEF Reject
<1>1. TypeOK
  BY DEF SInv
<1>2. TypeOK'
  <2>1. C!TypeOK'
    BY DEF CP!IInv, CP!TypeOK, C!TypeOK
  <2>2. QED
    BY <2>1, <1>0, <1>1, TypeFacts DEF TypeOK
<1>3. /\ Running' = Running /\ Panicked' = Panicked /\ Lookahead' = Lookahead
      /\ Pushed' = Pushed
      /\ {q \in Requests : pc[q] = "queued"}' = {q \in Requests : pc[q] = "queued"}
  BY <1>0, <1>1, TypeFacts DEF Running, Panicked, Lookahead, HoldsUnit, Pushed
<1>4. UnitsAccounted' /\ SeqInv' /\ TicketsAccounted' /\ SleepsOnlyWhenIdle' /\ GrantInv'
  BY <1>0, <1>3 DEF SInv, UnitsAccounted, SeqInv, TicketsAccounted,
     SleepsOnlyWhenIdle, GrantInv, controllerVars
<1>5. LockInv'
  <2>1. \A q \in Requests : pc'[q] = "projecting" => q # r /\ pc[q] = "projecting"
    BY <1>0, <1>1, TypeFacts
  <2>2. \A q \in Requests : pc[q] = "projecting" => q = r
    BY SchedulerAssumption DEF SInv, LockInv
  <2>3. QED
    BY <2>1, <2>2 DEF LockInv
<1>6. QED
  BY <1>2, <1>4, <1>5 DEF SInv

(* Enqueue keeps the invariant, whether it rejects, or holds s.mu over the *)
(* projection and then rejects or pushes.                                  *)
LEMMA EnqueueKeeps ==
  ASSUME SInv, CP!IInv', NEW r \in Requests, Enqueue(r) \/ FinishEnqueue(r)
  PROVE  SInv'
<1>1. TypeOK
  BY DEF SInv
<1>2. CASE FinishEnqueue(r)
  <2>1. mu = r
    BY <1>2 DEF FinishEnqueue, SInv, LockInv
  <2>2. QED
    BY <1>2, <2>1, PushKeeps, RejectKeeps DEF FinishEnqueue
<1>3. CASE Enqueue(r)
  <2>1. CASE Reject(r) /\ UNCHANGED <<mu, limitRead>>
    BY <1>1, <1>3, <2>1, TypeFacts, RejectKeeps DEF Enqueue
  <2>3. CASE /\ MaxSize > 0 => depth < MaxSize
             /\ pc' = [pc EXCEPT ![r] = "projecting"]
             /\ mu' = r
             /\ limitRead' = limit
             /\ UNCHANGED <<queue, seq, disp>>
    <3>0. pc[r] = "new" /\ mu = Nobody /\ UNCHANGED <<controllerVars, mean, head, stopped>>
      BY <1>3 DEF Enqueue
    <3>1. TypeOK'
      <4>1. C!TypeOK'
        BY DEF CP!IInv, CP!TypeOK, C!TypeOK
      <4>2. QED
        BY <4>1, <3>0, <2>3, <1>1, TypeFacts DEF TypeOK
    <3>2. /\ Running' = Running /\ Panicked' = Panicked /\ Lookahead' = Lookahead
          /\ Pushed' = Pushed
          /\ {q \in Requests : pc[q] = "queued"}' = {q \in Requests : pc[q] = "queued"}
      BY <3>0, <2>3, <1>1, TypeFacts DEF Running, Panicked, Lookahead, HoldsUnit, Pushed
    <3>3. /\ UnitsAccounted' /\ SeqInv' /\ TicketsAccounted'
          /\ SleepsOnlyWhenIdle' /\ GrantInv'
      BY <3>0, <2>3, <3>2 DEF SInv, UnitsAccounted, SeqInv, TicketsAccounted,
         SleepsOnlyWhenIdle, GrantInv, controllerVars
    <3>4. LockInv'
      <4>1. \A q \in Requests : pc'[q] = "projecting" => q = r
        BY <3>0, <2>3, <1>1, TypeFacts, SchedulerAssumption DEF SInv, LockInv
      <4>2. depth' = depth
        BY <2>3 DEF depth
      <4>3. QED
        BY <4>1, <4>2, <2>3 DEF LockInv
    <3>5. QED
      BY <3>1, <3>3, <3>4 DEF SInv
  <2>4. QED
    BY <1>3, <2>1, <2>3 DEF Enqueue
<1>4. QED
  BY <1>2, <1>3

(* The steps of a request that has been granted: it leaves one counted     *)
(* state for another.                                                      *)
LEMMA GrantedKeeps ==
  ASSUME SInv, CP!IInv', NEW r \in Requests, Finish(r) \/ WakeAfter(r) \/ Panic(r)
  PROVE  SInv'
<1>0. /\ UNCHANGED <<queue, seq, mu, limitRead, disp, head, stopped>>
      /\ mean' \in Means \cup {mean}
      /\ pc[r] \in {"running", "waking"}
      /\ \E v \in {"waking", "done", "panicked"} : pc' = [pc EXCEPT ![r] = v]
  BY DEF Finish, WakeAfter, Panic
<1>1. TypeOK
  BY DEF SInv
<1>2. TypeOK'
  <2>1. C!TypeOK'
    BY DEF CP!IInv, CP!TypeOK, C!TypeOK
  <2>2. mean' \in Means \cup {0}
    BY <1>0, <1>1, TypeFacts
  <2>3. QED
    BY <2>1, <2>2, <1>0, <1>1, TypeFacts DEF TypeOK
<1>3. UnitsAccounted'
  <2>1. Running \in SUBSET Requests /\ Panicked \in SUBSET Requests
        /\ Running' \in SUBSET Requests /\ Panicked' \in SUBSET Requests
    BY DEF Running, Panicked
  <2>2. Lookahead' = Lookahead /\ Lookahead \in {0, 1}
    BY <1>0 DEF Lookahead, HoldsUnit
  <2>3. CASE Finish(r)
    <3>1. Running' = Running \ {r} /\ r \in Running /\ Panicked' = Panicked
      BY <2>3, <1>1, TypeFacts DEF Finish, Running, Panicked
    <3>2. Cardinality(Running') = Cardinality(Running) - 1
      BY <3>1, <2>1, CountOne
    <3>3. inFlight' = inFlight - 1
      BY <2>3 DEF Finish, C!Release, C!FreeUnit
    <3>4. QED
      BY <3>1, <3>2, <3>3, <2>1, <2>2, Finite DEF SInv, UnitsAccounted
  <2>4. CASE WakeAfter(r)
    <3>1. Running' = Running /\ Panicked' = Panicked
      BY <2>4, <1>1, TypeFacts DEF WakeAfter, Running, Panicked
    <3>2. inFlight' = inFlight
      BY <2>4 DEF WakeAfter, C!WakeOne
    <3>3. QED
      BY <3>1, <3>2, <2>2 DEF SInv, UnitsAccounted
  <2>5. CASE Panic(r)
    <3>1. /\ Running' = Running \ {r} /\ r \in Running
          /\ Panicked' = Panicked \cup {r} /\ r \notin Panicked
      BY <2>5, <1>1, TypeFacts DEF Panic, Running, Panicked
    <3>2. /\ Cardinality(Running') = Cardinality(Running) - 1
          /\ Cardinality(Panicked') = Cardinality(Panicked) + 1
      BY <3>1, <2>1, CountOne
    <3>3. inFlight' = inFlight
      BY <2>5 DEF Panic, controllerVars
    <3>4. QED
      BY <3>1, <3>2, <3>3, <2>1, <2>2, Finite DEF SInv, UnitsAccounted
  <2>6. QED
    BY <2>3, <2>4, <2>5
<1>4. /\ Pushed' = Pushed
      /\ {q \in Requests : pc[q] = "queued"}' = {q \in Requests : pc[q] = "queued"}
  BY <1>0, <1>1, TypeFacts DEF Pushed
<1>5. SeqInv' /\ TicketsAccounted' /\ SleepsOnlyWhenIdle' /\ GrantInv'
  BY <1>0, <1>4 DEF SInv, SeqInv, TicketsAccounted, SleepsOnlyWhenIdle, GrantInv
<1>6. LockInv'
  BY <1>0, <1>1, TypeFacts DEF SInv, LockInv, depth
<1>7. QED
  BY <1>2, <1>3, <1>5, <1>6 DEF SInv

(* The dispatch loop: the unit it acquires is its lookahead until it is    *)
(* handed to a request or given back.                                      *)
LEMMA DispatchKeeps ==
  ASSUME SInv, CP!IInv', DispatchNext
  PROVE  SInv'
<1>1. TypeOK
  BY DEF SInv
<1>2. C!TypeOK'
  BY DEF CP!IInv, CP!TypeOK, C!TypeOK
<1>3. CASE Acquire \/ GiveBack \/ ExitLoop
  <2>0. /\ UNCHANGED <<pc, queue, seq, mu, limitRead, mean, head, stopped>>
        /\ disp \notin {"asleep", "grant"} /\ disp' \notin {"asleep", "grant"}
        /\ disp' \in {"acquire", "pop", "lastwake", "exited"}
    BY <1>3 DEF Acquire, GiveBack, ExitLoop
  <2>1. TypeOK'
    BY <2>0, <1>1, <1>2, TypeFacts DEF TypeOK
  <2>2. /\ Running' = Running /\ Panicked' = Panicked /\ Pushed' = Pushed
    BY <2>0 DEF Running, Panicked, Pushed
  <2>3. inFlight' - inFlight = Lookahead' - Lookahead
    <3>1. CASE Acquire
      BY <3>1, <1>1, TypeFacts DEF Acquire, C!Acquire, Lookahead, HoldsUnit
    <3>2. CASE GiveBack
      BY <3>2, <1>1, TypeFacts DEF GiveBack, C!ReleaseUnused, C!FreeUnit,
         Lookahead, HoldsUnit
    <3>3. CASE ExitLoop
      BY <3>3, <1>1, TypeFacts DEF ExitLoop, C!WakeOne, Lookahead, HoldsUnit
    <3>4. QED
      BY <1>3, <3>1, <3>2, <3>3
  <2>4. UnitsAccounted'
    <3>1. Running \in SUBSET Requests /\ Panicked \in SUBSET Requests
      BY DEF Running, Panicked
    <3>2. /\ Cardinality(Running) \in Nat /\ Cardinality(Panicked) \in Nat
          /\ Lookahead \in {0, 1} /\ Lookahead' \in {0, 1} /\ inFlight' \in Nat
      BY <3>1, <1>2, Finite DEF Lookahead, C!TypeOK
    <3>3. QED
      BY <2>2, <2>3, <3>2, <1>1, TypeFacts DEF SInv, UnitsAccounted
  <2>5. /\ SeqInv' /\ TicketsAccounted' /\ SleepsOnlyWhenIdle'
        /\ LockInv' /\ GrantInv'
    BY <2>0, <2>2 DEF SInv, SeqInv, TicketsAccounted, SleepsOnlyWhenIdle,
       LockInv, GrantInv, depth
  <2>6. QED
    BY <2>1, <2>4, <2>5 DEF SInv
<1>4. CASE waitPopHead
  <2>0. /\ UNCHANGED <<controllerVars, pc, seq, mu, limitRead, mean, stopped>>
        /\ disp = "pop" /\ mu = Nobody
        /\ \/ /\ queue = {} /\ UNCHANGED <<queue, head>>
              /\ disp' \in {"asleep", "giveback"}
              /\ disp' = "asleep" => ~stopped
           \/ /\ disp' = "grant" /\ head' \in queue
              /\ queue' = queue \ {head'}
    BY <1>4 DEF waitPopHead
  <2>1. TypeOK'
    BY <2>0, <1>1, <1>2, TypeFacts DEF TypeOK
  <2>2. /\ Running' = Running /\ Panicked' = Panicked /\ Pushed' = Pushed
        /\ Lookahead' = Lookahead
    BY <2>0 DEF Running, Panicked, Pushed, Lookahead, HoldsUnit
  <2>3. UnitsAccounted' /\ SeqInv' /\ SleepsOnlyWhenIdle'
    BY <2>0, <2>2 DEF SInv, UnitsAccounted, SeqInv, SleepsOnlyWhenIdle, controllerVars
  <2>4. TicketsAccounted' /\ GrantInv'
    BY <2>0 DEF SInv, TicketsAccounted, GrantInv
  <2>5. LockInv'
    BY <2>0, SchedulerAssumption DEF SInv, LockInv
  <2>6. QED
    BY <2>1, <2>3, <2>4, <2>5 DEF SInv
<1>5. CASE Grant
  <2>0. /\ UNCHANGED <<controllerVars, queue, seq, mu, limitRead, mean, stopped>>
        /\ disp = "grant" /\ disp' = "acquire" /\ head' = NoTicket
        /\ pc' = [pc EXCEPT ![head.req] = "running"]
    BY <1>5 DEF Grant
  <2>1. head.req \in Requests /\ pc[head.req] = "queued"
    BY <2>0 DEF SInv, TicketsAccounted
  <2>2. \A t \in queue : t.req # head.req
    BY <2>0 DEF SInv, GrantInv
  <2>3. TypeOK'
    <3>1. NoTicket \in [req : Requests \cup {Nobody}, seq : 0..Cardinality(Requests)]
      <4>1. 0 \in 0..Cardinality(Requests)
        BY Finite
      <4>2. QED
        BY <4>1 DEF NoTicket
    <3>2. QED
      BY <3>1, <2>0, <2>1, <1>1, <1>2, TypeFacts DEF TypeOK
  <2>4. UnitsAccounted'
    <3>1. /\ Running' = Running \cup {head.req} /\ head.req \notin Running
          /\ Panicked' = Panicked
      BY <2>0, <2>1, <1>1, TypeFacts DEF Running, Panicked
    <3>2. /\ Running \in SUBSET Requests /\ Running' \in SUBSET Requests
          /\ Panicked \in SUBSET Requests
      BY DEF Running, Panicked
    <3>3. Cardinality(Running') = Cardinality(Running) + 1
      BY <2>1, <3>1, <3>2, CountOne
    <3>4. inFlight' = inFlight /\ Lookahead = 1 /\ Lookahead' = 0
      BY <2>0 DEF controllerVars, Lookahead, HoldsUnit
    <3>5. QED
      BY <3>1, <3>2, <3>3, <3>4, Finite DEF SInv, UnitsAccounted
  <2>5. Pushed' = Pushed
    BY <2>0, <2>1, <1>1, TypeFacts DEF Pushed
  <2>6. SeqInv' /\ SleepsOnlyWhenIdle' /\ GrantInv'
    BY <2>0, <2>5 DEF SInv, SeqInv, SleepsOnlyWhenIdle, GrantInv
  <2>7. TicketsAccounted'
    <3>1. {q \in Requests : pc[q] = "queued"}' = {q \in Requests : pc[q] = "queued"} \ {head.req}
      BY <2>0, <2>1, <1>1, TypeFacts
    <3>2. QED
      BY <3>1, <2>0, <2>2 DEF SInv, TicketsAccounted
  <2>8. LockInv'
    BY <2>0, <2>1, <1>1, TypeFacts DEF SInv, LockInv, depth
  <2>9. QED
    BY <2>3, <2>4, <2>6, <2>7, <2>8 DEF SInv
<1>6. QED
  BY <1>3, <1>4, <1>5 DEF DispatchNext

(* Stop signals the dispatch loop; the controller's loop leaves the queue  *)
(* alone.                                                                  *)
LEMMA OthersKeep ==
  ASSUME SInv, CP!IInv', Stop \/ ControllerLoop \/ UNCHANGED vars
  PROVE  SInv'
<1>0. /\ UNCHANGED <<pc, queue, seq, mu, limitRead, mean, head>>
      /\ disp' = disp \/ (disp = "asleep" /\ disp' = "pop")
      /\ \/ stopped' = TRUE /\ disp' # "asleep"
         \/ stopped' = stopped
      /\ inFlight' = inFlight
  <2>1. CASE Stop
    BY <2>1 DEF Stop, SignalDispatcher, controllerVars
  <2>2. CASE ControllerLoop
    BY <2>2 DEF ControllerLoop, queueVars, C!Start, C!adjust, C!onLimitChange,
       C!WakeDelta, C!LoopExit, C!StopReturn, C!StopCall
  <2>3. CASE UNCHANGED vars
    BY <2>3 DEF vars, queueVars, controllerVars
  <2>4. QED
    BY <2>1, <2>2, <2>3
<1>1. TypeOK
  BY DEF SInv
<1>2. TypeOK'
  <2>1. C!TypeOK'
    BY DEF CP!IInv, CP!TypeOK, C!TypeOK
  <2>2. QED
    BY <2>1, <1>0, <1>1, TypeFacts DEF TypeOK
<1>3. /\ Running' = Running /\ Panicked' = Panicked /\ Pushed' = Pushed
      /\ Lookahead' = Lookahead
  BY <1>0 DEF Running, Panicked, Pushed, Lookahead, HoldsUnit
<1>4. UnitsAccounted' /\ SeqInv' /\ TicketsAccounted' /\ LockInv' /\ GrantInv'
  BY <1>0, <1>3 DEF SInv, UnitsAccounted, SeqInv, TicketsAccounted, LockInv,
     GrantInv, depth
<1>5. SleepsOnlyWhenIdle'
  BY <1>0 DEF SInv, SleepsOnlyWhenIdle
<1>6. QED
  BY <1>2, <1>4, <1>5 DEF SInv

(* Every step keeps the invariant, given the controller's.                 *)
LEMMA NextSInv == SInv /\ CP!IInv' /\ [Next]_vars => SInv'
BY EnqueueKeeps, GrantedKeeps, DispatchKeeps, OthersKeep DEF Next, RequestNext

(* The scheduler's invariant and that of the controller under it hold      *)
(* together in every state.                                                *)
THEOREM Invariance == Spec => [](SInv /\ CP!IInv)
<1>1. Init => SInv /\ CP!IInv
  BY InitSInv, ControllerKeeps
<1>2. SInv /\ CP!IInv /\ [Next]_vars => SInv' /\ CP!IInv'
  BY NextSInv, ControllerKeeps
<1>3. QED
  BY <1>1, <1>2, PTL DEF Spec

(* The tickets, the requests and the dispatch loop of queue.go and         *)
(* dispatch.go keep their types.                                           *)
THEOREM TypeCorrect == Spec => []TypeOK
<1>1. SInv => TypeOK
  BY DEF SInv
<1>2. QED
  BY <1>1, Invariance, PTL

(* Every unit out is the lookahead's, a running request's or lost to a     *)
(* panic.                                                                  *)
THEOREM UnitsConserved == Spec => []UnitsAccounted
<1>1. SInv => UnitsAccounted
  BY DEF SInv
<1>2. QED
  BY <1>1, Invariance, PTL

(* Every ticket is in exactly one place.                                   *)
THEOREM TicketsConserved == Spec => []TicketsAccounted
<1>1. SInv => TicketsAccounted
  BY DEF SInv
<1>2. QED
  BY <1>1, Invariance, PTL

(* The dispatch loop never sleeps on a queued request or a pending Stop.   *)
THEOREM NeverSleepsOnWork == Spec => []SleepsOnlyWhenIdle
<1>1. SInv => SleepsOnlyWhenIdle
  BY DEF SInv
<1>2. QED
  BY <1>1, Invariance, PTL

(* The next handler never sees more requests at a time than the largest    *)
(* configured limit: what the controller bounds is units, and no request   *)
(* runs without one.                                                       *)
THEOREM BackendIsProtected == Spec => []BackendProtected
<1>1. ASSUME SInv, CP!IInv PROVE BackendProtected
  <2>1. inFlight <= CP!Ceiling
    BY <1>1 DEF CP!IInv, CP!OverloadBounded
  <2>2. C!Ceiling = CP!Ceiling
    BY DEF C!Ceiling, CP!Ceiling, C!Max, CP!Max
  <2>3. CP!Ceiling \in Nat
    BY CP!CeilingType, ConfigAssumption, ConfigFinite
  <2>4. Running \in SUBSET Requests /\ Panicked \in SUBSET Requests
    BY DEF Running, Panicked
  <2>5. Lookahead \in {0, 1}
    BY DEF Lookahead
  <2>6. QED
    BY <1>1, <2>1, <2>2, <2>3, <2>4, <2>5, Finite
       DEF SInv, UnitsAccounted, BackendProtected
<1>2. QED
  BY <1>1, Invariance, PTL

(* Work conservation: the dispatch loop is not left parked while a unit is *)
(* free and requests wait.                                                 *)
THEOREM FreeUnitIsUsed == Spec => []FreeUnitReachesQueue
<1>1. ASSUME CP!IInv PROVE FreeUnitReachesQueue
  <2>1. SUFFICES ASSUME inFlight < limit, acq[Dispatcher] = "parked"
                 PROVE  waking + owed > 0
    BY DEF FreeUnitReachesQueue
  <2>2. CP!Woken = {} /\ CP!Parked = {Dispatcher}
    BY <2>1 DEF CP!Woken, CP!Parked
  <2>3. CP!Cardinality(CP!Woken) = 0 /\ CP!Cardinality(CP!Parked) = 1
    <3>1. Cardinality({}) = 0 /\ Cardinality({Dispatcher}) = 1
      BY FS_EmptySet, FS_Singleton, Zenon
    <3>2. CP!Cardinality(CP!Woken) = Cardinality(CP!Woken)
          /\ CP!Cardinality(CP!Parked) = Cardinality(CP!Parked)
      BY DEF CP!Cardinality, Cardinality
    <3>3. QED
      BY <2>2, <3>1, <3>2
  <2>4. waking \in Nat /\ owed \in Nat /\ limit \in Nat /\ inFlight \in Nat
    BY <1>1 DEF CP!IInv, CP!TypeOK
  <2>5. CP!Wakeups = waking + owed
    BY <2>3, <2>4 DEF CP!Wakeups
  <2>6. limit - inFlight <= waking + owed \/ 1 <= waking + owed
    BY <1>1, <2>3, <2>5 DEF CP!IInv, CP!NoLostWakeup
  <2>7. QED
    BY <2>1, <2>4, <2>6
<1>2. QED
  BY <1>1, Invariance, PTL

-----------------------------------------------------------------------------
(***************************************************************************)
(* Every behaviour of Scheduler is, through Line, served, left and closed, *)
(* a behaviour of PriorityAdmission: the initial states map to initial     *)
(* states and every step to a step or a stutter.                           *)
(***************************************************************************)

(* A finite set of tickets with numbers of their own.                      *)
Numbered(Q) ==
  /\ IsFiniteSet(Q)
  /\ \A t \in Q : t.seq \in Nat
  /\ \A t, u \in Q : t # u => t.seq # u.seq

Place(Q, t) == Cardinality(Before(Q, t)) + 1

(* The tickets before a ticket are finitely many.                          *)
LEMMA BeforeFinite ==
  ASSUME NEW Q, Numbered(Q), NEW t
  PROVE  IsFiniteSet(Before(Q, t)) /\ Cardinality(Before(Q, t)) \in Nat
BY FS_Subset, FS_CardinalityType DEF Before, Numbered

(* Places follow the order of the numbers.                                 *)
LEMMA PlaceOrder ==
  ASSUME NEW Q, Numbered(Q), NEW t \in Q, NEW u \in Q
  PROVE  t.seq < u.seq <=> Place(Q, t) < Place(Q, u)
<1>1. \A x, y \in Q : x.seq < y.seq => Place(Q, x) < Place(Q, y)
  <2>1. SUFFICES ASSUME NEW x \in Q, NEW y \in Q, x.seq < y.seq
                 PROVE  Place(Q, x) < Place(Q, y)
    OBVIOUS
  <2>2. Before(Q, x) \in SUBSET Before(Q, y)
    BY <2>1 DEF Before, Numbered
  <2>3. x \in Before(Q, y) /\ x \notin Before(Q, x)
    BY <2>1 DEF Before, Numbered
  <2>4. /\ Cardinality(Before(Q, x)) <= Cardinality(Before(Q, y))
        /\ Cardinality(Before(Q, x)) # Cardinality(Before(Q, y))
    BY <2>2, <2>3, BeforeFinite, FS_Subset
  <2>5. Cardinality(Before(Q, x)) \in Nat /\ Cardinality(Before(Q, y)) \in Nat
    BY BeforeFinite
  <2>6. QED
    BY <2>4, <2>5 DEF Place
<1>2. Place(Q, t) \in Nat /\ Place(Q, u) \in Nat /\ t.seq \in Nat /\ u.seq \in Nat
  BY BeforeFinite DEF Place, Numbered
<1>3. t # u => t.seq # u.seq
  BY DEF Numbered
<1>4. CASE t = u
  BY <1>2, <1>4
<1>5. CASE t.seq < u.seq
  BY <1>1, <1>5
<1>6. CASE u.seq < t.seq
  <2>1. Place(Q, u) < Place(Q, t)
    BY <1>1, <1>6
  <2>2. QED
    BY <2>1, <1>2, <1>6
<1>7. QED
  BY <1>2, <1>3, <1>4, <1>5, <1>6

(* Every ticket has a place, and every place has exactly one ticket.       *)
LEMMA PlaceBijection ==
  ASSUME NEW Q, Numbered(Q)
  PROVE  /\ Cardinality(Q) \in Nat
         /\ \A t \in Q : Place(Q, t) \in 1..Cardinality(Q) /\ TicketAt(Q, Place(Q, t)) = t
         /\ \A i \in 1..Cardinality(Q) : TicketAt(Q, i) \in Q /\ Place(Q, TicketAt(Q, i)) = i
<1> DEFINE f == [t \in Q |-> Place(Q, t)]
<1>1. IsFiniteSet(Q) /\ Cardinality(Q) \in Nat
  BY FS_CardinalityType DEF Numbered
<1>2. \A t \in Q : Place(Q, t) \in 1..Cardinality(Q)
  <2>1. SUFFICES ASSUME NEW t \in Q PROVE Place(Q, t) \in 1..Cardinality(Q)
    OBVIOUS
  <2>2. Before(Q, t) \in SUBSET Q /\ t \notin Before(Q, t)
    BY DEF Before, Numbered
  <2>3. /\ Cardinality(Before(Q, t)) <= Cardinality(Q)
        /\ Cardinality(Before(Q, t)) # Cardinality(Q)
    BY <2>2, <1>1, FS_Subset
  <2>4. QED
    BY <2>3, <1>1, BeforeFinite DEF Place
<1>3. f \in Injection(Q, 1..Cardinality(Q))
  <2>1. f \in [Q -> 1..Cardinality(Q)]
    BY <1>2
  <2>2. \A t, u \in Q : f[t] = f[u] => t = u
    <3>1. SUFFICES ASSUME NEW t \in Q, NEW u \in Q, t # u PROVE Place(Q, t) # Place(Q, u)
      OBVIOUS
    <3>2. t.seq < u.seq \/ u.seq < t.seq
      BY <3>1 DEF Numbered
    <3>3. Place(Q, t) \in Nat /\ Place(Q, u) \in Nat
      BY BeforeFinite DEF Place
    <3>4. QED
      BY <3>2, <3>3, PlaceOrder
  <2>3. QED
    BY <2>1, <2>2 DEF Injection, IsInjective
<1>4. f \in Surjection(Q, 1..Cardinality(Q))
  <2>1. IsFiniteSet(1..Cardinality(Q)) /\ Cardinality(1..Cardinality(Q)) = Cardinality(Q)
    BY <1>1, FS_Interval
  <2>2. QED
    BY <2>1, <1>3, FS_Injection
<1>5. \A i \in 1..Cardinality(Q) : \E t \in Q : Place(Q, t) = i
  BY <1>4 DEF Surjection
<1>6. \A t \in Q, i \in Nat : Place(Q, t) = i <=> Cardinality(Before(Q, t)) = i - 1
  BY BeforeFinite DEF Place
<1>7. \A i \in 1..Cardinality(Q) : TicketAt(Q, i) \in Q /\ Place(Q, TicketAt(Q, i)) = i
  <2>1. SUFFICES ASSUME NEW i \in 1..Cardinality(Q)
                 PROVE  TicketAt(Q, i) \in Q /\ Place(Q, TicketAt(Q, i)) = i
    OBVIOUS
  <2>2. \E t \in Q : Cardinality(Before(Q, t)) = i - 1
    BY <1>5, <1>6
  <2>3. TicketAt(Q, i) \in Q /\ Cardinality(Before(Q, TicketAt(Q, i))) = i - 1
    BY <2>2 DEF TicketAt
  <2>4. QED
    BY <2>3, <1>6
<1>8. \A t, u \in Q : Place(Q, t) = Place(Q, u) => t = u
  BY <1>3 DEF Injection, IsInjective
<1>9. QED
  BY <1>1, <1>2, <1>7, <1>8

(* A ticket pushed takes the place after the last.                         *)
LEMMA PlaceAfterPush ==
  ASSUME NEW Q, Numbered(Q), NEW n, n.seq \in Nat, \A t \in Q : t.seq < n.seq
  PROVE  /\ Numbered(Q \cup {n})
         /\ Cardinality(Q \cup {n}) = Cardinality(Q) + 1
         /\ \A i \in 1..Cardinality(Q) : TicketAt(Q \cup {n}, i) = TicketAt(Q, i)
         /\ TicketAt(Q \cup {n}, Cardinality(Q) + 1) = n
<1> DEFINE R == Q \cup {n}
<1>0. n \notin Q
  BY DEF Numbered
<1>1. Numbered(R)
  BY FS_AddElement DEF Numbered
<1>2. Cardinality(R) = Cardinality(Q) + 1
  BY <1>0, FS_AddElement DEF Numbered
<1>3. \A t \in Q : Before(R, t) = Before(Q, t)
  BY DEF Before, Numbered
<1>4. Before(R, n) = Q
  BY DEF Before, Numbered
<1> HIDE DEF R
<1>5. \A i \in 1..Cardinality(Q) : TicketAt(R, i) = TicketAt(Q, i)
  <2>1. SUFFICES ASSUME NEW i \in 1..Cardinality(Q) PROVE TicketAt(R, i) = TicketAt(Q, i)
    OBVIOUS
  <2> DEFINE t == TicketAt(Q, i)
  <2>2. t \in Q /\ Place(Q, t) = i
    BY PlaceBijection
  <2>3. t \in R /\ Place(R, t) = i
    BY <2>2, <1>3 DEF Place, R
  <2>4. QED
    BY <2>3, <1>1, PlaceBijection
<1>6. TicketAt(R, Cardinality(Q) + 1) = n
  <2>1. n \in R /\ Place(R, n) = Cardinality(Q) + 1
    BY <1>4 DEF Place, R
  <2>2. QED
    BY <2>1, <1>1, PlaceBijection
<1>7. QED
  BY <1>1, <1>2, <1>5, <1>6 DEF R

(* Taking a ticket away moves those after it one place up.                 *)
LEMMA PlaceAfterPop ==
  ASSUME NEW Q, Numbered(Q), NEW t \in Q
  PROVE  /\ Numbered(Q \ {t})
         /\ Cardinality(Q \ {t}) = Cardinality(Q) - 1
         /\ \A i \in 1..(Cardinality(Q) - 1) :
              TicketAt(Q \ {t}, i)
                = IF i < Place(Q, t) THEN TicketAt(Q, i) ELSE TicketAt(Q, i + 1)
<1> DEFINE R == Q \ {t}
<1>1. Numbered(R) /\ Cardinality(R) = Cardinality(Q) - 1
  BY FS_RemoveElement DEF Numbered
<1>2. \A u \in R : Place(R, u) = IF u.seq < t.seq THEN Place(Q, u) ELSE Place(Q, u) - 1
  <2>1. SUFFICES ASSUME NEW u \in R
                 PROVE Place(R, u) = IF u.seq < t.seq THEN Place(Q, u) ELSE Place(Q, u) - 1
    OBVIOUS
  <2>2. CASE u.seq < t.seq
    <3>1. Before(R, u) = Before(Q, u)
      BY <2>2 DEF Before, Numbered
    <3>2. QED
      BY <3>1, <2>2 DEF Place
  <2>3. CASE ~(u.seq < t.seq)
    <3>1. u # t /\ u \in Q /\ u.seq \in Nat /\ t.seq \in Nat /\ u.seq # t.seq
      BY DEF Numbered
    <3>2. t \in Before(Q, u)
      BY <2>3, <3>1 DEF Before
    <3>3. Before(R, u) = Before(Q, u) \ {t}
      BY DEF Before
    <3>4. IsFiniteSet(Before(Q, u)) /\ Cardinality(Before(Q, u)) \in Nat
      BY <3>1, BeforeFinite
    <3>5. Cardinality(Before(R, u)) = Cardinality(Before(Q, u)) - 1
      BY <3>2, <3>3, <3>4, FS_RemoveElement
    <3>6. QED
      BY <2>3, <3>4, <3>5 DEF Place
  <2>4. QED
    BY <2>2, <2>3
<1> HIDE DEF R
<1>3. ASSUME NEW i \in 1..(Cardinality(Q) - 1)
      PROVE  TicketAt(R, i) = IF i < Place(Q, t) THEN TicketAt(Q, i) ELSE TicketAt(Q, i + 1)
  <2> DEFINE k == IF i < Place(Q, t) THEN i ELSE i + 1
             u == TicketAt(Q, k)
  <2>1. Cardinality(Q) \in Nat /\ Place(Q, t) \in 1..Cardinality(Q)
    BY PlaceBijection
  <2>2. k \in 1..Cardinality(Q) /\ k # Place(Q, t)
    BY <2>1
  <2>3. u \in Q /\ Place(Q, u) = k
    BY <2>2, PlaceBijection
  <2>4. u \in R
    BY <2>2, <2>3 DEF R
  <2>5. u.seq < t.seq <=> k < Place(Q, t)
    BY <2>3, PlaceOrder
  <2>6. Place(R, u) = i
    BY <2>1, <2>3, <2>4, <2>5, <1>2
  <2>7. TicketAt(R, i) = u
    BY <2>4, <2>6, <1>1, PlaceBijection
  <2>8. QED
    BY <2>7
<1>4. QED
  BY <1>1, <1>3 DEF R

-----------------------------------------------------------------------------
(* The tickets in the queue are numbered, so the line is a sequence of     *)
(* requests, one per ticket.                                               *)
LEMMA QueueNumbered ==
  ASSUME SInv
  PROVE  Numbered(queue)
<1> DEFINE f == [t \in queue |-> t.seq]
           N == 1..Cardinality(Requests)
<1>1. TypeOK
  BY DEF SInv
<1>2. IsFiniteSet(N)
  BY Finite, FS_Interval
<1>3. f \in [queue -> N]
  BY <1>1, TypeFacts
<1>4. f \in Injection(queue, N)
  BY <1>3 DEF SInv, TicketsAccounted, Injection, IsInjective
<1>5. IsFiniteSet(queue)
  BY <1>2, <1>4, FS_Injection
<1>6. \A t \in queue : t.seq \in Nat
  BY <1>1, TypeFacts
<1>7. QED
  BY <1>5, <1>6 DEF SInv, TicketsAccounted, Numbered

LineOf(Q) == [i \in 1..Cardinality(Q) |-> TicketAt(Q, i).req]

(* The line of a queue is a sequence of requests: the ticket of every      *)
(* place, and every ticket in its place.                                   *)
LEMMA LineFacts ==
  ASSUME NEW Q, Numbered(Q), \A t \in Q : t.req \in Requests
  PROVE  /\ Cardinality(Q) \in Nat
         /\ LineOf(Q) \in Seq(Requests) /\ Len(LineOf(Q)) = Cardinality(Q)
         /\ DOMAIN LineOf(Q) = 1..Cardinality(Q)
         /\ \A i \in 1..Cardinality(Q) :
              TicketAt(Q, i) \in Q /\ LineOf(Q)[i] = TicketAt(Q, i).req
         /\ \A t \in Q : /\ LineOf(Q)[Place(Q, t)] = t.req
                         /\ Place(Q, t) \in 1..Cardinality(Q)
         /\ Range(LineOf(Q)) = {t.req : t \in Q}
         /\ Cardinality(Q) = 0 <=> Q = {}
<1> DEFINE depthQ == Cardinality(Q)
           L == LineOf(Q)
<1>1. depthQ \in Nat
  BY PlaceBijection
<1>2. \A i \in 1..depthQ : TicketAt(Q, i) \in Q
  BY PlaceBijection
<1>3. L \in [1..depthQ -> Requests]
  BY <1>2 DEF LineOf
<1>4. L \in Seq(Requests) /\ Len(L) = depthQ
  BY <1>1, <1>3
<1>5. \A t \in Q : L[Place(Q, t)] = t.req /\ Place(Q, t) \in 1..depthQ
  BY PlaceBijection DEF LineOf
<1>6. DOMAIN L = 1..depthQ /\ \A i \in 1..depthQ : L[i] = TicketAt(Q, i).req
  BY DEF LineOf
<1>7. Range(L) = {t.req : t \in Q}
  <2>1. \A x : x \in Range(L) <=> \E i \in 1..depthQ : L[i] = x
    BY <1>6 DEF Range
  <2>2. QED
    BY <2>1, <1>2, <1>5, <1>6
<1>8. depthQ = 0 <=> Q = {}
  BY FS_EmptySet DEF Numbered
<1>9. QED
  BY <1>1, <1>2, <1>4, <1>5, <1>6, <1>7, <1>8

(* Line and depth, before a step and after it, are those of the queue.     *)
LEMMA QueueLine ==
  /\ SInv => Numbered(queue) /\ \A t \in queue : t.req \in Requests
  /\ Line = LineOf(queue) /\ depth = Cardinality(queue)
  /\ Line' = LineOf(queue') /\ depth' = Cardinality(queue')
<1>1. SInv => \A t \in queue : t.req \in Requests
  BY TypeFacts DEF SInv
<1>2. QED
  BY <1>1, QueueNumbered DEF Line, LineOf, depth

(* The queue never holds more tickets than MaxSize, although Enqueue tests *)
(* the bound before it reads the controller twice for the projection, and  *)
(* pushes after.                                                           *)
QueueWithinBound == MaxSize > 0 => depth <= MaxSize

(* A step that pushes has found room, and no other step makes the queue    *)
(* longer.                                                                 *)
LEMMA QueueGrows ==
  ASSUME SInv, [Next]_vars
  PROVE  \/ queue' \subseteq queue
         \/ /\ MaxSize > 0 => depth < MaxSize
            /\ \E t : queue' = queue \cup {t}
<1>1. CASE \E r \in Requests : Enqueue(r) \/ FinishEnqueue(r)
  <2>1. PICK r \in Requests : Enqueue(r) \/ FinishEnqueue(r)
    BY <1>1
  <2>2. CASE UNCHANGED queue
    BY <2>2
  <2>3. CASE Push(r)
    <3>1. MaxSize > 0 => depth < MaxSize
      <4>1. pc[r] = "queued" \/ pc'[r] = "queued"
        BY <2>3, TypeFacts DEF SInv, Push
      <4>2. ~Enqueue(r)
        BY <4>1, TypeFacts DEF SInv, Enqueue, Reject
      <4>3. QED
        BY <2>1, <4>2 DEF FinishEnqueue, SInv, LockInv
    <3>2. queue' = queue \cup {[req |-> r, seq |-> seq + 1]}
      BY <2>3 DEF Push
    <3>3. QED
      BY <3>1, <3>2
  <2>4. UNCHANGED queue \/ Push(r)
    BY <2>1 DEF Enqueue, FinishEnqueue, Reject
  <2>5. QED
    BY <2>2, <2>3, <2>4
<1>2. CASE \E r \in Requests : Finish(r) \/ WakeAfter(r) \/ Panic(r)
  BY <1>2 DEF Finish, WakeAfter, Panic
<1>3. CASE DispatchNext
  BY <1>3 DEF DispatchNext, Acquire, waitPopHead, Grant, GiveBack, ExitLoop
<1>4. CASE Stop \/ ControllerLoop \/ UNCHANGED vars
  BY <1>4 DEF Stop, ControllerLoop, vars, queueVars
<1>5. QED
  BY <1>1, <1>2, <1>3, <1>4 DEF Next, RequestNext

(* The bound of the configuration holds whatever the projection does.      *)
THEOREM QueueIsBounded == Spec => []QueueWithinBound
<1>1. Init => QueueWithinBound
  BY FS_EmptySet, SchedulerAssumption DEF Init, QueueWithinBound, depth
<1>2. ASSUME SInv, QueueWithinBound, [Next]_vars PROVE QueueWithinBound'
  <2>1. IsFiniteSet(queue) /\ depth \in Nat
    BY <1>2, QueueLine, FS_CardinalityType DEF Numbered, depth
  <2>2. MaxSize \in Nat
    BY SchedulerAssumption
  <2>3. CASE queue' \subseteq queue
    <3>1. Cardinality(queue') \in Nat /\ Cardinality(queue') <= depth
      BY <2>1, <2>3, FS_Subset, FS_CardinalityType DEF depth
    <3>2. QED
      BY <1>2, <2>1, <2>2, <3>1 DEF QueueWithinBound, depth
  <2>4. CASE /\ MaxSize > 0 => depth < MaxSize
             /\ \E t : queue' = queue \cup {t}
    <3>1. PICK t : queue' = queue \cup {t}
      BY <2>4
    <3>2. Cardinality(queue') = depth \/ Cardinality(queue') = depth + 1
      BY <2>1, <3>1, FS_AddElement DEF depth
    <3>3. QED
      BY <2>1, <2>2, <2>4, <3>2 DEF QueueWithinBound, depth
  <2>5. QED
    BY <1>2, <2>3, <2>4, QueueGrows
<1>3. QED
  BY <1>1, <1>2, Invariance, PTL DEF Spec

(* The state functions PriorityAdmission's variables stand for.            *)
Served == Running \cup (IF disp = "grant" THEN {head.req} ELSE {})
Left   == {r \in Requests : pc[r] \in {"waking", "done", "rejected", "panicked"}}
Closed == disp \in {"giveback", "lastwake", "exited"}

(* The empty queue is the empty line.                                      *)
LEMMA InitMaps == Init => P!Init
<1> SUFFICES ASSUME Init PROVE P!Init
  OBVIOUS
<1>1. SInv
  BY InitSInv
<1>2. Line = <<>>
  <2>1. Cardinality(queue) = 0
    BY FS_EmptySet DEF Init
  <2>2. Line \in Seq(Requests) /\ Len(Line) = 0
    BY <1>1, <2>1, QueueLine, LineFacts
  <2>3. QED
    BY <2>2, EmptySeq
<1>3. Served = {} /\ Left = {} /\ Closed = FALSE
  BY DEF Init, Served, Left, Closed, Running
<1>4. QED
  BY <1>2, <1>3 DEF P!Init, Served, Left, Closed

(* A request that has not been queued is fresh to the line.                *)
LEMMA FreshMaps ==
  ASSUME SInv, NEW r \in Requests, pc[r] \in {"new", "projecting"}
  PROVE  P!Fresh(r)
<1>1. r \notin Range(Line)
  BY QueueLine, LineFacts DEF SInv, TicketsAccounted
<1>2. r \notin Served /\ r \notin Left
  BY DEF SInv, TicketsAccounted, Served, Left, Running
<1>3. QED
  BY <1>1, <1>2 DEF P!Fresh, Served, Left, P!Range, Range

(* Push is an arrival at the end of the line: its ticket number is higher  *)
(* than every other.                                                       *)
LEMMA PushMaps ==
  ASSUME SInv, SInv', NEW r \in Requests, pc[r] \in {"new", "projecting"},
         MaxSize > 0 => depth < MaxSize, Push(r), head' = head
  PROVE  P!Arrive(r)
<1> DEFINE t == [req |-> r, seq |-> seq + 1]
<1>1. /\ queue' = queue \cup {t} /\ pc' = [pc EXCEPT ![r] = "queued"]
      /\ disp' = IF disp = "asleep" THEN "pop" ELSE disp
  BY DEF Push, SignalDispatcher
<1>2. t.seq \in Nat /\ \A u \in queue : u.seq < t.seq
  BY TypeFacts DEF SInv, SeqInv
<1> HIDE DEF t
<1>3. Numbered(queue) /\ \A u \in queue : u.req \in Requests
  BY QueueLine
<1>4. /\ Numbered(queue') /\ \A u \in queue' : u.req \in Requests
      /\ Cardinality(queue') = depth + 1
      /\ \A i \in 1..depth : TicketAt(queue', i) = TicketAt(queue, i)
      /\ TicketAt(queue', depth + 1) = t
  <2>1. t.req \in Requests
    BY DEF t
  <2>2. QED
    BY <1>1, <1>2, <1>3, <2>1, QueueLine, PlaceAfterPush
<1>5. depth \in Nat /\ Line \in Seq(Requests) /\ Len(Line) = depth
  BY <1>3, QueueLine, LineFacts
<1>6. Line' = Append(Line, r)
  <2>1. Line' \in Seq(Requests) /\ Len(Line') = depth + 1
    BY <1>4, QueueLine, LineFacts
  <2>2. Append(Line, r) \in Seq(Requests) /\ Len(Append(Line, r)) = depth + 1
    BY <1>5, AppendProperties
  <2>3. \A i \in 1..(depth + 1) : Line'[i] = Append(Line, r)[i]
    <3>1. \A i \in 1..(depth + 1) : Line'[i] = TicketAt(queue', i).req
      BY <1>4, QueueLine, LineFacts
    <3>2. \A i \in 1..depth : Append(Line, r)[i] = TicketAt(queue, i).req
      BY <1>3, <1>5, QueueLine, LineFacts, AppendProperties
    <3>3. Append(Line, r)[depth + 1] = r
      BY <1>5, AppendProperties
    <3>4. QED
      BY <3>1, <3>2, <3>3, <1>4, <1>5 DEF t
  <2>4. QED
    BY <2>1, <2>2, <2>3, SeqEqual
<1>7. Served' = Served /\ Left' = Left /\ Closed' = Closed
  BY <1>1, TypeFacts DEF SInv, Served, Left, Closed, Running
<1>8. QED
  BY <1>5, <1>6, <1>7, FreshMaps DEF P!Arrive, Served, Left, Closed

(* A rejection with a queue in front is a refusal.                         *)
LEMMA RejectMaps ==
  ASSUME SInv, NEW r \in Requests, pc[r] \in {"new", "projecting"},
         queue # {}, Reject(r), head' = head
  PROVE  P!Refuse(r)
<1>1. UNCHANGED <<queue, disp>> /\ pc' = [pc EXCEPT ![r] = "rejected"]
  BY DEF Reject
<1>2. Line # <<>>
  <2>1. Len(Line) # 0
    BY QueueLine, LineFacts
  <2>2. QED
    BY <2>1, EmptySeq
<1>3. Line' = Line
  BY <1>1, QueueLine
<1>4. Served' = Served /\ Left' = Left \cup {r} /\ Closed' = Closed
  BY <1>1, TypeFacts DEF SInv, Served, Left, Closed, Running
<1>5. QED
  BY <1>2, <1>3, <1>4, FreshMaps DEF P!Refuse, Served, Left, Closed

(* A projection above the timeout is only possible behind other requests.  *)
LEMMA ProjectionNeedsQueue ==
  ASSUME SInv, limitRead > 0, projectedWait > WaitTimeout
  PROVE  queue # {}
<1>1. SUFFICES ASSUME queue = {} PROVE FALSE
  OBVIOUS
<1>2. depth = 0 /\ mean \in Nat /\ limitRead \in Nat /\ WaitTimeout \in Nat
  <2>1. depth = 0
    BY <1>1, FS_EmptySet DEF depth
  <2>2. mean \in Means \cup {0} /\ limitRead \in Nat
    BY TypeFacts DEF SInv
  <2>3. QED
    BY <2>1, <2>2, SchedulerAssumption
<1>3. depth * mean = 0
  BY <1>2
<1>4. 0 \div limitRead = 0
  BY <1>2
<1>5. QED
  BY <1>2, <1>3, <1>4 DEF projectedWait

(* Enqueue up to its projection is a refusal or a stutter, and what is     *)
(* left of it an arrival or a refusal.                                     *)
LEMMA EnqueueMaps ==
  ASSUME SInv, SInv', NEW r \in Requests, Enqueue(r) \/ FinishEnqueue(r)
  PROVE  [P!Next]_(P!vars)
<1>1. CASE Enqueue(r)
  <2>0. pc[r] = "new" /\ head' = head
    BY <1>1 DEF Enqueue
  <2>1. CASE MaxSize > 0 /\ depth >= MaxSize /\ Reject(r)
    <3>1. depth # 0
      BY <2>1, SchedulerAssumption, QueueLine, LineFacts
    <3>2. queue # {}
      BY <3>1, FS_EmptySet DEF depth
    <3>3. QED
      BY <2>0, <2>1, <3>2, RejectMaps DEF P!Next
  <2>3. CASE /\ pc' = [pc EXCEPT ![r] = "projecting"]
             /\ UNCHANGED <<queue, seq, disp>>
    <3>1. Line' = Line
      BY <2>3, QueueLine
    <3>2. Served' = Served /\ Left' = Left /\ Closed' = Closed
      BY <2>0, <2>3, TypeFacts DEF SInv, Served, Left, Closed, Running
    <3>3. QED
      BY <3>1, <3>2 DEF P!vars, Served, Left, Closed
  <2>4. QED
    BY <1>1, <2>1, <2>3 DEF Enqueue
<1>2. CASE FinishEnqueue(r)
  <2>0. pc[r] = "projecting" /\ head' = head
    BY <1>2 DEF FinishEnqueue
  <2>1. CASE limitRead > 0 /\ projectedWait > WaitTimeout /\ Reject(r)
    BY <2>0, <2>1, ProjectionNeedsQueue, RejectMaps DEF P!Next
  <2>2. CASE Push(r)
    BY <2>0, <2>2, PushMaps DEF P!Next, SInv, LockInv
  <2>3. QED
    BY <1>2, <2>1, <2>2 DEF FinishEnqueue
<1>3. QED
  BY <1>1, <1>2

(* A request that returns from the next handler or panics in it finishes;  *)
(* its Signal is not seen.                                                 *)
LEMMA GrantedMaps ==
  ASSUME SInv, NEW r \in Requests, Finish(r) \/ WakeAfter(r) \/ Panic(r)
  PROVE  [P!Next]_(P!vars)
<1>1. UNCHANGED <<queue, disp, head>>
  BY DEF Finish, WakeAfter, Panic
<1>2. Line' = Line /\ Closed' = Closed
  BY <1>1, QueueLine DEF Closed
<1>3. CASE Finish(r) \/ Panic(r)
  <2>1. /\ pc[r] = "running"
        /\ pc' = [pc EXCEPT ![r] = "waking"] \/ pc' = [pc EXCEPT ![r] = "panicked"]
    BY <1>3 DEF Finish, Panic
  <2>2. r \in Served /\ (disp = "grant" => head.req # r)
    BY <2>1 DEF Served, Running, SInv, TicketsAccounted
  <2>3. Served' = Served \ {r} /\ Left' = Left \cup {r}
    BY <1>1, <2>1, <2>2, TypeFacts DEF SInv, Served, Left, Running
  <2>4. P!Finish(r)
    BY <1>2, <2>2, <2>3 DEF P!Finish, Served, Left, Closed
  <2>5. QED
    BY <2>4 DEF P!Next
<1>4. CASE WakeAfter(r)
  <2>1. Served' = Served /\ Left' = Left
    BY <1>1, <1>4, TypeFacts DEF SInv, Served, Left, Running, WakeAfter
  <2>2. QED
    BY <1>2, <2>1 DEF P!vars, Served, Left, Closed
<1>5. QED
  BY <1>3, <1>4

(* Popping the head admits the request IsNext picks, and there is room for *)
(* it: the unit the loop holds is not a running request's.                 *)
LEMMA PopMaps ==
  ASSUME SInv, SInv', CP!IInv, disp = "pop", disp' = "grant", NEW t \in queue,
         \A u \in queue \ {t} : Less(t, u), queue' = queue \ {t}, head' = t,
         UNCHANGED <<controllerVars, pc, seq, mu, limitRead, mean, stopped>>
  PROVE  P!Admit
<1> DEFINE k == Place(queue, t)
<1>1. Numbered(queue) /\ \A u \in queue : u.req \in Requests
  BY QueueLine
<1>2. depth \in Nat /\ depth = Cardinality(queue) /\ k \in 1..depth /\ Line[k] = t.req
  BY <1>1, QueueLine, LineFacts
<1>3. P!Cardinality(Served) < C!Ceiling
  <2>1. Served = Running
    BY DEF Served
  <2>2. inFlight <= CP!Ceiling
    BY DEF CP!IInv, CP!OverloadBounded
  <2>3. C!Ceiling = CP!Ceiling
    BY DEF C!Ceiling, CP!Ceiling, C!Max, CP!Max
  <2>4. CP!Ceiling \in Nat
    BY CP!CeilingType, ConfigAssumption, ConfigFinite
  <2>5. /\ Cardinality(Running) \in Nat /\ Cardinality(Panicked) \in Nat
    BY Finite DEF Running, Panicked
  <2>6. Lookahead = 1
    BY DEF Lookahead, HoldsUnit
  <2>7. Cardinality(Running) < C!Ceiling
    BY <2>2, <2>3, <2>4, <2>5, <2>6 DEF SInv, UnitsAccounted
  <2>8. QED
    BY <2>1, <2>7 DEF P!Cardinality, Cardinality
<1>4. P!IsNext(k)
  <2>1. SUFFICES ASSUME NEW j \in 1..depth, j # k
                 PROVE  \/ Score[Line[k]] > Score[Line[j]]
                        \/ Score[Line[k]] = Score[Line[j]] /\ k < j
    <3>1. DOMAIN Line = 1..depth
      BY <1>1, QueueLine, LineFacts
    <3>2. QED
      BY <3>1 DEF P!IsNext
  <2> DEFINE u == TicketAt(queue, j)
  <2>2. u \in queue /\ Place(queue, u) = j /\ Line[j] = u.req
    BY <1>1, <1>2, QueueLine, LineFacts, PlaceBijection
  <2>3. Less(t, u)
    BY <2>1, <2>2
  <2>4. t.seq < u.seq => k < j
    BY <1>1, <2>2, PlaceOrder
  <2>5. QED
    BY <1>2, <2>2, <2>3, <2>4 DEF Less
<1>5. Line' = P!RemoveAt(Line, k)
  <2>0. Line \in Seq(Requests) /\ Len(Line) = depth
    BY <1>1, QueueLine, LineFacts
  <2>1. Numbered(queue') /\ Cardinality(queue') = depth - 1
    BY <1>1, <1>2, PlaceAfterPop
  <2>2. Line' \in Seq(Requests) /\ Len(Line') = depth - 1
    BY <1>1, <2>1, QueueLine, LineFacts
  <2>3. \A i \in 1..(depth - 1) : Line'[i] = IF i < k THEN Line[i] ELSE Line[i + 1]
    <3>1. \A i \in 1..(depth - 1) : Line'[i] = TicketAt(queue', i).req
      BY <1>1, <2>1, QueueLine, LineFacts
    <3>2. \A i \in 1..(depth - 1) : 
             TicketAt(queue', i) = IF i < k THEN TicketAt(queue, i) ELSE TicketAt(queue, i + 1)
      BY <1>1, <1>2, PlaceAfterPop
    <3>3. \A i \in 1..depth : Line[i] = TicketAt(queue, i).req
      BY <1>1, <1>2, QueueLine, LineFacts
    <3>4. ASSUME NEW i \in 1..(depth - 1)
          PROVE  Line'[i] = IF i < k THEN Line[i] ELSE Line[i + 1]
      <4>1. i \in 1..depth /\ i + 1 \in 1..depth
        BY <1>2
      <4>2. Line[i] = TicketAt(queue, i).req /\ Line[i + 1] = TicketAt(queue, i + 1).req
        BY <3>3, <4>1
      <4>3. CASE i < k
        BY <3>1, <3>2, <4>2, <4>3
      <4>4. CASE ~(i < k)
        BY <3>1, <3>2, <4>2, <4>4
      <4>5. QED
        BY <4>3, <4>4
    <3>5. QED
      BY <3>4
  <2> DEFINE a == SubSeq(Line, 1, k - 1)
             b == SubSeq(Line, k + 1, depth)
  <2>4. /\ a \in Seq(Requests) /\ Len(a) = k - 1
        /\ \A i \in 1..(k - 1) : a[i] = Line[i]
        /\ b \in Seq(Requests) /\ Len(b) = depth - k
        /\ \A i \in 1..(depth - k) : b[i] = Line[k + i]
    <3>1. \A i \in 1..depth : Line[i] \in Requests
      BY <2>0, ElementOfSeq
    <3>2. /\ a \in Seq(Requests) /\ Len(a) = k - 1
          /\ \A i \in 1..(k - 1) : a[i] = Line[i]
      BY <1>2, <3>1, SubSeqProperties
    <3>3. /\ b \in Seq(Requests) /\ Len(b) = depth - k
          /\ \A i \in 1..(depth - k) : b[i] = Line[k + i]
      BY <1>2, <3>1, SubSeqProperties
    <3>4. QED
      BY <3>2, <3>3
  <2> HIDE DEF a, b
  <2>5. /\ a \o b \in Seq(Requests) /\ Len(a \o b) = depth - 1
        /\ \A i \in 1..(depth - 1) : (a \o b)[i] = IF i < k THEN Line[i] ELSE Line[i + 1]
    <3>1. /\ a \o b \in Seq(Requests) /\ Len(a \o b) = Len(a) + Len(b)
          /\ \A i \in 1..(Len(a) + Len(b)) :
               (a \o b)[i] = IF i <= Len(a) THEN a[i] ELSE b[i - Len(a)]
      BY <2>4, ConcatProperties
    <3>2. k \in Nat /\ depth \in Nat /\ k >= 1 /\ k <= depth
      BY <1>2
    <3>3. Len(a) + Len(b) = depth - 1 /\ Len(a) = k - 1
      BY <2>4, <3>2
    <3>4. ASSUME NEW i \in 1..(depth - 1)
          PROVE  (a \o b)[i] = IF i < k THEN Line[i] ELSE Line[i + 1]
      <4>1. (a \o b)[i] = IF i <= k - 1 THEN a[i] ELSE b[i - (k - 1)]
        BY <3>1, <3>3
      <4>2. CASE i < k
        <5>1. i \in 1..(k - 1) /\ i <= k - 1
          BY <3>2, <4>2
        <5>2. a[i] = Line[i]
          BY <2>4, <5>1
        <5>3. QED
          BY <4>1, <4>2, <5>1, <5>2
      <4>3. CASE ~(i < k)
        <5>1. i - (k - 1) \in 1..(depth - k) /\ ~(i <= k - 1) /\ k + (i - (k - 1)) = i + 1
          BY <3>2, <4>3
        <5>2. b[i - (k - 1)] = Line[k + (i - (k - 1))]
          BY <2>4, <5>1
        <5>3. QED
          BY <4>1, <4>3, <5>1, <5>2
      <4>4. QED
        BY <4>2, <4>3
    <3>5. QED
      BY <3>1, <3>3, <3>4
  <2>6. Line' = a \o b
    BY <1>2, <2>2, <2>3, <2>5, SeqEqual
  <2>7. QED
    BY <2>0, <2>6 DEF P!RemoveAt, a, b
<1>6. Served' = Served \cup {Line[k]} /\ Left' = Left /\ Closed' = Closed /\ ~Closed
  BY <1>2 DEF Served, Left, Closed, Running
<1>7. k \in DOMAIN Line
  BY <1>1, <1>2, QueueLine, LineFacts
<1>8. QED
  BY <1>3, <1>4, <1>5, <1>6, <1>7 DEF P!Admit, Served, Left, Closed

(* A step of the dispatch loop serves the first of the best, closes the    *)
(* line, or stutters.                                                      *)
LEMMA DispatchMaps ==
  ASSUME SInv, SInv', CP!IInv, DispatchNext
  PROVE  [P!Next]_(P!vars)
<1>1. CASE Acquire \/ GiveBack \/ ExitLoop
  <2>1. /\ UNCHANGED <<pc, queue, head>> /\ disp # "grant" /\ disp' # "grant"
        /\ Closed' = Closed
    BY <1>1 DEF Acquire, GiveBack, ExitLoop, Closed
  <2>2. Line' = Line /\ Served' = Served /\ Left' = Left
    BY <2>1, QueueLine DEF Served, Left, Running
  <2>3. QED
    BY <2>1, <2>2 DEF P!vars, Served, Left, Closed
<1>2. CASE Grant
  <2>1. /\ UNCHANGED queue /\ disp = "grant" /\ disp' = "acquire"
        /\ pc' = [pc EXCEPT ![head.req] = "running"]
    BY <1>2 DEF Grant
  <2>2. head.req \in Requests /\ pc[head.req] = "queued"
    BY <2>1 DEF SInv, TicketsAccounted
  <2>3. Line' = Line /\ Closed' = Closed
    BY <2>1, QueueLine DEF Closed
  <2>4. Served' = Served /\ Left' = Left
    BY <2>1, <2>2, TypeFacts DEF SInv, Served, Left, Running
  <2>5. QED
    BY <2>3, <2>4 DEF P!vars, Served, Left, Closed
<1>3. CASE waitPopHead
  <2>0. /\ UNCHANGED <<controllerVars, pc, seq, mu, limitRead, mean, stopped>>
        /\ disp = "pop"
    BY <1>3 DEF waitPopHead
  <2>1. CASE disp' = "asleep" /\ UNCHANGED queue
    <3>1. Line' = Line /\ Served' = Served /\ Left' = Left /\ Closed' = Closed
      BY <2>0, <2>1, QueueLine DEF Served, Left, Closed, Running
    <3>2. QED
      BY <3>1 DEF P!vars, Served, Left, Closed
  <2>2. CASE queue = {} /\ disp' = "giveback" /\ UNCHANGED queue
    <3>1. Line' = Line /\ Served' = Served /\ Left' = Left /\ Closed' = TRUE
      BY <2>0, <2>2, QueueLine DEF Served, Left, Closed, Running
    <3>2. Line = <<>>
      BY <2>2, QueueLine, LineFacts, EmptySeq
    <3>3. P!Close
      BY <3>1, <3>2 DEF P!Close, Served, Left, Closed
    <3>4. QED
      BY <3>3 DEF P!Next
  <2>3. CASE \E t \in queue : /\ \A u \in queue \ {t} : Less(t, u)
                              /\ queue' = queue \ {t}
                              /\ head' = t
                              /\ disp' = "grant"
    BY <2>0, <2>3, PopMaps DEF P!Next
  <2>4. QED
    BY <1>3, <2>1, <2>2, <2>3 DEF waitPopHead
<1>4. QED
  BY <1>1, <1>2, <1>3 DEF DispatchNext

(* Stop and the controller's loop do not show.                             *)
LEMMA OthersMap ==
  ASSUME Stop \/ ControllerLoop \/ UNCHANGED vars
  PROVE  UNCHANGED P!vars
<1>1. /\ UNCHANGED <<pc, queue, head>>
      /\ disp' = disp \/ (disp = "asleep" /\ disp' = "pop")
  BY DEF Stop, SignalDispatcher, ControllerLoop, vars, queueVars
<1>2. Line' = Line /\ Served' = Served /\ Left' = Left /\ Closed' = Closed
  BY <1>1, QueueLine DEF Served, Left, Closed, Running
<1>3. QED
  BY <1>2 DEF P!vars, Served, Left, Closed

(* The queue, its locks and signals, the lookahead and the controller's    *)
(* loop serve the requests as one line would: by score, then by arrival,   *)
(* within the capacity, refusing nobody on an empty line and closing only  *)
(* when it is empty.                                                       *)
THEOREM Implementation == Spec => P!Spec
<1>1. Init => P!Init
  BY InitMaps
<1>2. SInv /\ SInv' /\ CP!IInv /\ [Next]_vars => [P!Next]_(P!vars)
  BY EnqueueMaps, GrantedMaps, DispatchMaps, OthersMap DEF Next, RequestNext
<1>3. Spec => [](SInv /\ CP!IInv)
  BY Invariance
<1>4. QED
  BY <1>1, <1>2, <1>3, PTL DEF Spec, P!Spec

-----------------------------------------------------------------------------
(* The heap under the queue: that it serves as the set of tickets which    *)
(* Scheduler takes it for, with the slice, the index fields and the        *)
(* numbering as variables of their own (TicketHeap).                       *)

HeapTickets == [Score : Nat, seq : 1..MaxPushes]

(* The places of a slice, and the tickets in it.                           *)
Places(h) == 0..(Len(h) - 1)
Tickets(h) == {At(h, i) : i \in Places(h)}

(* No two tickets of a slice have one number.                              *)
Slice(h) ==
  /\ h \in Seq(HeapTickets)
  /\ \A i, k \in Places(h) : i # k => At(h, i).seq # At(h, k).seq

(* The index fields say where in the slice a ticket is, if it is there.    *)
Tracks(h, x) ==
  /\ x \in [1..MaxPushes -> Int]
  /\ \A i \in Places(h) : x[At(h, i).seq] = i
  /\ \A s \in 1..MaxPushes : (\A i \in Places(h) : At(h, i).seq # s) => x[s] = -1

(* The order of a heap, among the first n places.                          *)
Ordered(h, n) ==
  \A k \in 1..(n - 1) : Precedes(At(h, Parent(k)), At(h, k))

(* The order while up moves the ticket at place j.                         *)
UpOrdered(h, j) ==
  /\ \A k \in 1..(Len(h) - 1) : k # j => Precedes(At(h, Parent(k)), At(h, k))
  /\ j # 0 => \A k \in 1..(Len(h) - 1) :
                Parent(k) = j => Precedes(At(h, Parent(j)), At(h, k))

(* The order while down moves the ticket at place i.                       *)
DownOrdered(h, i, n) ==
  /\ \A k \in 1..(n - 1) : Parent(k) # i => Precedes(At(h, Parent(k)), At(h, k))
  /\ i # 0 => \A k \in 1..(n - 1) :
                Parent(k) = i => Precedes(At(h, Parent(i)), At(h, k))

(* A place above 0 has one parent, further up; a place has two children.   *)
LEMMA ParentFacts ==
  \A k \in Nat \ {0} : /\ Parent(k) \in Nat /\ Parent(k) < k
                       /\ \A i \in Nat : Parent(k) = i <=> (k = 2 * i + 1 \/ k = 2 * i + 2)
BY DEF Parent

(* Before orders tickets with numbers of their own.                        *)
LEMMA BeforeOrders ==
  /\ \A t, u \in HeapTickets : t.seq # u.seq => Precedes(t, u) \/ Precedes(u, t)
  /\ \A t, u \in HeapTickets : ~(Precedes(t, u) /\ Precedes(u, t))
  /\ \A t, u, v \in HeapTickets : Precedes(t, u) /\ Precedes(u, v) => Precedes(t, v)
<1>1. \A t \in HeapTickets : t.Score \in Nat /\ t.seq \in Int
  BY DEF HeapTickets
<1>2. QED
  BY <1>1 DEF Precedes

(* Less compares the tickets at two places.                                *)
LEMMA LessFacts ==
  ASSUME NEW h, Slice(h), NEW i \in Places(h), NEW k \in Places(h), i # k
  PROVE  /\ HeapLess(h, i, k) <=> Precedes(At(h, i), At(h, k))
         /\ ~HeapLess(h, i, k) => Precedes(At(h, k), At(h, i))
<1>1. HeapLess(h, i, k) <=> Precedes(At(h, i), At(h, k))
  BY DEF HeapLess, Precedes
<1>2. /\ At(h, i) \in HeapTickets /\ At(h, k) \in HeapTickets
      /\ At(h, i).seq # At(h, k).seq
  BY DEF Slice, Places, At
<1>3. QED
  BY <1>1, <1>2, BeforeOrders

(* The tickets at the places of a slice.                                   *)
LEMMA SliceFacts ==
  ASSUME NEW h, Slice(h)
  PROVE  /\ Len(h) \in Nat
         /\ \A i \in Places(h) : At(h, i) \in HeapTickets
         /\ \A i \in Places(h) : At(h, i).seq \in 1..MaxPushes
         /\ \A i, k \in Places(h) : i # k => At(h, i).seq # At(h, k).seq
         /\ Tickets(h) = Range(h)
<1>1. Len(h) \in Nat /\ DOMAIN h = 1..Len(h)
  BY DEF Slice
<1>2. \A i \in Places(h) : i + 1 \in 1..Len(h)
  BY <1>1 DEF Places
<1>3. \A i \in Places(h) : At(h, i) \in HeapTickets
  BY <1>2 DEF Slice, At
<1>4. \A i \in Places(h) : At(h, i).seq \in 1..MaxPushes
  BY <1>3 DEF HeapTickets
<1>5. Tickets(h) = Range(h)
  <2>1. \A i \in 1..Len(h) : i - 1 \in Places(h) /\ (i - 1) + 1 = i
    BY <1>1 DEF Places
  <2>2. \A i \in 1..Len(h) : h[i] = At(h, i - 1)
    BY <2>1 DEF At
  <2>3. QED
    BY <1>1, <1>2, <2>1, <2>2 DEF Tickets, Range, At
<1>6. QED
  BY <1>1, <1>3, <1>4, <1>5 DEF Slice

(* Swap exchanges two tickets and their index fields, and nothing else.    *)
SwappedAt(h, g, i, k) ==
  /\ Len(g) = Len(h) /\ At(g, i) = At(h, k) /\ At(g, k) = At(h, i)
  /\ \A m \in Places(h) \ {i, k} : At(g, m) = At(h, m)

LEMMA SwapFacts ==
  ASSUME NEW S, {"h", "x"} \subseteq DOMAIN S, Slice(S.h), Tracks(S.h, S.x),
         NEW i \in Places(S.h), NEW k \in Places(S.h), i # k
  PROVE  LET T == Swap(S, i, k) IN
         /\ DOMAIN T = DOMAIN S /\ \A f \in DOMAIN S \ {"h", "x"} : T[f] = S[f]
         /\ SwappedAt(S.h, T.h, i, k)
         /\ Slice(T.h) /\ Tracks(T.h, T.x) /\ Tickets(T.h) = Tickets(S.h)
<1> DEFINE h == S.h
           x == S.x
           T == Swap(S, i, k)
           g == [h EXCEPT ![i + 1] = At(h, k), ![k + 1] = At(h, i)]
           y == [x EXCEPT ![At(h, k).seq] = i, ![At(h, i).seq] = k]
<1>1. /\ T.h = g /\ T.x = y
      /\ DOMAIN T = DOMAIN S /\ \A f \in DOMAIN S \ {"h", "x"} : T[f] = S[f]
  BY DEF Swap
<1> HIDE DEF T
<1>2. Len(h) \in Nat /\ i + 1 \in 1..Len(h) /\ k + 1 \in 1..Len(h) /\ i + 1 # k + 1
  BY SliceFacts DEF Places
<1>3. /\ At(h, i) \in HeapTickets /\ At(h, k) \in HeapTickets
      /\ At(h, i).seq \in 1..MaxPushes /\ At(h, k).seq \in 1..MaxPushes
      /\ At(h, i).seq # At(h, k).seq
  BY SliceFacts
<1>4. h \in Seq(HeapTickets)
  BY DEF Slice
<1>5. g \in Seq(HeapTickets) /\ Len(g) = Len(h)
  <2>1. Len(g) = Len(h) /\ \A m \in 1..Len(h) : g[m] \in HeapTickets
    BY <1>2, <1>3, <1>4
  <2>2. QED
    BY <1>2, <1>3, <1>4, <2>1
<1>6. SwappedAt(h, g, i, k)
  <2>1. g[i + 1] = At(h, k) /\ g[k + 1] = At(h, i)
    BY <1>2, <1>4
  <2>2. \A m \in Places(h) \ {i, k} : g[m + 1] = h[m + 1]
    BY <1>2, <1>4 DEF Places
  <2>3. QED
    BY <1>5, <2>1, <2>2 DEF SwappedAt, At
<1> HIDE DEF g
<1>7. Places(g) = Places(h)
  BY <1>5 DEF Places
<1>8. Slice(g) /\ Tickets(g) = Tickets(h)
  <2>1. \A m \in Places(h) : At(g, m) = At(h, IF m = i THEN k ELSE IF m = k THEN i ELSE m)
    BY <1>6 DEF SwappedAt
  <2>2. \A m, p \in Places(g) : m # p => At(g, m).seq # At(g, p).seq
    BY <1>7, <2>1, SliceFacts
  <2>3. Tickets(g) = Tickets(h)
    BY <1>7, <2>1 DEF Tickets
  <2>4. QED
    BY <1>5, <2>2, <2>3 DEF Slice
<1>9. Tracks(g, y)
  <2>1. x \in [1..MaxPushes -> Int] /\ i \in Int /\ k \in Int
    BY DEF Tracks, Places
  <2>2. y \in [1..MaxPushes -> Int]
    BY <1>3, <2>1
  <2>3. \A m \in Places(g) : y[At(g, m).seq] = m
    <3>1. y[At(h, k).seq] = i /\ y[At(h, i).seq] = k
      BY <1>3, <2>1
    <3>2. ASSUME NEW m \in Places(h), m \notin {i, k}
          PROVE  y[At(h, m).seq] = m
      <4>1. /\ At(h, m).seq # At(h, i).seq /\ At(h, m).seq # At(h, k).seq
            /\ At(h, m).seq \in 1..MaxPushes
        BY <3>2, SliceFacts
      <4>2. x[At(h, m).seq] = m
        BY DEF Tracks
      <4>3. QED
        BY <2>1, <4>1, <4>2
    <3>3. QED
      BY <1>6, <1>7, <3>1, <3>2 DEF SwappedAt
  <2>4. ASSUME NEW s \in 1..MaxPushes, \A m \in Places(g) : At(g, m).seq # s
        PROVE  y[s] = -1
    <3>1. \A m \in Places(h) : At(h, m).seq # s
      BY <1>6, <1>7, <2>4 DEF SwappedAt
    <3>2. x[s] = -1
      BY <3>1 DEF Tracks
    <3>3. QED
      BY <2>1, <3>1, <3>2
  <2>5. QED
    BY <2>2, <2>3, <2>4 DEF Tracks
<1> HIDE DEF y
<1>10. /\ DOMAIN T = DOMAIN S /\ \A f \in DOMAIN S \ {"h", "x"} : T[f] = S[f]
       /\ SwappedAt(S.h, T.h, i, k)
       /\ Slice(T.h) /\ Tracks(T.h, T.x) /\ Tickets(T.h) = Tickets(S.h)
  BY <1>1, <1>6, <1>8, <1>9
<1>11. QED
  BY <1>10 DEF T

(* A round of up keeps the order but for the place it goes on from.        *)
LEMMA UpKeepsOrder ==
  ASSUME NEW h, Slice(h), NEW g, Slice(g), NEW j \in Places(h), j # 0,
         SwappedAt(h, g, Parent(j), j), UpOrdered(h, j),
         Precedes(At(h, j), At(h, Parent(j)))
  PROVE  UpOrdered(g, Parent(j))
<1> DEFINE i == Parent(j)
           n == Len(h)
           a(m) == At(h, m)
           b(m) == At(g, m)
<1>1. n \in Nat /\ Len(g) = n /\ j \in 1..(n - 1) /\ i \in Nat /\ i < j /\ i \in Places(h)
  BY SliceFacts, ParentFacts DEF Places, SwappedAt
<1>2. /\ b(i) = a(j) /\ b(j) = a(i)
      /\ \A m \in 0..(n - 1) : m # i /\ m # j => b(m) = a(m)
      /\ \A m \in 0..(n - 1) : a(m) \in HeapTickets
  BY SliceFacts DEF SwappedAt, Places
<1>3. /\ \A k \in 1..(n - 1) : k # j => Precedes(a(Parent(k)), a(k))
      /\ \A k \in 1..(n - 1) : Parent(k) = j => Precedes(a(i), a(k))
      /\ Precedes(a(j), a(i))
  BY <1>1 DEF UpOrdered
<1>4. \A k \in 1..(n - 1) : Parent(k) \in 0..(n - 1) /\ Parent(k) < k
  BY <1>1, ParentFacts
<1> HIDE DEF i, n, a, b
<1>5. ASSUME NEW k \in 1..(n - 1), k # i
      PROVE  Precedes(b(Parent(k)), b(k))
  <2>1. CASE k = j
    BY <1>1, <1>2, <1>3, <2>1 DEF i
  <2>2. CASE k # j /\ Parent(k) = j
    <3>1. b(Parent(k)) = a(i) /\ b(k) = a(k) /\ Precedes(a(i), a(k))
      BY <1>2, <1>3, <1>5, <2>2
    <3>2. QED
      BY <3>1
  <2>3. CASE k # j /\ Parent(k) = i
    <3>1. b(Parent(k)) = a(j) /\ b(k) = a(k) /\ Precedes(a(i), a(k)) /\ Precedes(a(j), a(i))
      BY <1>2, <1>3, <1>5, <2>3
    <3>2. a(i) \in HeapTickets /\ a(j) \in HeapTickets /\ a(k) \in HeapTickets
      BY <1>1, <1>2, <1>5
    <3>3. QED
      BY <3>1, <3>2, BeforeOrders
  <2>4. CASE k # j /\ Parent(k) # j /\ Parent(k) # i
    <3>1. b(Parent(k)) = a(Parent(k)) /\ b(k) = a(k)
      BY <1>2, <1>4, <1>5, <2>4
    <3>2. QED
      BY <1>3, <2>4, <3>1
  <2>5. QED
    BY <2>1, <2>2, <2>3, <2>4
<1>6. ASSUME i # 0, NEW k \in 1..(n - 1), Parent(k) = i
      PROVE  Precedes(b(Parent(i)), b(k))
  <2>1. i \in 1..(n - 1) /\ Parent(i) \in 0..(n - 1) /\ Parent(i) < i /\ Parent(i) # j
    BY <1>1, <1>4, <1>6
  <2>2. b(Parent(i)) = a(Parent(i)) /\ Precedes(a(Parent(i)), a(i))
    BY <1>1, <1>2, <1>3, <2>1
  <2>3. CASE k = j
    BY <1>2, <2>2, <2>3
  <2>4. CASE k # j
    <3>1. k # i /\ b(k) = a(k) /\ Precedes(a(i), a(k))
      BY <1>2, <1>3, <1>4, <1>6, <2>4
    <3>2. a(Parent(i)) \in HeapTickets /\ a(i) \in HeapTickets /\ a(k) \in HeapTickets
      BY <1>1, <1>2, <2>1
    <3>3. QED
      BY <2>2, <3>1, <3>2, BeforeOrders
  <2>5. QED
    BY <2>3, <2>4
<1>7. QED
  BY <1>1, <1>5, <1>6 DEF UpOrdered, b, n, i

(* When up ends, the whole slice is in order.                              *)
LEMMA UpEnds ==
  ASSUME NEW h, Slice(h), NEW j \in Places(h), UpOrdered(h, j),
         j = 0 \/ ~HeapLess(h, j, Parent(j))
  PROVE  Ordered(h, Len(h))
<1>1. Len(h) \in Nat
  BY SliceFacts
<1>2. CASE j = 0
  BY <1>1, <1>2 DEF UpOrdered, Ordered
<1>3. CASE j # 0
  <2>1. Parent(j) \in Places(h) /\ Parent(j) # j
    BY <1>1, <1>3, ParentFacts DEF Places
  <2>2. Precedes(At(h, Parent(j)), At(h, j))
    BY <1>3, <2>1, LessFacts
  <2>3. QED
    BY <2>2 DEF UpOrdered, Ordered
<1>4. QED
  BY <1>2, <1>3

(* A round of down keeps the order but for the place it goes on from.      *)
LEMMA DownKeepsOrder ==
  ASSUME NEW h, Slice(h), NEW g, Slice(g), NEW n \in 0..Len(h),
         NEW i \in Nat, NEW j \in Nat, j < n, Parent(j) = i, j # 0,
         \A k \in 1..(n - 1) : Parent(k) = i /\ k # j => Precedes(At(h, j), At(h, k)),
         SwappedAt(h, g, j, i), DownOrdered(h, i, n),
         Precedes(At(h, j), At(h, i))
  PROVE  DownOrdered(g, j, n)
<1> DEFINE a(m) == At(h, m)
           b(m) == At(g, m)
<1>1. n \in Nat /\ j \in 1..(n - 1) /\ i \in 0..(n - 1) /\ i < j
  BY SliceFacts, ParentFacts
<1>2. /\ b(i) = a(j) /\ b(j) = a(i)
      /\ \A m \in 0..(n - 1) : m # i /\ m # j => b(m) = a(m)
      /\ \A m \in 0..(n - 1) : a(m) \in HeapTickets
  BY SliceFacts DEF SwappedAt, Places
<1>3. /\ \A k \in 1..(n - 1) : Parent(k) # i => Precedes(a(Parent(k)), a(k))
      /\ i # 0 => \A k \in 1..(n - 1) : Parent(k) = i => Precedes(a(Parent(i)), a(k))
      /\ \A k \in 1..(n - 1) : Parent(k) = i /\ k # j => Precedes(a(j), a(k))
      /\ Precedes(a(j), a(i))
  BY DEF DownOrdered
<1>4. \A k \in 1..(n - 1) : Parent(k) \in 0..(n - 1) /\ Parent(k) < k
  BY <1>1, ParentFacts
<1> HIDE DEF a, b
<1>5. ASSUME NEW k \in 1..(n - 1), Parent(k) # j
      PROVE  Precedes(b(Parent(k)), b(k))
  <2>1. CASE k = j
    BY <1>1, <1>2, <1>3, <2>1
  <2>2. CASE k # j /\ Parent(k) = i
    <3>1. k # i
      BY <1>4, <2>2
    <3>2. QED
      BY <1>2, <1>3, <2>2, <3>1
  <2>3. CASE k = i
    <3>1. Parent(i) \in 0..(n - 1) /\ Parent(i) # i /\ Parent(i) # j /\ i # 0
      BY <1>1, <1>4, <2>3
    <3>2. b(Parent(i)) = a(Parent(i)) /\ Precedes(a(Parent(i)), a(j))
      BY <1>1, <1>2, <1>3, <3>1
    <3>3. QED
      BY <1>2, <2>3, <3>2
  <2>4. CASE k # j /\ k # i /\ Parent(k) # i
    BY <1>2, <1>3, <1>4, <1>5, <2>4
  <2>5. QED
    BY <2>1, <2>2, <2>3, <2>4
<1>6. ASSUME NEW k \in 1..(n - 1), Parent(k) = j
      PROVE  Precedes(b(Parent(j)), b(k))
  <2>1. k # j /\ k # i /\ Parent(k) # i
    BY <1>1, <1>4, <1>6
  <2>2. b(k) = a(k) /\ Precedes(a(j), a(k)) /\ b(i) = a(j)
    BY <1>2, <1>3, <1>6, <2>1
  <2>3. QED
    BY <2>2
<1>7. QED
  BY <1>1, <1>5, <1>6 DEF DownOrdered, b

(* The better of the children of a place that has one.                     *)
LEMMA ChildFacts ==
  ASSUME NEW h, Slice(h), NEW n \in 0..Len(h), NEW i \in Nat, 2 * i + 1 < n
  PROVE  LET j == Child(h, i, n) IN
         /\ j \in Nat /\ j < n /\ j # 0 /\ Parent(j) = i
         /\ \A k \in 1..(n - 1) : Parent(k) = i /\ k # j => Precedes(At(h, j), At(h, k))
<1> DEFINE left == 2 * i + 1
           j == Child(h, i, n)
<1>1. Len(h) \in Nat /\ n \in Nat /\ n <= Len(h)
  BY SliceFacts
<1>2. j = IF left + 1 < n /\ HeapLess(h, left + 1, left) THEN left + 1 ELSE left
  BY DEF Child
<1> HIDE DEF j
<1>3. j \in Nat /\ j < n /\ j # 0 /\ (j = 2 * i + 1 \/ j = 2 * i + 2)
  BY <1>1, <1>2
<1>4. Parent(j) = i
  BY <1>3, ParentFacts
<1>5. ASSUME NEW k \in 1..(n - 1), Parent(k) = i, k # j
      PROVE  Precedes(At(h, j), At(h, k))
  <2>1. k = left \/ k = left + 1
    BY <1>1, <1>5, ParentFacts
  <2>2. left \in Places(h) /\ (k = left + 1 => left + 1 \in Places(h)) /\ j \in Places(h)
    BY <1>1, <1>3 DEF Places
  <2>3. CASE k = left
    <3>1. j = left + 1 /\ HeapLess(h, left + 1, left)
      BY <1>2, <1>5, <2>3
    <3>2. QED
      BY <2>2, <2>3, <3>1, LessFacts
  <2>4. CASE k = left + 1
    <3>1. j = left /\ ~HeapLess(h, left + 1, left)
      BY <1>1, <1>2, <1>5, <2>4
    <3>2. left + 1 # left
      OBVIOUS
    <3>3. QED
      BY <2>2, <2>4, <3>1, <3>2, LessFacts
  <2>5. QED
    BY <2>1, <2>3, <2>4
<1>6. QED
  BY <1>3, <1>4, <1>5 DEF j

(* When down ends, the first n places are in order.                        *)
LEMMA DownEnds ==
  ASSUME NEW h, Slice(h), NEW n \in 0..Len(h), NEW i \in Nat, DownOrdered(h, i, n),
         2 * i + 1 >= n \/ ~HeapLess(h, Child(h, i, n), i)
  PROVE  Ordered(h, n)
<1>1. Len(h) \in Nat /\ n \in Nat /\ n <= Len(h)
  BY SliceFacts
<1>2. SUFFICES ASSUME NEW k \in 1..(n - 1), Parent(k) = i
               PROVE  Precedes(At(h, i), At(h, k))
  BY DEF DownOrdered, Ordered
<1>3. 2 * i + 1 < n
  BY <1>1, <1>2, ParentFacts
<1> DEFINE j == Child(h, i, n)
<1>4. /\ j \in Nat /\ j < n /\ j # 0 /\ Parent(j) = i
      /\ k # j => Precedes(At(h, j), At(h, k))
  BY <1>2, <1>3, ChildFacts
<1>5. ~HeapLess(h, j, i)
  BY <1>1, <1>3
<1> HIDE DEF j
<1>6. i \in Places(h) /\ j \in Places(h) /\ k \in Places(h) /\ j # i
  BY <1>1, <1>3, <1>4, ParentFacts DEF Places
<1>7. Precedes(At(h, i), At(h, j))
  BY <1>5, <1>6, LessFacts
<1>8. QED
  BY <1>4, <1>6, <1>7, SliceFacts, BeforeOrders

(* ------------------------------- the loops ------------------------------ *)

(* A set of numbers has a least one: what stands in for induction here.    *)
LEMMA LeastNumber ==
  ASSUME NEW N \in SUBSET Nat, N # {}
  PROVE  \E m \in N : \A k \in N : m <= k
<1>1. PICK m \in N : \A k \in N : ~(<<k, m>> \in OpToRel(<, Nat))
  BY NatLessThanWellFounded, WFMin
<1>2. \A k \in Nat : k < m => <<k, m>> \in OpToRel(<, Nat)
  BY DEF OpToRel
<1>3. \A k \in N : ~(k < m)
  BY <1>1, <1>2
<1>4. QED
  BY <1>3

(* m rounds of up, or of down among the first n places, from S on.         *)
Turn(dir, S, n) == IF dir = "up" THEN UpRound(S) ELSE DownRound(S, n)
Rounds(dir, S, n, m, f) ==
  f = [k \in 0..m |-> IF k = 0 THEN S ELSE Turn(dir, f[k - 1], n)]

LEMMA RoundsExist ==
  ASSUME NEW dir, NEW S, NEW n, NEW m \in Nat
  PROVE  \E f : Rounds(dir, S, n, m, f)
<1> DEFINE Without == {k \in Nat : ~\E f : Rounds(dir, S, n, k, f)}
<1> SUFFICES ASSUME Without # {} PROVE FALSE
  OBVIOUS
<1>1. PICK k \in Without : \A i \in Without : k <= i
  <2>1. Without \subseteq Nat
    OBVIOUS
  <2> HIDE DEF Without
  <2>2. QED
    BY <2>1, LeastNumber
<1>2. CASE k = 0
  <2> DEFINE f == [i \in 0..0 |-> S]
  <2>1. Rounds(dir, S, n, 0, f)
    BY DEF Rounds
  <2>2. QED
    BY <1>2, <2>1
<1>3. CASE k # 0
  <2>1. k - 1 \in Nat /\ k - 1 \notin Without
    BY <1>1, <1>3
  <2>2. PICK f : Rounds(dir, S, n, k - 1, f)
    BY <2>1
  <2> DEFINE g == [i \in 0..k |-> IF i = k THEN Turn(dir, f[k - 1], n) ELSE f[i]]
  <2>3. ASSUME NEW i \in 0..k
        PROVE  g[i] = IF i = 0 THEN S ELSE Turn(dir, g[i - 1], n)
    <3>1. CASE i = k
      BY <1>3, <2>1, <3>1
    <3>2. CASE i # k
      <4>1. f[i] = IF i = 0 THEN S ELSE Turn(dir, f[i - 1], n)
        BY <2>1, <2>2, <3>2 DEF Rounds
      <4>2. g[i] = f[i] /\ (i # 0 => g[i - 1] = f[i - 1])
        BY <2>1, <3>2
      <4>3. QED
        BY <4>1, <4>2
    <3>3. QED
      BY <3>1, <3>2
  <2>4. Rounds(dir, S, n, k, g)
    <3>1. g = [i \in 0..k |-> g[i]]
      OBVIOUS
    <3> HIDE DEF g
    <3>2. QED
      BY <2>3, <3>1 DEF Rounds
  <2>5. QED
    BY <2>4
<1>4. QED
  BY <1>2, <1>3

(* What Up and Down return.                                                *)
LEMMA UpRuns ==
  ASSUME NEW G, NEW j, Len(G.h) \in Nat
  PROVE  \E f : /\ Rounds("up", [h |-> G.h, x |-> G.x, at |-> j], Len(G.h), Len(G.h), f)
                /\ Up(G, j) = f[Len(G.h)]
<1> DEFINE S == [h |-> G.h, x |-> G.x, at |-> j]
           n == Len(G.h)
           f == CHOOSE f : f = [k \in 0..n |-> IF k = 0 THEN S ELSE UpRound(f[k - 1])]
<1>1. \E g : g = [k \in 0..n |-> IF k = 0 THEN S ELSE UpRound(g[k - 1])]
  <2> HIDE DEF S
  <2>1. PICK g : Rounds("up", S, n, n, g)
    BY RoundsExist
  <2>2. QED
    BY <2>1 DEF Rounds, Turn
<1>2. f = [k \in 0..n |-> IF k = 0 THEN S ELSE UpRound(f[k - 1])]
  BY <1>1
<1>3. Up(G, j) = f[n]
  BY DEF Up
<1> HIDE DEF f
<1>4. QED
  BY <1>2, <1>3 DEF Rounds, Turn

LEMMA DownRuns ==
  ASSUME NEW G, NEW i, NEW n \in Nat
  PROVE  \E f : /\ Rounds("down", [h |-> G.h, x |-> G.x, at |-> i], n, n, f)
                /\ Down(G, i, n) = f[n]
<1> DEFINE S == [h |-> G.h, x |-> G.x, at |-> i]
           f == CHOOSE f : f = [k \in 0..n |-> IF k = 0 THEN S ELSE DownRound(f[k - 1], n)]
<1>1. \E g : g = [k \in 0..n |-> IF k = 0 THEN S ELSE DownRound(g[k - 1], n)]
  <2> HIDE DEF S
  <2>1. PICK g : Rounds("down", S, n, n, g)
    BY RoundsExist
  <2>2. QED
    BY <2>1 DEF Rounds, Turn
<1>2. f = [k \in 0..n |-> IF k = 0 THEN S ELSE DownRound(f[k - 1], n)]
  BY <1>1
<1>3. Down(G, i, n) = f[n]
  BY DEF Down
<1> HIDE DEF f
<1>4. QED
  BY <1>2, <1>3 DEF Rounds, Turn

(* A slice and its index fields on the way from h, whose tickets from      *)
(* place n on stay where they are.                                         *)
Sifted(S, h, n) ==
  /\ DOMAIN S = {"h", "x", "at"}
  /\ Slice(S.h) /\ Tracks(S.h, S.x)
  /\ Len(S.h) = Len(h) /\ Tickets(S.h) = Tickets(h)
  /\ \A m \in Places(h) : m >= n => At(S.h, m) = At(h, m)

LEMMA MovedFacts ==
  ASSUME NEW S, NEW h, NEW n, n <= Len(h), n \in Nat, Sifted(S, h, n),
         NEW i \in 0..(n - 1), NEW k \in 0..(n - 1), i # k
  PROVE  /\ Sifted(Moved(S, i, k), h, n) /\ Moved(S, i, k).at = i
         /\ SwappedAt(S.h, Moved(S, i, k).h, i, k)
<1> DEFINE T == Swap(S, i, k)
           M == Moved(S, i, k)
<1>1. /\ Slice(S.h) /\ Tracks(S.h, S.x) /\ {"h", "x"} \subseteq DOMAIN S
      /\ DOMAIN S = {"h", "x", "at"} /\ Len(S.h) = Len(h) /\ Tickets(S.h) = Tickets(h)
  BY DEF Sifted
<1>2. i \in Places(S.h) /\ k \in Places(S.h) /\ Places(S.h) = Places(h)
  BY <1>1, SliceFacts DEF Places
<1>3. /\ DOMAIN T = DOMAIN S /\ SwappedAt(S.h, T.h, i, k)
      /\ Slice(T.h) /\ Tracks(T.h, T.x) /\ Tickets(T.h) = Tickets(S.h)
  BY <1>1, <1>2, SwapFacts
<1>4. M = [T EXCEPT !.at = i]
  BY DEF Moved
<1> HIDE DEF T, M
<1>5. DOMAIN M = {"h", "x", "at"} /\ M.h = T.h /\ M.x = T.x /\ M.at = i
  BY <1>1, <1>3, <1>4
<1>6. ASSUME NEW m \in Places(h), m >= n
      PROVE  At(M.h, m) = At(h, m)
  <2>1. m # i /\ m # k
    BY <1>6
  <2>2. At(T.h, m) = At(S.h, m)
    BY <1>2, <1>3, <2>1 DEF SwappedAt
  <2>3. QED
    BY <1>5, <1>6, <2>2 DEF Sifted
<1>7. Len(M.h) = Len(h)
  BY <1>1, <1>3, <1>5 DEF SwappedAt
<1>8. Sifted(M, h, n)
  BY <1>1, <1>3, <1>5, <1>6, <1>7 DEF Sifted
<1>9. QED
  BY <1>3, <1>5, <1>8 DEF M

(* When up ends.                                                           *)
UpDone(S) == S.at = 0 \/ ~HeapLess(S.h, S.at, Parent(S.at))

LEMMA UpSifts ==
  ASSUME NEW h, NEW S, NEW n \in Nat, n <= Len(h), Len(h) <= n, Sifted(S, h, n), S.at \in 0..(n - 1),
         UpOrdered(S.h, S.at), NEW f, Rounds("up", S, n, n, f)
  PROVE  Sifted(f[n], h, n) /\ Ordered(f[n].h, n)
<1> DEFINE Good(T, k) ==
             /\ Sifted(T, h, n) /\ T.at \in 0..(n - 1) /\ UpOrdered(T.h, T.at)
             /\ UpDone(T) \/ T.at + k <= S.at
           Bad == {k \in 0..n : ~Good(f[k], k)}
<1>1. f[0] = S /\ \A k \in 1..n : f[k] = UpRound(f[k - 1])
  BY DEF Rounds, Turn
<1>2. Good(f[0], 0)
  BY <1>1
<1>3. ASSUME NEW k \in 1..n, Good(f[k - 1], k - 1)
      PROVE  Good(f[k], k)
  <2> DEFINE T == f[k - 1]
             U == UpRound(T)
             i == Parent(T.at)
  <2>1. f[k] = U
    BY <1>1
  <2>2. /\ Sifted(T, h, n) /\ T.at \in 0..(n - 1) /\ UpOrdered(T.h, T.at)
        /\ UpDone(T) \/ T.at + (k - 1) <= S.at
    BY <1>3
  <2> HIDE DEF T
  <2>3. CASE UpDone(T)
    <3>1. U = T
      BY <2>3 DEF UpRound, UpDone
    <3>2. QED
      BY <2>1, <2>2, <2>3, <3>1
  <2>4. CASE ~UpDone(T)
    <3>1. T.at # 0 /\ HeapLess(T.h, T.at, i) /\ U = Moved(T, i, T.at)
      BY <2>4 DEF UpRound, UpDone
    <3>2. i \in 0..(n - 1) /\ i < T.at
      BY <2>2, <3>1, ParentFacts
    <3>3. Sifted(U, h, n) /\ U.at = i /\ SwappedAt(T.h, U.h, i, T.at)
      <4> DEFINE t == T.at
      <4> HIDE DEF i, U
      <4>1. t \in 0..(n - 1) /\ i \in 0..(n - 1) /\ i # t /\ n <= Len(h) /\ Sifted(T, h, n)
        BY <2>2, <3>2
      <4>2. U = Moved(T, i, t)
        BY <3>1
      <4> HIDE DEF t
      <4>3. /\ Sifted(Moved(T, i, t), h, n) /\ Moved(T, i, t).at = i
            /\ SwappedAt(T.h, Moved(T, i, t).h, i, t)
        BY <4>1, MovedFacts
      <4>4. QED
        BY <4>2, <4>3 DEF t
    <3>4. Slice(T.h) /\ Len(T.h) = n /\ Slice(U.h)
      BY <2>2, <3>3 DEF Sifted
    <3>5. T.at \in Places(T.h) /\ i \in Places(T.h)
      BY <2>2, <3>2, <3>4 DEF Places
    <3>6. Precedes(At(T.h, T.at), At(T.h, i))
      BY <3>1, <3>2, <3>4, <3>5, LessFacts
    <3> HIDE DEF i, U
    <3>7. UpOrdered(U.h, U.at)
      BY <2>2, <3>1, <3>3, <3>4, <3>5, <3>6, UpKeepsOrder DEF i
    <3>8. U.at + k <= S.at
      BY <2>2, <2>4, <3>2, <3>3
    <3>9. QED
      BY <2>1, <3>2, <3>3, <3>7, <3>8
  <2>5. QED
    BY <2>3, <2>4
<1>4. Bad = {}
  <2> SUFFICES ASSUME Bad # {} PROVE FALSE
    OBVIOUS
  <2>1. PICK k \in Bad : \A m \in Bad : k <= m
    <3>1. Bad \in SUBSET Nat
      OBVIOUS
    <3> HIDE DEF Bad
    <3>2. QED
      BY <3>1, LeastNumber
  <2>2. k \in 1..n /\ k - 1 \in 0..n /\ k - 1 \notin Bad
    BY <1>2, <2>1
  <2>3. Good(f[k - 1], k - 1) /\ ~Good(f[k], k)
    BY <2>1, <2>2
  <2> HIDE DEF Good, Bad
  <2>4. QED
    BY <1>3, <2>2, <2>3
<1>5. Good(f[n], n)
  BY <1>4
<1>6. UpDone(f[n]) /\ Sifted(f[n], h, n) /\ f[n].at \in 0..(n - 1) /\ UpOrdered(f[n].h, f[n].at)
  <2>1. ~(f[n].at + n <= S.at)
    BY <1>5
  <2>2. QED
    BY <1>5, <2>1
<1>7. Slice(f[n].h) /\ Len(f[n].h) = n /\ f[n].at \in Places(f[n].h)
  BY <1>6 DEF Sifted, Places
<1>8. QED
  BY <1>6, <1>7, UpEnds DEF UpDone

(* When down ends.                                                         *)
DownDone(S, n) == 2 * S.at + 1 >= n \/ ~HeapLess(S.h, Child(S.h, S.at, n), S.at)

LEMMA DownSifts ==
  ASSUME NEW h, NEW S, NEW n \in Nat, n <= Len(h), Sifted(S, h, n), S.at = 0,
         DownOrdered(S.h, S.at, n), NEW f, Rounds("down", S, n, n, f)
  PROVE  Sifted(f[n], h, n) /\ Ordered(f[n].h, n)
<1> DEFINE Good(T, k) ==
             /\ Sifted(T, h, n) /\ T.at \in Nat /\ DownOrdered(T.h, T.at, n)
             /\ DownDone(T, n) \/ T.at >= k
           Bad == {k \in 0..n : ~Good(f[k], k)}
<1>1. f[0] = S /\ \A k \in 1..n : f[k] = DownRound(f[k - 1], n)
  BY DEF Rounds, Turn
<1>2. Good(f[0], 0)
  BY <1>1
<1>3. ASSUME NEW k \in 1..n, Good(f[k - 1], k - 1)
      PROVE  Good(f[k], k)
  <2> DEFINE T == f[k - 1]
             U == DownRound(T, n)
             i == T.at
             j == Child(T.h, i, n)
  <2>1. f[k] = U
    BY <1>1
  <2>2. /\ Sifted(T, h, n) /\ i \in Nat /\ DownOrdered(T.h, i, n)
        /\ DownDone(T, n) \/ i >= k - 1
    BY <1>3
  <2>3. Slice(T.h) /\ Len(T.h) = Len(h) /\ n \in 0..Len(T.h)
    BY <2>2, SliceFacts DEF Sifted
  <2> HIDE DEF T
  <2>4. CASE DownDone(T, n)
    <3>1. U = T
      BY <2>4 DEF DownRound, DownDone
    <3>2. QED
      BY <2>1, <2>2, <2>4, <3>1
  <2>5. CASE ~DownDone(T, n)
    <3>1. 2 * i + 1 < n /\ HeapLess(T.h, j, i) /\ U = Moved(T, j, i)
      BY <2>2, <2>5 DEF DownRound, DownDone
    <3>2. /\ j \in Nat /\ j < n /\ j # 0 /\ Parent(j) = i
          /\ \A m \in 1..(n - 1) : Parent(m) = i /\ m # j => Precedes(At(T.h, j), At(T.h, m))
      BY <2>2, <2>3, <3>1, ChildFacts
    <3> HIDE DEF j, i, U
    <3>3. i \in 0..(n - 1) /\ j \in 0..(n - 1) /\ i < j
      BY <2>2, <3>1, <3>2, ParentFacts
    <3>4. Sifted(U, h, n) /\ U.at = j /\ SwappedAt(T.h, U.h, j, i)
      <4>1. j # i
        BY <3>3
      <4>2. /\ Sifted(Moved(T, j, i), h, n) /\ Moved(T, j, i).at = j
            /\ SwappedAt(T.h, Moved(T, j, i).h, j, i)
        BY <2>2, <3>3, <4>1, MovedFacts
      <4>3. QED
        BY <3>1, <4>2
    <3>5. Slice(U.h) /\ j \in Places(T.h) /\ i \in Places(T.h)
      BY <2>3, <3>3, <3>4 DEF Sifted, Places
    <3>6. Precedes(At(T.h, j), At(T.h, i))
      BY <2>3, <3>1, <3>3, <3>5, LessFacts
    <3>7. DownOrdered(U.h, U.at, n)
      BY <2>2, <2>3, <3>2, <3>3, <3>4, <3>5, <3>6, DownKeepsOrder
    <3>8. U.at >= k /\ U.at \in Nat
      BY <2>2, <2>5, <3>3, <3>4
    <3>9. QED
      BY <2>1, <3>4, <3>7, <3>8
  <2>6. QED
    BY <2>4, <2>5
<1>4. Bad = {}
  <2> SUFFICES ASSUME Bad # {} PROVE FALSE
    OBVIOUS
  <2>1. PICK k \in Bad : \A m \in Bad : k <= m
    <3>1. Bad \in SUBSET Nat
      OBVIOUS
    <3> HIDE DEF Bad
    <3>2. QED
      BY <3>1, LeastNumber
  <2>2. k \in 1..n /\ k - 1 \in 0..n /\ k - 1 \notin Bad
    BY <1>2, <2>1
  <2>3. Good(f[k - 1], k - 1) /\ ~Good(f[k], k)
    BY <2>1, <2>2
  <2> HIDE DEF Good, Bad
  <2>4. QED
    BY <1>3, <2>2, <2>3
<1>5. Good(f[n], n)
  BY <1>4
<1>6. DownDone(f[n], n) /\ Sifted(f[n], h, n) /\ f[n].at \in Nat /\ DownOrdered(f[n].h, f[n].at, n)
  <2>1. f[n].at >= n => 2 * f[n].at + 1 >= n
    BY <1>5
  <2>2. QED
    BY <1>5, <2>1 DEF DownDone
<1>7. Slice(f[n].h) /\ n \in 0..Len(f[n].h)
  BY <1>6, SliceFacts DEF Sifted
<1>8. QED
  BY <1>6, <1>7, DownEnds DEF DownDone

(* The ticket at the root of a heap is the first of all.                   *)
LEMMA RootFirst ==
  ASSUME NEW h, Slice(h), Ordered(h, Len(h))
  PROVE  \A k \in Places(h) : k # 0 => Precedes(At(h, 0), At(h, k))
<1> DEFINE Bad == {k \in 1..(Len(h) - 1) : ~Precedes(At(h, 0), At(h, k))}
<1>0. Len(h) \in Nat
  BY SliceFacts
<1>1. Bad = {}
  <2> SUFFICES ASSUME Bad # {} PROVE FALSE
    OBVIOUS
  <2>1. PICK k \in Bad : \A m \in Bad : k <= m
    <3>1. Bad \in SUBSET Nat
      BY <1>0
    <3> HIDE DEF Bad
    <3>2. QED
      BY <3>1, LeastNumber
  <2>2. k \in 1..(Len(h) - 1) /\ ~Precedes(At(h, 0), At(h, k))
    BY <2>1
  <2>3. Parent(k) \in 0..(Len(h) - 1) /\ Parent(k) < k
    BY <1>0, <2>2, ParentFacts
  <2>4. Precedes(At(h, Parent(k)), At(h, k))
    BY <2>2 DEF Ordered
  <2>5. CASE Parent(k) = 0
    BY <2>2, <2>4, <2>5
  <2>6. CASE Parent(k) # 0
    <3>1. Parent(k) \notin Bad
      <4> HIDE DEF Bad
      <4> QED BY <1>0, <2>1, <2>2, <2>3
    <3>2. Precedes(At(h, 0), At(h, Parent(k)))
      BY <1>0, <2>3, <2>6, <3>1
    <3>3. /\ At(h, 0) \in HeapTickets /\ At(h, k) \in HeapTickets
          /\ At(h, Parent(k)) \in HeapTickets
      BY <1>0, <2>2, <2>3, SliceFacts DEF Places
    <3>4. QED
      BY <2>2, <2>4, <3>2, <3>3, BeforeOrders
  <2>7. QED
    BY <2>5, <2>6
<1>2. QED
  BY <1>0, <1>1 DEF Places

(* --------------------------- heap.Push, heap.Pop ------------------------ *)

LEMMA PushKeepsHeap ==
  ASSUME NEW h, NEW x, Slice(h), Tracks(h, x), Ordered(h, Len(h)),
         NEW t \in HeapTickets, \A i \in Places(h) : At(h, i).seq # t.seq
  PROVE  LET K == HeapPush([h |-> h, x |-> x], t) IN
         /\ Slice(K.h) /\ Tracks(K.h, K.x) /\ Ordered(K.h, Len(K.h))
         /\ Tickets(K.h) = Tickets(h) \cup {t}
<1> DEFINE n == Len(h)
           g == Append(h, t)
           y == [x EXCEPT ![t.seq] = n]
           G == Append1([h |-> h, x |-> x], t)
           S == [h |-> g, x |-> y, at |-> n]
           K == HeapPush([h |-> h, x |-> x], t)
<1>1. /\ n \in Nat /\ h \in Seq(HeapTickets) /\ x \in [1..MaxPushes -> Int]
      /\ t.seq \in 1..MaxPushes
  BY SliceFacts DEF Slice, Tracks, HeapTickets
<1>2. G.h = g /\ G.x = y
  BY DEF Append1
<1>3. g \in Seq(HeapTickets) /\ Len(g) = n + 1
  BY <1>1
<1>4. (\A i \in Places(h) : At(g, i) = At(h, i)) /\ At(g, n) = t
  BY <1>1 DEF At, Places
<1>5. y \in [1..MaxPushes -> Int] /\ y[t.seq] = n
      /\ \A s \in 1..MaxPushes : s # t.seq => y[s] = x[s]
  BY <1>1
<1> HIDE DEF g, y, G
<1>6. Places(g) = Places(h) \cup {n} /\ n \notin Places(h)
  BY <1>1, <1>3 DEF Places
<1>7. Slice(g)
  BY <1>3, <1>4, <1>6, SliceFacts DEF Slice
<1>8. Tickets(g) = Tickets(h) \cup {t}
  BY <1>4, <1>6 DEF Tickets
<1>9. Tracks(g, y)
  <2>1. \A i \in Places(g) : y[At(g, i).seq] = i
    <3>1. ASSUME NEW i \in Places(h) PROVE y[At(g, i).seq] = i
      <4>1. At(h, i).seq \in 1..MaxPushes /\ x[At(h, i).seq] = i /\ At(h, i).seq # t.seq
        BY SliceFacts DEF Tracks
      <4>2. QED
        BY <1>4, <1>5, <4>1
    <3>2. QED
      BY <1>4, <1>5, <1>6, <3>1
  <2>2. ASSUME NEW s \in 1..MaxPushes, \A i \in Places(g) : At(g, i).seq # s
        PROVE  y[s] = -1
    <3>1. s # t.seq /\ \A i \in Places(h) : At(h, i).seq # s
      BY <1>4, <1>6, <2>2
    <3>2. x[s] = -1
      BY <3>1 DEF Tracks
    <3>3. QED
      BY <1>5, <3>1, <3>2
  <2>3. QED
    BY <1>5, <2>1, <2>2 DEF Tracks
<1>10. UpOrdered(g, n)
  <2>1. ASSUME NEW k \in 1..n, k # n
        PROVE  Precedes(At(g, Parent(k)), At(g, k))
    <3>1. k \in 1..(n - 1) /\ k \in Places(h)
      BY <1>1, <2>1 DEF Places
    <3>2. Parent(k) \in Places(h)
      BY <1>1, <3>1, ParentFacts DEF Places
    <3>3. QED
      BY <1>4, <3>1, <3>2 DEF Ordered
  <2>2. \A k \in 1..n : Parent(k) # n
    BY <1>1, ParentFacts
  <2>3. Len(g) - 1 = n
    BY <1>1, <1>3
  <2>4. QED
    BY <2>1, <2>2, <2>3 DEF UpOrdered
<1>11. PICK f : Rounds("up", S, n + 1, n + 1, f) /\ K = f[n + 1]
  <2>1. K = Up(G, n)
    BY DEF HeapPush, G
  <2>2. Len(G.h) = n + 1 /\ n + 1 \in Nat
    BY <1>1, <1>2, <1>3
  <2> HIDE DEF K
  <2>3. QED
    BY <1>2, <2>1, <2>2, UpRuns
<1>12. Sifted(f[n + 1], g, n + 1) /\ Ordered(f[n + 1].h, n + 1)
  <2>1. S.h = g /\ S.x = y /\ S.at = n /\ DOMAIN S = {"h", "x", "at"}
    OBVIOUS
  <2> HIDE DEF S
  <2>2. Sifted(S, g, n + 1)
    BY <1>7, <1>9, <2>1 DEF Sifted
  <2>3. /\ n + 1 \in Nat /\ n + 1 <= Len(g) /\ Len(g) <= n + 1 /\ S.at \in 0..((n + 1) - 1)
        /\ UpOrdered(S.h, S.at)
    BY <1>1, <1>3, <1>10, <2>1
  <2>4. QED
    BY <1>11, <2>2, <2>3, UpSifts
<1> HIDE DEF K
<1>13. /\ Slice(K.h) /\ Tracks(K.h, K.x) /\ Ordered(K.h, Len(K.h))
       /\ Tickets(K.h) = Tickets(h) \cup {t}
  BY <1>3, <1>8, <1>11, <1>12 DEF Sifted
<1>14. QED
  BY <1>13 DEF K

(* Swapping a place with itself changes nothing.                           *)
LEMMA SwapNothing ==
  ASSUME NEW h, NEW x, Slice(h), Tracks(h, x), NEW i \in Places(h)
  PROVE  Swap([h |-> h, x |-> x], i, i) = [h |-> h, x |-> x]
<1>1. /\ h \in Seq(HeapTickets) /\ i + 1 \in 1..Len(h) /\ At(h, i) = h[i + 1]
      /\ x \in [1..MaxPushes -> Int] /\ x[At(h, i).seq] = i
  BY SliceFacts DEF Slice, Tracks, Places, At
<1>2. [h EXCEPT ![i + 1] = At(h, i), ![i + 1] = At(h, i)] = h
  BY <1>1
<1>3. [x EXCEPT ![At(h, i).seq] = i, ![At(h, i).seq] = i] = x
  BY <1>1
<1>4. Swap([h |-> h, x |-> x], i, i) = [[h |-> h, x |-> x] EXCEPT !.h = h, !.x = x]
  BY <1>2, <1>3, Zenon DEF Swap
<1>5. QED
  BY <1>4

LEMMA PopKeepsHeap ==
  ASSUME NEW h, NEW x, Slice(h), Tracks(h, x), Ordered(h, Len(h)), h # <<>>
  PROVE  LET K == HeapPop([h |-> h, x |-> x])
             R == RemoveLast(K)
         IN
         /\ Last(K.h) = At(h, 0)
         /\ Slice(R.h) /\ Tracks(R.h, R.x) /\ Ordered(R.h, Len(R.h))
         /\ Tickets(R.h) = Tickets(h) \ {At(h, 0)}
<1> DEFINE n == Len(h) - 1
           W == Swap([h |-> h, x |-> x], 0, n)
           S == [h |-> W.h, x |-> W.x, at |-> 0]
           K == HeapPop([h |-> h, x |-> x])
           R == RemoveLast(K)
<1>1. Len(h) \in Nat /\ n \in Nat /\ 0 \in Places(h) /\ n \in Places(h) /\ Places(h) = 0..n
  BY SliceFacts DEF Slice, Places
<1>2. /\ SwappedAt(h, W.h, 0, n)
      /\ Slice(W.h) /\ Tracks(W.h, W.x) /\ Tickets(W.h) = Tickets(h)
  <2>1. CASE n = 0
    <3>1. W = [h |-> h, x |-> x]
      BY <1>1, <2>1, SwapNothing
    <3>2. W.h = h /\ W.x = x
      BY <3>1
    <3> HIDE DEF W
    <3>3. SwappedAt(h, W.h, 0, n)
      BY <2>1, <3>2 DEF SwappedAt
    <3>4. QED
      BY <3>2, <3>3
  <2>2. CASE n # 0
    <3> DEFINE H0 == [h |-> h, x |-> x]
    <3>1. H0.h = h /\ H0.x = x /\ {"h", "x"} \subseteq DOMAIN H0
      OBVIOUS
    <3>2. W = Swap(H0, 0, n)
      OBVIOUS
    <3> HIDE DEF H0, W, n
    <3>3. LET T == Swap(H0, 0, n) IN
          /\ SwappedAt(H0.h, T.h, 0, n)
          /\ Slice(T.h) /\ Tracks(T.h, T.x) /\ Tickets(T.h) = Tickets(H0.h)
      BY <1>1, <2>2, <3>1, SwapFacts
    <3>4. QED
      BY <3>1, <3>2, <3>3
  <2>3. QED
    BY <2>1, <2>2
<1> HIDE DEF W
<1>3. Len(W.h) = n + 1 /\ At(W.h, n) = At(h, 0)
      /\ \A m \in 1..(n - 1) : At(W.h, m) = At(h, m)
  BY <1>1, <1>2 DEF SwappedAt
<1>4. DownOrdered(W.h, 0, n)
  <2>1. ASSUME NEW k \in 1..(n - 1), Parent(k) # 0
        PROVE  Precedes(At(W.h, Parent(k)), At(W.h, k))
    <3>1. Parent(k) \in 1..(n - 1)
      BY <1>1, <2>1, ParentFacts
    <3>2. Precedes(At(h, Parent(k)), At(h, k))
      BY <1>1 DEF Ordered
    <3>3. QED
      BY <1>3, <3>1, <3>2
  <2>2. QED
    BY <2>1 DEF DownOrdered
<1>5. PICK f : Rounds("down", S, n, n, f) /\ K = f[n]
  <2>1. K = Down(W, 0, n)
    BY DEF HeapPop, W
  <2> HIDE DEF K
  <2>2. QED
    BY <1>1, <2>1, DownRuns
<1>6. Sifted(K, W.h, n) /\ Ordered(K.h, n)
  <2>1. S.h = W.h /\ S.x = W.x /\ S.at = 0 /\ DOMAIN S = {"h", "x", "at"}
    OBVIOUS
  <2> HIDE DEF S, K
  <2>2. Sifted(S, W.h, n)
    BY <1>2, <2>1 DEF Sifted
  <2>3. n \in Nat /\ n <= Len(W.h) /\ DownOrdered(S.h, S.at, n)
    BY <1>1, <1>3, <1>4, <2>1
  <2>4. Sifted(f[n], W.h, n) /\ Ordered(f[n].h, n)
    BY <1>5, <2>1, <2>2, <2>3, DownSifts
  <2>5. QED
    BY <1>5, <2>4
<1> DEFINE g == K.h
           y == K.x
           u == At(h, 0)
<1> HIDE DEF K
<1>7. /\ Slice(g) /\ Tracks(g, y) /\ Len(g) = n + 1 /\ Tickets(g) = Tickets(h)
      /\ At(g, n) = u /\ Ordered(g, n)
  <2>1. n \in Places(W.h)
    BY <1>1, <1>3 DEF Places
  <2>2. QED
    BY <1>1, <1>2, <1>3, <1>6, <2>1 DEF Sifted
<1>8. Last(g) = u
  BY <1>1, <1>7 DEF Last, At
<1> DEFINE r == SubSeq(g, 1, n)
           z == [y EXCEPT ![u.seq] = -1]
<1>9. R.h = r /\ R.x = z
  <2>1. R.h = Front(g) /\ R.x = [y EXCEPT ![Last(g).seq] = -1]
    BY DEF RemoveLast
  <2>2. Front(g) = r
    BY <1>1, <1>7 DEF Front
  <2>3. QED
    BY <1>8, <2>1, <2>2
<1> HIDE DEF R, g, y
<1>10. r \in Seq(HeapTickets) /\ Len(r) = n /\ \A i \in 0..(n - 1) : At(r, i) = At(g, i)
  <2>1. g \in Seq(HeapTickets)
    BY <1>7 DEF Slice
  <2>2. \A i \in 1..(n + 1) : g[i] \in HeapTickets
    BY <1>7, <2>1
  <2>3. r \in Seq(HeapTickets) /\ Len(r) = n /\ \A i \in 1..n : r[i] = g[i]
    <3>1. 1 \in Int /\ n \in Int /\ (\A i \in 1..n : g[i] \in HeapTickets)
      BY <1>1, <2>2
    <3>2. /\ SubSeq(g, 1, n) \in Seq(HeapTickets)
          /\ Len(SubSeq(g, 1, n)) = IF 1 <= n THEN n - 1 + 1 ELSE 0
          /\ \A i \in 1..(n - 1 + 1) : SubSeq(g, 1, n)[i] = g[1 + i - 1]
      BY <3>1, SubSeqProperties
    <3>3. \A i \in 1..n : i \in 1..(n - 1 + 1) /\ 1 + i - 1 = i
      BY <1>1
    <3>4. (IF 1 <= n THEN n - 1 + 1 ELSE 0) = n
      BY <1>1
    <3> HIDE DEF n
    <3>5. QED
      BY <3>2, <3>3, <3>4
  <2> HIDE DEF r
  <2>4. QED
    BY <1>1, <2>3 DEF At
<1>11. Places(r) = 0..(n - 1) /\ Places(g) = 0..n
  BY <1>1, <1>7, <1>10 DEF Places
<1> HIDE DEF r
<1>12. Slice(r)
  BY <1>1, <1>7, <1>10, <1>11 DEF Slice
<1>13. u \in HeapTickets /\ u.seq \in 1..MaxPushes
       /\ \A i \in 0..(n - 1) : At(g, i).seq # u.seq
  <2>1. n \in Places(g) /\ \A i \in 0..(n - 1) : i \in Places(g) /\ i # n
    BY <1>1, <1>11
  <2>2. QED
    BY <1>7, <2>1, SliceFacts
<1>14. Tickets(r) = Tickets(h) \ {u}
  <2>1. Tickets(r) = {At(g, i) : i \in 0..(n - 1)}
    BY <1>10, <1>11 DEF Tickets
  <2>2. Tickets(g) = {At(g, i) : i \in 0..(n - 1)} \cup {u}
    <3>1. 0..n = (0..(n - 1)) \cup {n}
      BY <1>1
    <3>2. QED
      BY <1>7, <1>11, <3>1 DEF Tickets
  <2>3. u \notin {At(g, i) : i \in 0..(n - 1)}
    BY <1>13
  <2>4. QED
    BY <1>7, <2>1, <2>2, <2>3
<1>15. Tracks(r, z)
  <2>1. y \in [1..MaxPushes -> Int] /\ z \in [1..MaxPushes -> Int] /\ z[u.seq] = -1
        /\ \A s \in 1..MaxPushes : s # u.seq => z[s] = y[s]
    <3>1. y \in [1..MaxPushes -> Int]
      BY <1>7 DEF Tracks
    <3>2. QED
      BY <1>13, <3>1
  <2> HIDE DEF z
  <2>2. ASSUME NEW i \in Places(r) PROVE z[At(r, i).seq] = i
    <3>1. At(r, i) = At(g, i) /\ i \in Places(g) /\ At(g, i).seq # u.seq
      BY <1>1, <1>10, <1>11, <1>13
    <3>2. At(g, i).seq \in 1..MaxPushes /\ y[At(g, i).seq] = i
      BY <1>7, <3>1, SliceFacts DEF Tracks
    <3>3. QED
      BY <2>1, <3>1, <3>2
  <2>3. ASSUME NEW s \in 1..MaxPushes, \A i \in Places(r) : At(r, i).seq # s
        PROVE  z[s] = -1
    <3>1. CASE s = u.seq
      BY <2>1, <3>1
    <3>2. CASE s # u.seq
      <4>1. \A i \in Places(g) : At(g, i).seq # s
        BY <1>1, <1>7, <1>10, <1>11, <2>3, <3>2
      <4>2. y[s] = -1
        BY <1>7, <4>1 DEF Tracks
      <4>3. QED
        BY <2>1, <3>2, <4>2
    <3>3. QED
      BY <3>1, <3>2
  <2>4. QED
    BY <2>1, <2>2, <2>3 DEF Tracks
<1>16. Ordered(r, n)
  <2>1. \A k \in 1..(n - 1) : k \in 0..(n - 1) /\ Parent(k) \in 0..(n - 1)
    BY <1>1, ParentFacts
  <2>2. QED
    BY <1>7, <1>10, <2>1 DEF Ordered
<1>17. /\ Last(K.h) = At(h, 0)
       /\ Slice(R.h) /\ Tracks(R.h, R.x) /\ Ordered(R.h, Len(R.h))
       /\ Tickets(R.h) = Tickets(h) \ {At(h, 0)}
  BY <1>8, <1>9, <1>10, <1>12, <1>14, <1>15, <1>16 DEF g
<1>18. QED
  BY <1>17 DEF K, R

(* ----------------------------- the invariant ---------------------------- *)

(* The slice is a heap of numbered tickets, none of a later number than    *)
(* the last one given out, and the index fields follow it.                 *)
HeapInv ==
  /\ Slice(pq) /\ Tracks(pq, index) /\ Ordered(pq, Len(pq))
  /\ lastSeq \in 0..MaxPushes /\ \A i \in Places(pq) : At(pq, i).seq <= lastSeq

LEMMA InitHeapInv ==
  ASSUME HeapInit
  PROVE  HeapInv
<1> USE HeapAssumption
<1>1. pq = <<>> /\ index = [s \in 1..MaxPushes |-> -1] /\ lastSeq = 0
  BY DEF HeapInit
<1>2. Len(pq) = 0 /\ pq \in Seq(HeapTickets) /\ Places(pq) = {}
  BY <1>1 DEF Places
<1>3. Slice(pq)
  BY <1>2 DEF Slice
<1>4. Tracks(pq, index)
  BY <1>1, <1>2 DEF Tracks
<1>5. Ordered(pq, Len(pq))
  BY <1>2 DEF Ordered
<1>6. QED
  BY <1>1, <1>2, <1>3, <1>4, <1>5 DEF HeapInv

(* What a push does: the new ticket is in, nothing else has changed.       *)
LEMMA HeapPushStep ==
  ASSUME HeapInv, NEW score \in Scores, PushTicket(score)
  PROVE  /\ HeapInv' /\ lastSeq' = lastSeq + 1
         /\ Range(pq') = Range(pq) \cup {[Score |-> score, seq |-> lastSeq + 1]}
<1> USE HeapAssumption
<1> DEFINE t == [Score |-> score, seq |-> lastSeq + 1]
           K == HeapPush([h |-> pq, x |-> index], t)
<1>1. /\ lastSeq < MaxPushes /\ lastSeq' = lastSeq + 1 /\ pq' = K.h /\ index' = K.x
  BY DEF PushTicket
<1>2. lastSeq \in Nat /\ t.seq = lastSeq + 1
  BY DEF HeapInv
<1>3. t \in HeapTickets
  BY <1>1, <1>2 DEF HeapTickets
<1>4. /\ Slice(pq) /\ Tracks(pq, index) /\ Ordered(pq, Len(pq))
      /\ \A i \in Places(pq) : At(pq, i).seq <= lastSeq
  BY DEF HeapInv
<1>5. \A i \in Places(pq) : At(pq, i).seq # t.seq
  <2>1. \A i \in Places(pq) : At(pq, i).seq \in Int
    BY <1>4, SliceFacts
  <2>2. QED
    BY <1>2, <1>4, <2>1
<1> HIDE DEF t
<1>6. /\ Slice(K.h) /\ Tracks(K.h, K.x) /\ Ordered(K.h, Len(K.h))
      /\ Tickets(K.h) = Tickets(pq) \cup {t}
  BY <1>3, <1>4, <1>5, PushKeepsHeap
<1> HIDE DEF K
<1>7. \A u \in Tickets(K.h) : u.seq <= lastSeq + 1
  <2>1. \A u \in Tickets(pq) : u.seq <= lastSeq /\ u.seq \in Int
    BY <1>4, SliceFacts DEF Tickets
  <2>2. QED
    BY <1>2, <1>6, <2>1
<1>8. \A i \in Places(K.h) : At(K.h, i).seq <= lastSeq + 1
  BY <1>7 DEF Tickets
<1>9. HeapInv'
  BY <1>1, <1>2, <1>6, <1>8 DEF HeapInv
<1>10. Range(pq') = Range(pq) \cup {t}
  BY <1>1, <1>4, <1>6, SliceFacts
<1>11. QED
  BY <1>1, <1>9, <1>10 DEF t

(* What a pop does: the first of all tickets has left.                     *)
LEMMA HeapPopStep ==
  ASSUME HeapInv, PopTicket
  PROVE  /\ HeapInv' /\ lastSeq' = lastSeq
         /\ \E t \in Range(pq) :
              /\ Range(pq') = Range(pq) \ {t}
              /\ \A u \in Range(pq') : Precedes(t, u)
<1> USE HeapAssumption
<1> DEFINE K == HeapPop([h |-> pq, x |-> index])
           R == RemoveLast(K)
<1>1. /\ pq # <<>> /\ pq' = R.h /\ index' = R.x /\ lastSeq' = lastSeq
  BY DEF PopTicket
<1>2. /\ Slice(pq) /\ Tracks(pq, index) /\ Ordered(pq, Len(pq)) /\ lastSeq \in 0..MaxPushes
      /\ \A i \in Places(pq) : At(pq, i).seq <= lastSeq
  BY DEF HeapInv
<1>3. /\ Last(K.h) = At(pq, 0)
      /\ Slice(R.h) /\ Tracks(R.h, R.x) /\ Ordered(R.h, Len(R.h))
      /\ Tickets(R.h) = Tickets(pq) \ {At(pq, 0)}
  BY <1>1, <1>2, PopKeepsHeap
<1> HIDE DEF K, R
<1>4. 0 \in Places(pq)
  <2>1. Len(pq) \in Nat \ {0}
    BY <1>1, <1>2 DEF Slice
  <2>2. QED
    BY <2>1 DEF Places
<1>5. Range(pq) = Tickets(pq) /\ Range(pq') = Tickets(R.h)
  BY <1>1, <1>2, <1>3, SliceFacts
<1>6. \A t \in Tickets(R.h) : \E i \in Places(pq) : i # 0 /\ t = At(pq, i)
  BY <1>3 DEF Tickets
<1>7. \A t \in Tickets(R.h) : Precedes(At(pq, 0), t)
  BY <1>2, <1>6, RootFirst
<1>8. At(pq, 0) \in Tickets(pq)
  BY <1>4 DEF Tickets
<1>9. \A i \in Places(R.h) : At(R.h, i).seq <= lastSeq
  <2>1. \A i \in Places(R.h) : At(R.h, i) \in Tickets(R.h)
    BY DEF Tickets
  <2>2. QED
    BY <1>2, <1>6, <2>1
<1>10. HeapInv'
  BY <1>1, <1>2, <1>3, <1>9 DEF HeapInv
<1>11. QED
  BY <1>1, <1>3, <1>5, <1>7, <1>8, <1>10

LEMMA NextHeapInv ==
  ASSUME HeapInv, [HeapNext]_heapVars
  PROVE  HeapInv'
<1> USE HeapAssumption
<1>1. CASE UNCHANGED heapVars
  BY <1>1 DEF heapVars, HeapInv
<1>2. CASE HeapNext
  BY <1>2, HeapPushStep, HeapPopStep DEF HeapNext
<1>3. QED
  BY <1>1, <1>2

(* The index field of every queued ticket is its place in the slice, and   *)
(* -1 for every ticket that has left (queue.go: Swap, Push, Pop).          *)
THEOREM HeapIndexIsPlace == HeapSpec => []IndexTracksSlice
<1> USE HeapAssumption
<1>1. HeapInit => HeapInv
  BY InitHeapInv
<1>2. HeapInv /\ [HeapNext]_heapVars => HeapInv'
  BY NextHeapInv
<1>3. HeapInv => IndexTracksSlice
  <2> SUFFICES ASSUME HeapInv, NEW s \in 1..MaxPushes
               PROVE  \/ index[s] = -1 /\ \A t \in Range(pq) : t.seq # s
                      \/ index[s] \in 0..(Len(pq) - 1) /\ At(pq, index[s]).seq = s
    BY DEF IndexTracksSlice
  <2>1. Slice(pq) /\ Tracks(pq, index)
    BY DEF HeapInv
  <2>2. Range(pq) = Tickets(pq)
    BY <2>1, SliceFacts
  <2>3. CASE \E i \in Places(pq) : At(pq, i).seq = s
    <3>1. PICK i \in Places(pq) : At(pq, i).seq = s
      BY <2>3
    <3>2. index[s] = i
      BY <2>1, <3>1 DEF Tracks
    <3>3. QED
      BY <3>1, <3>2 DEF Places
  <2>4. CASE ~\E i \in Places(pq) : At(pq, i).seq = s
    BY <2>1, <2>2, <2>4 DEF Tracks, Tickets
  <2>5. QED
    BY <2>3, <2>4
<1>4. QED
  BY <1>1, <1>2, <1>3, PTL DEF HeapSpec

(* A push adds one ticket and loses none; whatever was pushed and popped   *)
(* before, a pop takes out one that no other queued ticket precedes: what  *)
(* Enqueue and waitPopHead of Scheduler take for granted (queue.go:        *)
(* ticketHeap).                                                            *)
THEOREM HeapPopsFirst == HeapSpec => PopsHighest
<1> USE HeapAssumption
<1>1. HeapInit => HeapInv
  BY InitHeapInv
<1>2. HeapInv /\ [HeapNext]_heapVars => HeapInv'
  BY NextHeapInv
<1>3. HeapInv /\ [HeapNext]_heapVars
        => [IF lastSeq' # lastSeq
              THEN \E score \in Scores :
                     Range(pq') = Range(pq) \cup {[Score |-> score, seq |-> lastSeq']}
              ELSE \E t \in Range(pq) :
                     /\ Range(pq') = Range(pq) \ {t}
                     /\ \A u \in Range(pq') : Precedes(t, u)]_heapVars
  <2>1. ASSUME HeapInv, NEW score \in Scores, PushTicket(score)
        PROVE  /\ lastSeq' # lastSeq
               /\ \E sc \in Scores :
                    Range(pq') = Range(pq) \cup {[Score |-> sc, seq |-> lastSeq']}
    <3>1. lastSeq \in Nat
      BY <2>1 DEF HeapInv
    <3>2. QED
      BY <2>1, <3>1, HeapPushStep
  <2>2. QED
    BY <2>1, HeapPopStep DEF HeapNext
<1>4. QED
  BY <1>1, <1>2, <1>3, PTL DEF HeapSpec, PopsHighest
-----------------------------------------------------------------------------
(* The scheduler with its heap (HeapScheduler).                            *)

(* What a step of the scheduler does to its queue: nothing, a push of the  *)
(* next number, or taking out the ticket that Less puts before the others. *)
LEMMA QueueSteps ==
  ASSUME SInv, [Next]_vars
  PROVE  \/ queue' = queue /\ seq' = seq
         \/ /\ seq' = seq + 1
            /\ \E r \in Requests : queue' = queue \cup {[req |-> r, seq |-> seq + 1]}
         \/ /\ seq' = seq
            /\ \E t \in queue : /\ \A u \in queue \ {t} : Less(t, u)
                               /\ queue' = queue \ {t}
<1>1. CASE \E r \in Requests : Enqueue(r) \/ FinishEnqueue(r)
  BY <1>1 DEF Enqueue, FinishEnqueue, Reject, Push
<1>2. CASE \E r \in Requests : Finish(r) \/ WakeAfter(r) \/ Panic(r)
  BY <1>2 DEF Finish, WakeAfter, Panic
<1>3. CASE Acquire \/ Grant \/ GiveBack \/ ExitLoop
  BY <1>3 DEF Acquire, Grant, GiveBack, ExitLoop
<1>4. CASE waitPopHead
  BY <1>4 DEF waitPopHead
<1>5. CASE Stop \/ ControllerLoop \/ UNCHANGED vars
  BY <1>5 DEF Stop, ControllerLoop, vars, queueVars
<1>6. QED
  BY <1>1, <1>2, <1>3, <1>4, <1>5 DEF Next, RequestNext, DispatchNext

QueueTickets(Q) == {InHeap(t) : t \in Q}

(* Every ticket has a number of its own, in the queue and in the slice.    *)
LEMMA InHeapFacts ==
  ASSUME SInv
  PROVE  /\ \A t, u \in queue : t # u => InHeap(t) # InHeap(u)
         /\ \A t \in queue : t.seq \in Nat /\ t.seq <= seq /\ Score[t.req] \in Nat
         /\ \A t, u \in queue : Less(t, u) => ~Precedes(InHeap(u), InHeap(t))
         /\ \A r \in Requests : Score[r] \in Scores
<1>1. \A t \in queue : t.seq \in Nat /\ t.seq <= seq /\ Score[t.req] \in Nat
  BY TypeFacts, SchedulerAssumption DEF SInv, SeqInv
<1>2. \A t, u \in queue : t # u => t.seq # u.seq
  BY DEF SInv, TicketsAccounted
<1>3. \A t, u \in queue : t # u => InHeap(t) # InHeap(u)
  BY <1>2 DEF InHeap
<1>4. \A t, u \in queue : Less(t, u) => ~Precedes(InHeap(u), InHeap(t))
  BY <1>1 DEF Less, Precedes, InHeap
<1>5. \A r \in Requests : Score[r] \in Scores
  BY SchedulerAssumption, HeapSchedulerAssumption DEF Range
<1>6. QED
  BY <1>1, <1>3, <1>4, <1>5

(* The slice has a place for each of its tickets.                          *)
LEMMA SliceCounts ==
  ASSUME SInv, Slice(pq), Range(pq) = QueueTickets(queue)
  PROVE  Len(pq) = depth
<1> DEFINE g == [t \in queue |-> InHeap(t)]
<1>1. IsFiniteSet(queue)
  BY QueueNumbered DEF Numbered
<1>2. g \in Bijection(queue, Range(pq))
  BY InHeapFacts DEF Bijection, Injection, Surjection, IsInjective, QueueTickets
<1>3. Cardinality(Range(pq)) = depth
  <2>1. ExistsBijection(queue, Range(pq))
    BY <1>2 DEF ExistsBijection
  <2>2. QED
    BY <1>1, <2>1, FS_Bijection DEF depth
<1>4. Len(pq) \in Nat /\ pq \in [1..Len(pq) -> HeapTickets]
  BY DEF Slice
<1>5. \A i, k \in 1..Len(pq) : i # k => pq[i] # pq[k]
  <2>1. \A i \in 1..Len(pq) : i - 1 \in Places(pq) /\ At(pq, i - 1) = pq[i]
    BY <1>4 DEF Places, At
  <2>2. SUFFICES ASSUME NEW i \in 1..Len(pq), NEW k \in 1..Len(pq), i # k
                 PROVE  pq[i].seq # pq[k].seq
    OBVIOUS
  <2>3. i - 1 # k - 1
    BY <2>2, <1>4
  <2>4. QED
    BY <2>1, <2>2, <2>3 DEF Slice
<1>6. pq \in Bijection(1..Len(pq), Range(pq))
  BY <1>4, <1>5 DEF Bijection, Injection, Surjection, IsInjective, Range
<1>7. IsFiniteSet(1..Len(pq)) /\ Cardinality(1..Len(pq)) = Len(pq)
  BY <1>4, FS_Interval
<1>8. ExistsBijection(1..Len(pq), Range(pq))
  BY <1>6 DEF ExistsBijection
<1>9. QED
  BY <1>3, <1>7, <1>8, FS_Bijection

(* The slice and the scheduler's queue agree.                              *)
QueueInv == HeapInv /\ lastSeq = seq /\ Range(pq) = QueueTickets(queue)

LEMMA InitQueueInv == QueueInit => QueueInv
<1> SUFFICES ASSUME QueueInit PROVE QueueInv
  OBVIOUS
<1>1. HeapInv
  BY InitHeapInv DEF QueueInit
<1>2. pq = <<>> /\ lastSeq = seq /\ queue = {}
  BY DEF QueueInit, Init, HeapInit
<1>3. Range(pq) = {}
  BY <1>2 DEF Range
<1>4. QED
  BY <1>1, <1>2, <1>3 DEF QueueInv, QueueTickets

(* A step of the scheduler with its heap is a step of the heap, and leaves *)
(* the two in agreement.                                                   *)
LEMMA NextQueueInv ==
  ASSUME SInv, QueueInv, [QueueNext]_<<vars, heapVars>>
  PROVE  QueueInv' /\ [HeapNext]_heapVars
<1>1. CASE UNCHANGED <<vars, heapVars>>
  <2>1. UNCHANGED <<queue, seq, pq, index, lastSeq>>
    BY <1>1 DEF vars, queueVars, heapVars
  <2>2. QED
    BY <2>1 DEF QueueInv, HeapInv, QueueTickets, InHeap, heapVars
<1>2. CASE QueueNext /\ queue' = queue /\ UNCHANGED heapVars
  <2>1. seq' = seq
    <3>1. \A r : [req |-> r, seq |-> seq + 1] \notin queue
      BY InHeapFacts, TypeFacts DEF SInv
    <3>2. QED
      BY <1>2, <3>1, QueueSteps DEF QueueNext
  <2>2. UNCHANGED <<queue, seq, pq, index, lastSeq>>
    BY <1>2, <2>1 DEF heapVars
  <2>3. QED
    BY <2>2 DEF QueueInv, HeapInv, QueueTickets, InHeap, heapVars
<1>3. CASE QueueNext /\ \E t \in queue' \ queue : PushTicket(Score[t.req])
  <2>1. PICK t \in queue' \ queue : PushTicket(Score[t.req])
    BY <1>3
  <2>2. PICK r \in Requests : seq' = seq + 1 /\ queue' = queue \cup {[req |-> r, seq |-> seq + 1]}
    BY <1>3, <2>1, QueueSteps DEF QueueNext
  <2>3. t = [req |-> r, seq |-> seq + 1]
    BY <2>1, <2>2
  <2>4. Score[r] \in Scores /\ PushTicket(Score[r])
    BY <2>1, <2>3, InHeapFacts
  <2>5. /\ HeapInv' /\ lastSeq' = lastSeq + 1
        /\ Range(pq') = Range(pq) \cup {[Score |-> Score[r], seq |-> lastSeq + 1]}
    BY <2>4, HeapPushStep DEF QueueInv
  <2>6. InHeap(t) = [Score |-> Score[r], seq |-> seq + 1]
    BY <2>3 DEF InHeap
  <2>7. QueueTickets(queue') = QueueTickets(queue) \cup {InHeap(t)}
    BY <2>2, <2>3 DEF QueueTickets
  <2>8. Range(pq') = QueueTickets(queue')
    BY <2>5, <2>6, <2>7 DEF QueueInv
  <2>9. QED
    BY <2>2, <2>4, <2>5, <2>8 DEF QueueInv, QueueTickets, InHeap, HeapNext
<1>4. CASE QueueNext /\ queue \ queue' # {} /\ PopTicket
  <2>1. PICK t \in queue : /\ seq' = seq /\ queue' = queue \ {t}
                           /\ \A u \in queue \ {t} : Less(t, u)
    BY <1>4, QueueSteps DEF QueueNext
  <2>2. /\ HeapInv' /\ lastSeq' = lastSeq
        /\ \E w \in Range(pq) :
             /\ Range(pq') = Range(pq) \ {w}
             /\ \A v \in Range(pq') : Precedes(w, v)
    BY <1>4, HeapPopStep DEF QueueInv
  <2>3. PICK w \in Range(pq) : /\ Range(pq') = Range(pq) \ {w}
                               /\ \A v \in Range(pq') : Precedes(w, v)
    BY <2>2
  <2>4. PICK u \in queue : w = InHeap(u)
    BY <2>3 DEF QueueInv, QueueTickets
  <2>5. u = t
    <3>1. SUFFICES ASSUME u # t PROVE FALSE
      OBVIOUS
    <3>2. InHeap(t) \in Range(pq')
      BY <2>3, <2>4, <3>1, InHeapFacts DEF QueueInv, QueueTickets
    <3>3. Precedes(InHeap(u), InHeap(t)) /\ Less(t, u)
      BY <2>1, <2>3, <2>4, <3>1, <3>2
    <3>4. QED
      BY <3>3, InHeapFacts
  <2>6. QueueTickets(queue') = QueueTickets(queue) \ {InHeap(t)}
    BY <2>1, InHeapFacts DEF QueueTickets
  <2>7. Range(pq') = QueueTickets(queue')
    BY <2>3, <2>4, <2>5, <2>6 DEF QueueInv
  <2>8. QED
    BY <1>4, <2>1, <2>2, <2>7 DEF QueueInv, QueueTickets, InHeap, HeapNext
<1>5. QED
  BY <1>1, <1>2, <1>3, <1>4 DEF QueueNext, HeapFollows

(* In the scheduler the slice goes through the heap's own steps only, so   *)
(* what is proved of the heap holds of it (queue.go: heap.Push in Enqueue, *)
(* heap.Pop in waitPopHead).                                               *)
THEOREM QueueRunsHeap == QueueSpec => HeapSpec /\ []QueueInv
<1>1. QueueInit => Init /\ HeapInit /\ QueueInv
  BY InitQueueInv DEF QueueInit
<1>2. [QueueNext]_<<vars, heapVars>> => [Next]_vars
  BY DEF QueueNext
<1>3. SInv /\ QueueInv /\ [QueueNext]_<<vars, heapVars>> => QueueInv' /\ [HeapNext]_heapVars
  BY NextQueueInv
<1>4. QED
  BY <1>1, <1>2, <1>3, Invariance, PTL DEF QueueSpec, Spec, HeapSpec

(* The slice holds the queue's tickets and no others, for every number of  *)
(* requests and every score, so the dispatch loop grants the ticket that   *)
(* Scheduler takes out of its set (queue.go: Enqueue, waitPopHead).        *)
THEOREM SliceIsQueue == QueueSpec => []HeapHoldsQueue
<1>1. SInv /\ QueueInv => HeapHoldsQueue
  BY SliceCounts DEF QueueInv, HeapInv, HeapHoldsQueue, QueueTickets
<1>2. QueueSpec => Spec
  <2>1. [QueueNext]_<<vars, heapVars>> => [Next]_vars
    BY DEF QueueNext
  <2>2. QED
    BY <2>1, PTL DEF QueueSpec, QueueInit, Spec
<1>3. QED
  BY <1>1, <1>2, Invariance, QueueRunsHeap, PTL
=============================================================================
