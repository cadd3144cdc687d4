----------------------------- MODULE SweepProofs -----------------------------
(* Proofs about Sweep, for every list of levels, every ramp-up, window and  *)
(* timeout, and a context that may be cancelled at any time.               *)
EXTENDS Sweep, FiniteSetTheorems, WellFoundedInduction, TLAPS

Places == {"timer", "check", "fire", "requesting", "done"}
Sample == [start : Nat, latency : Nat]

TypeInv ==
    /\ results \in Seq(Range(results)) /\ Len(results) <= Len(Levels)
    /\ now \in Nat
    /\ pc \in [Workers -> Places]
    /\ since \in [Workers -> Nat] /\ deadline \in [Workers -> Nat]
    /\ out \in [Workers -> Seq(Sample)] /\ completed \in [Workers -> Nat]

(* A request is about to be sent only because the window was open at the   *)
(* head of the loop, and neither that nor its answer is later than the     *)
(* scheduler and the request timeout allow.                                *)
InTime(place, at, due, t) ==
    /\ at <= t
    /\ place = "fire" => at < measureEnd /\ due = at + RequestTimeout /\ t <= at + MaxLag
    /\ place = "requesting" =>
         /\ at < measureEnd + MaxLag
         /\ due <= at + RequestTimeout /\ due < measureEnd + RequestTimeout
         /\ t <= Later(at, due) + MaxLag
ClockInv == \A i \in Workers : InTime(pc[i], since[i], deadline[i], now)

(* What a worker has counted beyond the answers of the window: nothing     *)
(* until it has been somewhere in the window, a late one only when it is   *)
(* about to return.                                                        *)
Off(i) == Len(out[i]) - completed[i]
OffOK(off, place, at, t) ==
    /\ off \in -1..1
    /\ place = "timer" => off = 0
    /\ place \in {"check", "fire", "requesting"} /\ at < measureStart => off = 0
    /\ off = 1 => t >= measureEnd /\ place \in {"check", "done"}
                  /\ (place = "check" => at >= measureEnd)
CountInv == \A i \in Workers : OffOK(Off(i), pc[i], since[i], now)

(* A sample took no longer than the timeout of its request and a lag.      *)
LatencyInv ==
    \A i \in Workers : \A j \in DOMAIN out[i] : out[i][j].latency <= RequestTimeout + MaxLag

SweepInv == TypeInv /\ ClockInv /\ CountInv /\ LatencyInv

(* The constants of a sweep, as the proofs use them.                       *)
LEMMA ConstantFacts ==
    /\ Levels \in Seq(Nat) /\ RampUp \in Nat /\ Hold \in Nat /\ MaxLag \in Nat
    /\ RequestTimeout \in Nat \ {0} /\ MinLatency \in Nat \ {0}
    /\ measureStart \in Nat /\ measureEnd \in Nat
BY SweepAssumption DEF measureStart, measureEnd

(* The number of workers of a level, and of the samples they counted, is   *)
(* finite.                                                                 *)
LEMMA ConcurrencyType == TypeInv => concurrency \in Nat
BY ConstantFacts DEF TypeInv, concurrency

(* The samples of a level are finitely many.                               *)
LEMMA SamplesFinite == TypeInv => IsFiniteSet(Samples) /\ Cardinality(Samples) \in Nat
<1> SUFFICES ASSUME TypeInv PROVE IsFiniteSet(Samples) /\ Cardinality(Samples) \in Nat
  OBVIOUS
<1> DEFINE Of(i) == {i} \X DOMAIN out[i]
           Sets == {Of(i) : i \in Workers}
<1>1. IsFiniteSet(Workers)
  BY ConcurrencyType, FS_Interval DEF Workers
<1>2. [i \in Workers |-> Of(i)] \in Surjection(Workers, Sets)
  BY DEF Surjection
<1>3. IsFiniteSet(Sets)
  <2> HIDE DEF Sets
  <2> QED BY <1>1, <1>2, FS_Surjection
<1>4. \A T \in Sets : IsFiniteSet(T)
  <2> SUFFICES ASSUME NEW i \in Workers PROVE IsFiniteSet({i} \X DOMAIN out[i])
    OBVIOUS
  <2>1. IsFiniteSet(DOMAIN out[i])
    <3>1. out[i] \in Seq(Sample)
      BY DEF TypeInv
    <3>2. DOMAIN out[i] = 1..Len(out[i]) /\ Len(out[i]) \in Nat
      BY <3>1
    <3> QED BY <3>2, FS_Interval
  <2> QED BY <2>1, FS_Singleton, FS_Product
<1>5. IsFiniteSet(UNION Sets)
  <2> HIDE DEF Sets
  <2> QED BY <1>3, <1>4, FS_UNION
<1> QED BY <1>5, FS_CardinalityType DEF Samples

(* A sweep starts before its first level, without a sample.                *)
LEMMA InitSweepInv == Init => SweepInv
<1> SUFFICES ASSUME Init PROVE SweepInv
  OBVIOUS
<1>1. Len(results) = 0 /\ DOMAIN results = {} /\ Len(Levels) \in Nat /\ results \in Seq(Range(results))
  BY ConstantFacts DEF Init
<1>2. TypeInv
  BY <1>1 DEF Init, TypeInv, Places
<1>3. \A i \in Workers : out[i] = <<>> /\ pc[i] = "timer" /\ since[i] = 0 /\ now = 0 /\ completed[i] = 0
  BY DEF Init
<1>4. ClockInv
  BY <1>3 DEF ClockInv, InTime
<1>5. CountInv /\ LatencyInv
  BY <1>3 DEF CountInv, OffOK, Off, LatencyInv
<1> QED BY <1>2, <1>4, <1>5 DEF SweepInv

(* A step of one worker that counts nothing: the others stay where they    *)
(* are, and what it must know depends on where it goes.                    *)
LEMMA GoKeeps ==
    ASSUME SweepInv, NEW i \in Workers, NEW place \in Places, NEW due \in Nat, Go(i, place),
           deadline' = [deadline EXCEPT ![i] = due],
           UNCHANGED <<results, now, counts>>,
           InTime(place, now, due, now),
           OffOK(Off(i), place, now, now)
    PROVE  SweepInv'
<1> USE ConstantFacts
<1>1. Workers' = Workers /\ concurrency' = concurrency
  BY DEF Workers, concurrency
<1>2. /\ pc'[i] = place /\ since'[i] = now /\ deadline'[i] = due
      /\ \A w \in Workers \ {i} : pc'[w] = pc[w] /\ since'[w] = since[w] /\ deadline'[w] = deadline[w]
      /\ now' = now /\ out' = out /\ completed' = completed
  BY DEF Go, SweepInv, TypeInv, counts
<1>3. TypeInv'
  BY <1>1 DEF SweepInv, TypeInv, Go, counts
<1>4. ClockInv'
  <2> SUFFICES ASSUME NEW w \in Workers PROVE InTime(pc'[w], since'[w], deadline'[w], now)
    BY <1>1, <1>2 DEF ClockInv, InTime, measureEnd
  <2>1. CASE w = i
    BY <1>2, <2>1
  <2>2. CASE w # i
    BY <1>2, <2>2 DEF SweepInv, ClockInv
  <2> QED BY <2>1, <2>2
<1>5. CountInv'
  <2> SUFFICES ASSUME NEW w \in Workers PROVE OffOK(Off(w), pc'[w], since'[w], now)
    BY <1>1, <1>2 DEF CountInv, OffOK, Off, measureStart, measureEnd
  <2>1. CASE w = i
    BY <1>2, <2>1
  <2>2. CASE w # i
    BY <1>2, <2>2 DEF SweepInv, CountInv
  <2> QED BY <2>1, <2>2
<1>6. LatencyInv'
  BY <1>1, <1>2 DEF SweepInv, LatencyInv
<1> QED BY <1>3, <1>4, <1>5, <1>6 DEF SweepInv

(* What is known of a worker and of the clock.                             *)
LEMMA WorkerFacts ==
    ASSUME SweepInv, NEW i \in Workers
    PROVE  /\ now \in Nat /\ since[i] \in Nat /\ deadline[i] \in Nat /\ Off(i) \in Int
           /\ measureStart \in Nat /\ measureEnd \in Nat /\ measureStart <= measureEnd
           /\ InTime(pc[i], since[i], deadline[i], now) /\ OffOK(Off(i), pc[i], since[i], now)
<1>1. out[i] \in Seq(Sample) /\ completed[i] \in Nat
  BY DEF SweepInv, TypeInv
<1>2. Off(i) \in Int
  BY <1>1 DEF Off
<1> QED BY <1>2, ConstantFacts DEF SweepInv, TypeInv, ClockInv, CountInv, measureStart, measureEnd

(* A worker's request and its look at the clock keep the invariant.        *)
LEMMA WorkerKeeps ==
    ASSUME SweepInv, NEW i \in Workers, WorkerStep(i)
    PROVE  SweepInv'
<1> USE ConstantFacts, WorkerFacts
<1>0. deadline = [deadline EXCEPT ![i] = deadline[i]]
  BY DEF SweepInv, TypeInv
<1>1. CASE Start(i)
  <2>1. PICK place \in {"check", "done"} : Go(i, place)
    BY <1>1 DEF Start
  <2>2. UNCHANGED <<results, now, counts>> /\ deadline' = [deadline EXCEPT ![i] = deadline[i]]
    BY <1>0, <1>1 DEF Start
  <2>3. InTime(place, now, deadline[i], now)
    BY <2>1 DEF InTime
  <2>4. OffOK(Off(i), place, now, now)
    BY <1>1 DEF Start, OffOK
  <2> QED BY <2>1, <2>2, <2>3, <2>4, GoKeeps DEF Places
<1>2. CASE Check(i)
  <2>1. pc[i] = "check" /\ UNCHANGED <<results, now, counts>>
    BY <1>2 DEF Check
  <2>2. CASE now >= measureEnd \/ cancelled
    <3>1. Go(i, "done") /\ deadline' = [deadline EXCEPT ![i] = deadline[i]]
      BY <1>0, <1>2, <2>2 DEF Check
    <3>2. InTime("done", now, deadline[i], now)
      BY DEF InTime
    <3>3. OffOK(Off(i), "done", now, now)
      BY <2>1 DEF OffOK
    <3> QED BY <2>1, <3>1, <3>2, <3>3, GoKeeps DEF Places
  <2>3. CASE ~(now >= measureEnd \/ cancelled)
    <3>1. Go(i, "fire") /\ deadline' = [deadline EXCEPT ![i] = now + RequestTimeout] /\ now < measureEnd
      BY <1>2, <2>3 DEF Check
    <3>2. InTime("fire", now, now + RequestTimeout, now)
      BY <3>1 DEF InTime
    <3>3. OffOK(Off(i), "fire", now, now)
      BY <2>1, <3>1 DEF OffOK, InTime
    <3>4. Go(i, "fire") /\ "fire" \in Places /\ UNCHANGED <<results, now, counts>>
      BY <2>1, <3>1 DEF Places
    <3>5. now + RequestTimeout \in Nat /\ deadline' = [deadline EXCEPT ![i] = now + RequestTimeout]
      BY <3>1, WorkerFacts, ConstantFacts
    <3> QED BY <3>2, <3>3, <3>4, <3>5, GoKeeps
  <2> QED BY <2>2, <2>3
<1>3. CASE Fire(i)
  <2>1. pc[i] = "fire" /\ UNCHANGED <<results, now, counts>>
    BY <1>3 DEF Fire
  <2>2. since[i] < measureEnd /\ since[i] <= now /\ deadline[i] = since[i] + RequestTimeout
        /\ now <= since[i] + MaxLag
    BY <2>1 DEF InTime
  <2>3. CASE Go(i, "requesting") /\ UNCHANGED deadline
    <3>1. now <= Later(now, deadline[i]) + MaxLag
      BY <2>2 DEF Later
    <3>2. InTime("requesting", now, deadline[i], now)
      BY <2>2, <3>1 DEF InTime
    <3>3. OffOK(Off(i), "requesting", now, now)
      BY <2>1, <2>2 DEF OffOK
    <3>4. deadline' = [deadline EXCEPT ![i] = deadline[i]] /\ deadline[i] \in Nat
      BY <1>0, <2>3, WorkerFacts
    <3>5. Go(i, "requesting") /\ "requesting" \in Places
      BY <2>3 DEF Places
    <3> QED BY <2>1, <3>2, <3>3, <3>4, <3>5, GoKeeps
  <2>4. CASE Go(i, "done") /\ deadline' = [deadline EXCEPT ![i] = 0]
    <3>1. InTime("done", now, 0, now)
      BY DEF InTime
    <3>2. OffOK(Off(i), "done", now, now)
      BY <2>1 DEF OffOK
    <3> QED BY <2>1, <2>4, <3>1, <3>2, GoKeeps DEF Places
  <2> QED BY <1>3, <2>3, <2>4 DEF Fire
<1>4. CASE Expire(i)
  <2>1. pc[i] = "requesting" /\ UNCHANGED <<results, now, counts>> /\ Go(i, "check")
        /\ deadline' = [deadline EXCEPT ![i] = 0]
    BY <1>4 DEF Expire
  <2>2. InTime("check", now, 0, now)
    BY DEF InTime
  <2>3. OffOK(Off(i), "check", now, now)
    BY <2>1 DEF OffOK, InTime
  <2> QED BY <2>1, <2>2, <2>3, GoKeeps DEF Places
<1> QED BY <1>1, <1>2, <1>3, <1>4 DEF WorkerStep

(* An answer is counted by the tick its request started: that differs from *)
(* the tick it ended only for a request that is out when the window opens  *)
(* or closes.                                                              *)
LEMMA AnswerKeeps ==
    ASSUME SweepInv, NEW i \in Workers, Answer(i)
    PROVE  SweepInv'
<1> USE ConstantFacts, WorkerFacts
<1>1. /\ pc[i] = "requesting" /\ Go(i, "check") /\ deadline' = [deadline EXCEPT ![i] = 0]
      /\ UNCHANGED <<results, now>> /\ (Count(i) \/ UNCHANGED counts)
  BY DEF Answer
<1>2. InTime("check", now, 0, now)
  BY DEF InTime
<1>3. CASE UNCHANGED counts
  <2>1. OffOK(Off(i), "check", now, now)
    BY <1>1 DEF OffOK, InTime
  <2> QED BY <1>1, <1>2, <1>3, <2>1, GoKeeps DEF Places
<1>4. CASE Count(i)
  <2> DEFINE new == [start |-> since[i], latency |-> now - since[i]]
             before == out[i]
             counted == IF inWindow(since[i]) THEN 1 ELSE 0
             meant == IF now \in measureStart..(measureEnd - 1) THEN 1 ELSE 0
  <2>1. Workers' = Workers /\ concurrency' = concurrency
    BY <1>1 DEF Workers, concurrency
  <2>2. /\ since[i] <= now /\ since[i] < measureEnd + MaxLag
        /\ now - since[i] \in Nat /\ now - since[i] <= RequestTimeout + MaxLag
    <3>1. /\ now \in Nat /\ since[i] \in Nat /\ deadline[i] \in Nat
          /\ since[i] <= now /\ since[i] < measureEnd + MaxLag
          /\ deadline[i] <= since[i] + RequestTimeout /\ now <= Later(since[i], deadline[i]) + MaxLag
      BY <1>1, WorkerFacts DEF InTime
    <3>2. Later(since[i], deadline[i]) <= since[i] + RequestTimeout
      BY <3>1 DEF Later
    <3> QED BY <3>1, <3>2 DEF Later
  <2>3. new \in Sample /\ new.latency <= RequestTimeout + MaxLag
    BY <2>2 DEF Sample
  <2>4. /\ pc'[i] = "check" /\ since'[i] = now /\ deadline'[i] = 0 /\ now' = now
        /\ \A w \in Workers \ {i} : /\ pc'[w] = pc[w] /\ since'[w] = since[w] /\ deadline'[w] = deadline[w]
                                    /\ out'[w] = out[w] /\ completed'[w] = completed[w]
    BY <1>1, <1>4 DEF Go, Count, SweepInv, TypeInv
  <2> HIDE DEF new
  <2>5. before \in Seq(Sample) /\ completed[i] \in Nat
    BY DEF SweepInv, TypeInv
  <2>6. out'[i] = (IF inWindow(since[i]) THEN Append(before, new) ELSE before)
    BY <1>4 DEF Count, SweepInv, TypeInv, new
  <2>7. completed'[i] = completed[i] + meant
    BY <1>4 DEF Count, SweepInv, TypeInv
  <2> HIDE DEF before
  <2>8. out'[i] \in Seq(Sample) /\ Len(out'[i]) = Len(before) + counted
    BY <2>3, <2>5, <2>6
  <2>9. TypeInv'
    <3>1. out' = [w \in Workers |-> out'[w]] /\ completed' = [w \in Workers |-> completed'[w]]
      BY <1>4 DEF Count, SweepInv, TypeInv
    <3>2. \A w \in Workers : out'[w] \in Seq(Sample) /\ completed'[w] \in Nat
      <4>1. completed'[i] \in Nat
        BY <2>5, <2>7
      <4> QED BY <2>4, <2>8, <4>1 DEF SweepInv, TypeInv
    <3>3. out' \in [Workers -> Seq(Sample)] /\ completed' \in [Workers -> Nat]
      BY <3>1, <3>2
    <3> QED BY <1>1, <2>1, <3>3 DEF SweepInv, TypeInv, Go, Places
  <2>10. ClockInv'
    <3> SUFFICES ASSUME NEW w \in Workers PROVE InTime(pc'[w], since'[w], deadline'[w], now)
      BY <2>1, <2>4 DEF ClockInv, InTime, measureEnd
    <3>1. CASE w = i
      BY <1>2, <2>4, <3>1
    <3>2. CASE w # i
      BY <2>4, <3>2 DEF SweepInv, ClockInv
    <3> QED BY <3>1, <3>2
  <2>11. OffOK(Off(i)', "check", now, now)
    <3>1. Off(i)' = Off(i) + counted - meant
      <4>1. Len(before) \in Nat /\ counted \in Int /\ meant \in Int /\ completed[i] \in Nat
        BY <2>5
      <4>2. Off(i)' = Len(out'[i]) - completed'[i] /\ Off(i) = Len(before) - completed[i]
        BY DEF Off, before
      <4> HIDE DEF counted, meant
      <4> QED BY <2>7, <2>8, <4>1, <4>2
    <3>2. counted = (IF since[i] >= measureStart THEN 1 ELSE 0)
      BY DEF inWindow
    <3>3. meant = (IF now >= measureStart /\ now < measureEnd THEN 1 ELSE 0)
      OBVIOUS
    <3>4. Off(i) \in {-1, 0} /\ (since[i] < measureStart => Off(i) = 0)
      BY <1>1 DEF OffOK
    <3> HIDE DEF counted, meant
    <3>5. /\ since[i] < measureStart /\ now < measureStart => Off(i)' = 0
          /\ since[i] < measureStart /\ now >= measureStart => Off(i)' \in {-1, 0}
          /\ since[i] >= measureStart => now >= measureStart
          /\ since[i] >= measureStart /\ now < measureEnd => Off(i)' \in {-1, 0}
          /\ since[i] >= measureStart /\ now >= measureEnd => Off(i)' \in {0, 1}
      BY <2>2, <3>1, <3>2, <3>3, <3>4
    <3> QED BY <3>5 DEF OffOK
  <2>12. CountInv'
    <3> SUFFICES ASSUME NEW w \in Workers PROVE OffOK(Off(w)', pc'[w], since'[w], now)
      BY <2>1, <2>4 DEF CountInv, OffOK, Off, measureStart, measureEnd
    <3>1. CASE w = i
      BY <2>4, <2>11, <3>1
    <3>2. CASE w # i
      <4>1. Off(w)' = Off(w)
        BY <2>4, <3>2 DEF Off
      <4> QED BY <2>4, <3>2, <4>1 DEF SweepInv, CountInv
    <3> QED BY <3>1, <3>2
  <2>13. LatencyInv'
    <3> SUFFICES ASSUME NEW w \in Workers, NEW j \in DOMAIN out'[w]
                 PROVE  out'[w][j].latency <= RequestTimeout + MaxLag
      BY <2>1 DEF LatencyInv
    <3>1. CASE w # i
      BY <2>4, <3>1 DEF SweepInv, LatencyInv
    <3>2. CASE w = i /\ inWindow(since[i])
      <4>1. out'[i] = Append(before, new)
        BY <2>6, <3>2
      <4>2. /\ \A k \in DOMAIN before : out'[i][k] = before[k]
            /\ DOMAIN out'[i] = DOMAIN before \cup {Len(before) + 1} /\ out'[i][Len(before) + 1] = new
        BY <2>3, <2>5, <4>1
      <4>3. \A k \in DOMAIN before : before[k].latency <= RequestTimeout + MaxLag
        BY DEF SweepInv, LatencyInv, before
      <4> QED BY <2>3, <3>2, <4>2, <4>3
    <3>3. CASE w = i /\ ~inWindow(since[i])
      BY <2>6, <3>3 DEF SweepInv, LatencyInv, before
    <3> QED BY <3>1, <3>2, <3>3
  <2> QED BY <2>9, <2>10, <2>12, <2>13 DEF SweepInv
<1> QED BY <1>1, <1>3, <1>4

(* Time passes without overtaking a request that is due.                   *)
LEMMA TickKeeps ==
    ASSUME SweepInv, Tick
    PROVE  SweepInv'
<1> USE ConstantFacts
<1>1. Workers' = Workers /\ concurrency' = concurrency /\ now' = now + 1 /\ now \in Nat
      /\ UNCHANGED <<results, pc, since, deadline, out, completed>>
  BY DEF Tick, Workers, concurrency, SweepInv, TypeInv, workerVars
<1>2. TypeInv'
  BY <1>1 DEF SweepInv, TypeInv
<1>3. ClockInv'
  <2> SUFFICES ASSUME NEW i \in Workers PROVE InTime(pc[i], since[i], deadline[i], now + 1)
    BY <1>1 DEF ClockInv, InTime, measureEnd
  <2>1. /\ since[i] \in Nat /\ deadline[i] \in Nat /\ since[i] <= now
        /\ InTime(pc[i], since[i], deadline[i], now)
    BY WorkerFacts DEF InTime
  <2>2. pc[i] = "fire" => now < since[i] + MaxLag
    BY DEF Tick, Due
  <2>3. pc[i] = "requesting" => now < Later(since[i], deadline[i]) + MaxLag
    BY DEF Tick, Due
  <2>4. Later(since[i], deadline[i]) \in Nat
    BY <2>1 DEF Later
  <2> QED BY <1>1, <2>1, <2>2, <2>3, <2>4 DEF InTime
<1>4. CountInv'
  <2> SUFFICES ASSUME NEW i \in Workers PROVE OffOK(Off(i), pc[i], since[i], now + 1)
    BY <1>1 DEF CountInv, OffOK, Off, measureStart, measureEnd
  <2> QED BY <1>1, WorkerFacts DEF OffOK
<1>5. LatencyInv'
  BY <1>1 DEF SweepInv, LatencyInv
<1> QED BY <1>2, <1>3, <1>4, <1>5 DEF SweepInv

(* The next level starts with nothing counted.                             *)
LEMMA EndLevelKeeps ==
    ASSUME SweepInv, EndLevel
    PROVE  SweepInv'
<1> USE ConstantFacts
<1> DEFINE row == summarizeLevel
           n == IF Len(results') < Len(Levels) THEN Levels[Len(results') + 1] ELSE 0
<1>1. /\ results \in Seq(Range(results)) /\ Len(results) <= Len(Levels) /\ Len(results) # Len(Levels)
      /\ results' = Append(results, row) /\ Level(n)
  BY DEF EndLevel, SweepInv, TypeInv, Returned
<1> HIDE DEF row
<1>3. /\ Len(results') = Len(results) + 1 /\ DOMAIN results' = 1..(Len(results) + 1)
      /\ DOMAIN results = 1..Len(results) /\ Len(results) \in Nat
      /\ \A j \in DOMAIN results : results'[j] = results[j]
      /\ results'[Len(results) + 1] = row
  BY <1>1
<1>4. results' \in Seq(Range(results'))
  <2>1. \A j \in 1..Len(results') : results'[j] \in Range(results')
    BY <1>3 DEF Range
  <2>2. results' \in Seq(Range(results) \cup {row})
    BY <1>1
  <2> QED BY <2>1, <2>2
<1>5. Len(results') <= Len(Levels)
  BY <1>1, <1>3
<1>7. n \in Nat /\ concurrency' = n
  BY <1>3, <1>5 DEF concurrency
<1> HIDE DEF n
<1>8. Workers' = 1..n /\ pc' = [i \in 1..n |-> "timer"] /\ since' = [i \in 1..n |-> 0]
      /\ deadline' = [i \in 1..n |-> 0] /\ completed' = [i \in 1..n |-> 0]
      /\ out' = [i \in 1..n |-> <<>>] /\ now' = 0
  BY <1>1, <1>7 DEF Workers, Level
<1>9. TypeInv'
  BY <1>4, <1>5, <1>8 DEF TypeInv, Places
<1>10. ClockInv' /\ LatencyInv'
  BY <1>8 DEF ClockInv, InTime, LatencyInv
<1>11. CountInv'
  <2>1. \A i \in 1..n : Off(i)' = 0 /\ pc'[i] = "timer"
    BY <1>8 DEF Off
  <2> QED BY <1>8, <2>1 DEF CountInv, OffOK
<1> QED BY <1>9, <1>10, <1>11 DEF SweepInv

(* Every step of the sweep keeps the invariant.                            *)
LEMMA NextSweepInv == SweepInv /\ [Next]_vars => SweepInv'
<1> SUFFICES ASSUME SweepInv, [Next]_vars PROVE SweepInv'
  OBVIOUS
<1>1. CASE UNCHANGED <<results, now, workerVars>>
  <2>1. Workers' = Workers
    BY <1>1 DEF Workers, concurrency
  <2>2. TypeInv' /\ ClockInv'
    BY <1>1, <2>1 DEF SweepInv, TypeInv, ClockInv, InTime, workerVars, measureEnd
  <2>3. CountInv' /\ LatencyInv'
    BY <1>1, <2>1 DEF SweepInv, CountInv, OffOK, Off, LatencyInv, workerVars, measureStart, measureEnd
  <2> QED BY <2>2, <2>3 DEF SweepInv
<1>2. CASE Cancel
  BY <1>1, <1>2 DEF Cancel
<1>3. CASE UNCHANGED vars
  BY <1>1, <1>3 DEF vars, workerVars
<1> QED BY <1>2, <1>3, WorkerKeeps, AnswerKeeps, TickKeeps, EndLevelKeeps DEF Next

(* Nobody falls behind the clock by more than its timeout and lag, and     *)
(* what a worker counted is what the window's answers are, or one off.     *)
THEOREM Invariance == Spec => []SweepInv
BY InitSweepInv, NextSweepInv, PTL DEF Spec

(* What a worker (sweep.go: runWorker) reports differs from the answers     *)
(* completed inside the window by one request at most, for any window,     *)
(* timeout and lag: the bound on how far the rows are from what            *)
(* sweep.go:44-46 says of them.                                            *)
THEOREM SamplesOfWindow == Spec => []OffByOneRequest
<1>1. SweepInv => OffByOneRequest
  BY DEF SweepInv, CountInv, OffOK, Off, OffByOneRequest
<1> QED BY <1>1, Invariance, PTL

(* ------------------------------ percentiles ------------------------------ *)

(* A set of numbers has a least one: what stands in for induction here.    *)
LEMMA Least ==
    ASSUME NEW S \in SUBSET Nat, S # {}
    PROVE  \E m \in S : \A k \in S : m <= k
<1>1. PICK m \in S : \A k \in S : ~(<<k, m>> \in OpToRel(<, Nat))
  BY NatLessThanWellFounded, WFMin
<1>2. \A k \in Nat : k < m => <<k, m>> \in OpToRel(<, Nat)
  BY DEF OpToRel
<1>3. \A k \in S : ~(k < m)
  BY <1>1, <1>2
<1> QED BY <1>3

(* A sample's latency is a number, and none is above one bound.            *)
LEMMA LatencyFacts ==
    ASSUME SweepInv, NEW x \in Samples
    PROVE  Latency(x) \in Nat /\ Latency(x) <= RequestTimeout + MaxLag
<1>1. PICK i \in Workers : x \in {i} \X DOMAIN out[i]
  BY DEF Samples
<1>2. x[1] = i /\ x[2] \in DOMAIN out[i]
  BY <1>1
<1>3. out[i] \in Seq(Sample) /\ out[i][x[2]] \in Sample
  BY <1>2 DEF SweepInv, TypeInv
<1>4. out[i][x[2]].latency <= RequestTimeout + MaxLag
  BY <1>2 DEF SweepInv, LatencyInv
<1> QED BY <1>2, <1>3, <1>4 DEF Latency, Sample

(* How many samples are below a latency, or not above it, is a number.     *)
LEMMA CountFacts ==
    ASSUME SweepInv, NEW v \in Int
    PROVE  Below(v) \in Nat /\ UpTo(v) \in Nat
<1>1. IsFiniteSet(Samples)
  BY SamplesFinite DEF SweepInv
<1>2. {x \in Samples : Latency(x) < v} \subseteq Samples /\ {x \in Samples : Latency(x) <= v} \subseteq Samples
  OBVIOUS
<1>3. IsFiniteSet({x \in Samples : Latency(x) < v}) /\ IsFiniteSet({x \in Samples : Latency(x) <= v})
  BY <1>1, <1>2, FS_Subset
<1> QED BY <1>3, FS_CardinalityType DEF Below, UpTo

(* Each place of the sorted samples is taken by one of them: the least     *)
(* number with enough samples not above it is a latency that occurred.     *)
LEMMA PlaceIsTaken ==
    ASSUME SweepInv, NEW k \in 1..Cardinality(Samples)
    PROVE  \E v \in {Latency(x) : x \in Samples} : Below(v) < k /\ k <= UpTo(v)
<1> DEFINE Enough == {v \in Nat : k <= UpTo(v)}
           b == RequestTimeout + MaxLag
<1>0. Cardinality(Samples) \in Nat /\ k \in Nat
  BY SamplesFinite DEF SweepInv
<1>1. b \in Enough
  <2>1. {x \in Samples : Latency(x) <= b} = Samples
    BY LatencyFacts
  <2>2. b \in Nat
    BY ConstantFacts
  <2> HIDE DEF b
  <2>3. UpTo(b) = Cardinality(Samples)
    BY <2>1 DEF UpTo
  <2>4. k <= UpTo(b)
    BY <2>3, <1>0
  <2> QED BY <2>2, <2>4
<1>2. PICK v \in Enough : \A u \in Enough : v <= u
  <2>1. Enough # {} /\ Enough \subseteq Nat
    BY <1>1
  <2> HIDE DEF Enough
  <2> QED BY <2>1, Least
<1>3. Below(v) < k
  <2>1. CASE v = 0
    <3>1. {x \in Samples : Latency(x) < v} = {}
      BY <2>1, LatencyFacts
    <3> QED BY <3>1, <1>0, FS_EmptySet DEF Below
  <2>2. CASE v # 0
    <3>1. v - 1 \in Nat /\ v - 1 \notin Enough
      BY <1>2, <2>2
    <3>2. UpTo(v - 1) < k
      BY <3>1, <1>0, CountFacts
    <3>3. {x \in Samples : Latency(x) < v} = {x \in Samples : Latency(x) <= v - 1}
      BY <1>2, LatencyFacts
    <3> QED BY <3>2, <3>3 DEF Below, UpTo
  <2> QED BY <2>1, <2>2
<1>4. v \in {Latency(x) : x \in Samples}
  <2> SUFFICES ASSUME \A x \in Samples : Latency(x) # v PROVE FALSE
    OBVIOUS
  <2>1. {x \in Samples : Latency(x) < v} = {x \in Samples : Latency(x) <= v}
    BY <1>2, LatencyFacts
  <2>2. Below(v) = UpTo(v)
    BY <2>1 DEF Below, UpTo
  <2> QED BY <1>0, <1>2, <1>3, <2>2, CountFacts
<1> QED BY <1>2, <1>3, <1>4

(* The rank of percentile: nearest-rank, never clamped for these shares.   *)
LEMMA RankFacts ==
    ASSUME NEW n \in Nat \ {0}, NEW p \in 1..99
    PROVE  LET r == Max({1, Min({n, (p * n + 99) \div 100})})
           IN  r \in 1..n /\ 100 * r >= p * n /\ 100 * (r - 1) < p * n
<1> DEFINE c == (p * n + 99) \div 100
<1>1. PICK m \in Nat : m = p * n /\ 1 <= m /\ m <= 99 * n
  <2>1. p * n \in Nat /\ 1 <= p * n /\ p * n <= 99 * n
    OBVIOUS
  <2> QED BY <2>1
<1>2. c \in Nat /\ 100 * c <= m + 99 /\ m < 100 * c + 1
  <2>1. c = (m + 99) \div 100
    BY <1>1
  <2> HIDE DEF c
  <2> QED BY <2>1
<1> HIDE DEF c
<1>3. 1 <= c /\ c <= n
  BY <1>1, <1>2
<1>4. Min({n, c}) = c
  <2>1. \A x \in {n, c} : (\A y \in {n, c} : x <= y) <=> x = c
    BY <1>2, <1>3
  <2> QED BY <2>1 DEF Min
<1>5. Max({1, c}) = c
  <2>1. \A x \in {1, c} : (\A y \in {1, c} : x >= y) <=> x = c
    BY <1>2, <1>3
  <2> QED BY <2>1 DEF Max
<1>6. c \in 1..n /\ 100 * c >= m /\ 100 * (c - 1) < m
  BY <1>2, <1>3
<1> QED BY <1>1, <1>4, <1>5, <1>6 DEF c

(* A percentile of a level that counted something is a latency that        *)
(* occurred, with its share of the samples at or below and less than that  *)
(* share below.                                                            *)
LEMMA PercentileTells ==
    ASSUME SweepInv, Cardinality(Samples) > 0, NEW p \in 1..99
    PROVE  LET n == Cardinality(Samples)
               v == percentile(sorted, p)
           IN  /\ \E x \in Samples : v = Latency(x)
               /\ 100 * UpTo(v) >= p * n /\ 100 * Below(v) < p * n
<1> DEFINE n == Cardinality(Samples)
           r == Max({1, Min({n, (p * n + 99) \div 100})})
           v == percentile(sorted, p)
           At(k, u) == Below(u) < k /\ k <= UpTo(u)
<1>1. n \in Nat \ {0}
  BY SamplesFinite DEF SweepInv
<1>2. r \in 1..n /\ 100 * r >= p * n /\ 100 * (r - 1) < p * n
  <2> HIDE DEF n
  <2> QED BY <1>1, RankFacts
<1>3. \A k \in 1..n : \E u \in {Latency(x) : x \in Samples} : At(k, u)
  BY PlaceIsTaken
<1>4. \A k \in 1..n : sorted[k] \in {Latency(x) : x \in Samples} /\ At(k, sorted[k])
  <2> SUFFICES ASSUME NEW k \in 1..n
               PROVE  sorted[k] \in {Latency(x) : x \in Samples} /\ At(k, sorted[k])
    OBVIOUS
  <2>1. sorted[k] = CHOOSE u \in {Latency(x) : x \in Samples} : At(k, u)
    BY DEF sorted
  <2> HIDE DEF n, At
  <2> QED BY <1>3, <2>1
<1>5. Len(sorted) = n /\ sorted # <<>>
  <2>1. DOMAIN sorted = 1..n
    BY DEF sorted
  <2>2. \A k \in 1..n : sorted[k] \in {Latency(x) : x \in Samples}
    BY <1>4
  <2>3. sorted = [k \in 1..n |-> sorted[k]]
    BY DEF sorted
  <2> HIDE DEF n
  <2>4. sorted \in Seq({Latency(x) : x \in Samples})
    BY <1>1, <2>2, <2>3
  <2> QED BY <1>1, <2>1, <2>4
<1>6. v = sorted[r]
  BY <1>5 DEF percentile
<1> HIDE DEF r
<1>7. v \in {Latency(x) : x \in Samples} /\ Below(v) < r /\ r <= UpTo(v)
  BY <1>2, <1>4, <1>6
<1>8. Below(v) \in Nat /\ UpTo(v) \in Nat
  <2>1. v \in Int
    BY <1>7, LatencyFacts
  <2> HIDE DEF v
  <2> QED BY <2>1, CountFacts
<1>9. 100 * UpTo(v) >= p * n /\ 100 * Below(v) < p * n
  <2>1. p * n \in Nat
    BY <1>1
  <2> HIDE DEF v, n
  <2> QED BY <1>1, <1>2, <1>7, <1>8, <2>1
<1> QED BY <1>7, <1>9

(* When a row is made (sweep.go: summarizeLevel, after wg.Wait) no request *)
(* of its level is out, and its percentiles are those of the latencies     *)
(* counted.                                                                *)
THEOREM RowsAreTrue == Spec => RowTellsLevel
<1> DEFINE n == Cardinality(Samples)
           Tells(v, p) ==
             /\ \E x \in Samples : v = Latency(x)
             /\ 100 * UpTo(v) >= p * n /\ 100 * Below(v) < p * n
           Row == LET row == Last(results')
                  IN  /\ \A i \in Workers : pc[i] \notin {"fire", "requesting"}
                      /\ n > 0 => Tells(row.p50, 50) /\ Tells(row.p95, 95) /\ Tells(row.p99, 99)
<1>1. SweepInv /\ [Next]_vars => [results' # results => Row]_vars
  <2> SUFFICES ASSUME SweepInv, Next, results' # results PROVE Row
    OBVIOUS
  <2>1. EndLevel
    BY DEF Next, WorkerStep, Start, Check, Fire, Expire, Answer, Tick, Cancel
  <2>2. \A i \in Workers : pc[i] \notin {"fire", "requesting"}
    BY <2>1 DEF EndLevel
  <2>3. Last(results') = summarizeLevel
    <3> DEFINE row == summarizeLevel
    <3>1. results' = Append(results, row) /\ results \in Seq(Range(results))
      BY <2>1 DEF EndLevel, SweepInv, TypeInv
    <3> HIDE DEF row
    <3>2. Len(results') = Len(results) + 1 /\ results'[Len(results) + 1] = row
      BY <3>1
    <3> QED BY <3>2 DEF Last, row
  <2>4. ASSUME n > 0
        PROVE  /\ Tells(percentile(sorted, 50), 50) /\ Tells(percentile(sorted, 95), 95)
               /\ Tells(percentile(sorted, 99), 99)
    BY <2>4, PercentileTells
  <2>5. /\ summarizeLevel.p50 = percentile(sorted, 50)
        /\ summarizeLevel.p95 = percentile(sorted, 95)
        /\ summarizeLevel.p99 = percentile(sorted, 99)
    BY DEF summarizeLevel
  <2> HIDE DEF n, Tells
  <2> QED BY <2>2, <2>3, <2>4, <2>5
<1> QED BY <1>1, Invariance, PTL DEF Spec, RowTellsLevel

-----------------------------------------------------------------------------
(* How long a level lasts.                                                 *)

(* A level's last answer is due.                                           *)
Longest == Later(RequestTimeout, MaxLag)

(* What holds the clock back: each worker that waits goes on in time, and  *)
(* the last thing it may wait for is its look at the clock.                *)
TimeInv ==
    /\ LevelIsBounded
    /\ \A i \in Workers :
         /\ pc[i] = "timer" => now <= RampUp + MaxLag
         /\ pc[i] = "check" => since[i] < measureEnd + Longest + MaxLag

(* Workers start within the ramp-up.                                       *)
LEMMA StaggerFacts ==
    ASSUME TypeInv, NEW i \in Workers
    PROVE  startDelay(i) \in Int /\ startDelay(i) <= RampUp
<1> DEFINE c == concurrency
           m == RampUp * (i - 1)
<1>1. c \in Nat /\ RampUp \in Nat /\ i \in 1..c
  BY ConcurrencyType, ConstantFacts DEF Workers
<1> HIDE DEF c
<1>2. m \in Nat /\ m <= RampUp * c /\ RampUp * c \in Nat
  <2>1. i - 1 \in Nat /\ i - 1 <= c
    BY <1>1
  <2>2. \A x, y, z \in Nat : x <= y => z * x <= z * y
    OBVIOUS
  <2> QED BY <1>1, <2>1, <2>2
<1> HIDE DEF m
<1>3. c > 1 => m \div c \in Nat /\ m \div c <= RampUp
  <2> SUFFICES ASSUME c > 1 PROVE m \div c \in Nat /\ m \div c <= RampUp
    OBVIOUS
  <2> DEFINE q == m \div c
  <2>1. q \in Nat /\ c * q <= m
    BY <1>1, <1>2
  <2> HIDE DEF q
  <2>2. c * q <= RampUp * c
    BY <1>1, <1>2, <2>1
  <2>3. q <= RampUp
    BY <1>1, <2>1, <2>2
  <2> QED BY <2>1, <2>3 DEF q
<1> QED BY <1>1, <1>3 DEF startDelay, c, m

(* The longest a request is waited for.                                    *)
LEMMA LongestFacts ==
    /\ Longest \in Nat /\ RequestTimeout <= Longest /\ MaxLag <= Longest
    /\ RampUp \in Nat /\ RampUp <= measureEnd
BY ConstantFacts DEF Longest, Later, measureEnd

LEMMA InitTimeInv == Init => TimeInv
<1> SUFFICES ASSUME Init PROVE TimeInv
  OBVIOUS
<1>1. now = 0 /\ \A i \in Workers : pc[i] = "timer"
  BY DEF Init
<1> QED BY <1>1, ConstantFacts, LongestFacts DEF TimeInv, LevelIsBounded, Longest

(* A request is answered, or given up, within the longest wait and a lag.  *)
LEMMA RequestEnds ==
    ASSUME SweepInv, NEW i \in Workers, pc[i] = "requesting"
    PROVE  /\ Later(since[i], deadline[i]) \in Nat
           /\ Later(since[i], deadline[i]) < measureEnd + Longest
           /\ now <= Later(since[i], deadline[i]) + MaxLag
<1>1. /\ since[i] \in Nat /\ deadline[i] \in Nat /\ measureEnd \in Nat
      /\ since[i] < measureEnd + MaxLag /\ deadline[i] < measureEnd + RequestTimeout
      /\ now <= Later(since[i], deadline[i]) + MaxLag
  BY WorkerFacts DEF InTime
<1> QED BY <1>1, LongestFacts, ConstantFacts DEF Later

(* Wherever a worker is, the tick by which it goes on is within the level. *)
LEMMA DueFacts ==
    ASSUME SweepInv, TimeInv, NEW i \in Workers, pc[i] # "done"
    PROVE  /\ Due(i) \in Int /\ Due(i) < measureEnd + Longest + 2 * MaxLag
           /\ pc[i] = "timer" => Due(i) <= RampUp + MaxLag
<1> USE ConstantFacts, LongestFacts, WorkerFacts
<1>1. pc[i] \in Places
  BY DEF SweepInv, TypeInv
<1>2. CASE pc[i] = "timer"
  <2>1. Due(i) = startDelay(i) + MaxLag
    BY <1>2 DEF Due
  <2>2. startDelay(i) \in Int /\ startDelay(i) <= RampUp
    BY StaggerFacts DEF SweepInv
  <2>3. RampUp + MaxLag < measureEnd + Longest + 2 * MaxLag
    BY DEF Longest, Later
  <2> QED BY <2>1, <2>2, <2>3
<1>3. CASE pc[i] = "check"
  <2>1. Due(i) = since[i] + MaxLag /\ since[i] < measureEnd + Longest + MaxLag
    BY <1>3 DEF Due, TimeInv
  <2> QED BY <1>3, <2>1
<1>4. CASE pc[i] = "fire"
  <2>1. Due(i) = since[i] + MaxLag /\ since[i] < measureEnd
    BY <1>4 DEF Due, InTime
  <2> QED BY <1>4, <2>1
<1>5. CASE pc[i] = "requesting"
  <2>1. Due(i) = Later(since[i], deadline[i]) + MaxLag
    BY <1>5 DEF Due
  <2>2. Later(since[i], deadline[i]) \in Nat /\ Later(since[i], deadline[i]) < measureEnd + Longest
    BY <1>5, RequestEnds
  <2> QED BY <1>5, <2>1, <2>2
<1> QED BY <1>1, <1>2, <1>3, <1>4, <1>5 DEF Places

(* A worker that goes somewhere has waited no longer than it may.          *)
LEMMA GoInTime ==
    ASSUME SweepInv, TimeInv, NEW i \in Workers, NEW place \in {"check", "fire", "requesting", "done"},
           Go(i, place), UNCHANGED <<results, now>>,
           place = "check" => now < measureEnd + Longest + MaxLag
    PROVE  TimeInv'
<1>1. Workers' = Workers /\ measureEnd' = measureEnd /\ Longest' = Longest
  BY DEF Workers, concurrency, measureEnd, Longest
<1>2. LevelIsBounded'
  BY <1>1 DEF TimeInv, LevelIsBounded
<1>3. ASSUME NEW w \in Workers
      PROVE  /\ pc'[w] = "timer" => now <= RampUp + MaxLag
             /\ pc'[w] = "check" => since'[w] < measureEnd + Longest + MaxLag
  <2>1. CASE w = i
    <3>1. pc'[w] = place /\ since'[w] = now
      BY <2>1 DEF Go, SweepInv, TypeInv
    <3> QED BY <3>1
  <2>2. CASE w # i
    <3>1. pc'[w] = pc[w] /\ since'[w] = since[w]
      BY <2>2 DEF Go, SweepInv, TypeInv
    <3> QED BY <3>1 DEF TimeInv
  <2> QED BY <2>1, <2>2
<1> QED BY <1>1, <1>2, <1>3 DEF TimeInv

LEMMA WorkerInTime ==
    ASSUME SweepInv, TimeInv, NEW i \in Workers, WorkerStep(i) \/ Answer(i)
    PROVE  TimeInv'
<1> USE ConstantFacts, LongestFacts, WorkerFacts
<1>1. CASE Start(i)
  <2>1. pc[i] = "timer" /\ UNCHANGED <<results, now>>
    BY <1>1 DEF Start
  <2>2. now <= RampUp + MaxLag
    BY <2>1 DEF TimeInv
  <2>3. Longest > 0
    BY DEF Longest, Later
  <2>4. now < measureEnd + Longest + MaxLag
    BY <2>2, <2>3
  <2>5. PICK place \in {"check", "done"} : Go(i, place)
    BY <1>1 DEF Start
  <2> QED BY <2>1, <2>4, <2>5, GoInTime
<1>2. CASE Check(i)
  <2>1. UNCHANGED <<results, now>>
    BY <1>2 DEF Check
  <2>2. PICK place \in {"fire", "done"} : Go(i, place)
    BY <1>2 DEF Check
  <2> QED BY <2>1, <2>2, GoInTime
<1>3. CASE Fire(i)
  <2>1. UNCHANGED <<results, now>>
    BY <1>3 DEF Fire
  <2>2. PICK place \in {"requesting", "done"} : Go(i, place)
    BY <1>3 DEF Fire
  <2> QED BY <2>1, <2>2, GoInTime
<1>4. CASE Expire(i) \/ Answer(i)
  <2>1. pc[i] = "requesting" /\ UNCHANGED <<results, now>> /\ Go(i, "check")
    BY <1>4 DEF Expire, Answer
  <2>2. /\ Later(since[i], deadline[i]) \in Nat /\ Later(since[i], deadline[i]) < measureEnd + Longest
        /\ now <= Later(since[i], deadline[i]) + MaxLag
    BY <2>1, RequestEnds
  <2>3. now < measureEnd + Longest + MaxLag
    BY <2>2
  <2> QED BY <2>1, <2>3, GoInTime
<1> QED BY <1>1, <1>2, <1>3, <1>4 DEF WorkerStep

LEMMA NextTimeInv == SweepInv /\ TimeInv /\ [Next]_vars => TimeInv'
<1> SUFFICES ASSUME SweepInv, TimeInv, [Next]_vars PROVE TimeInv'
  OBVIOUS
<1> USE ConstantFacts, LongestFacts
<1>1. CASE UNCHANGED <<results, now, pc, since>>
  BY <1>1 DEF TimeInv, LevelIsBounded, Longest, Workers, concurrency, measureEnd
<1>2. CASE Cancel \/ UNCHANGED vars
  BY <1>1, <1>2 DEF Cancel, workerVars, vars
<1>3. CASE Tick
  <2>1. /\ Workers' = Workers /\ measureEnd' = measureEnd /\ now' = now + 1 /\ now \in Nat
        /\ UNCHANGED <<results, pc, since>>
    BY <1>3 DEF Tick, Workers, concurrency, measureEnd, workerVars, SweepInv, TypeInv
  <2>2. PICK i \in Workers : pc[i] # "done"
    BY <1>3 DEF Tick
  <2>3. \A w \in Workers : pc[w] # "done" => now < Due(w)
    BY <1>3 DEF Tick
  <2>4. now + 1 < measureEnd + Longest + 2 * MaxLag
    BY <2>1, <2>2, <2>3, DueFacts
  <2>5. \A w \in Workers : pc[w] = "timer" => now + 1 <= RampUp + MaxLag
    BY <2>1, <2>3, DueFacts
  <2>6. LevelIsBounded'
    BY <2>1, <2>4 DEF LevelIsBounded, Longest
  <2>7. ASSUME NEW w \in Workers
        PROVE  /\ pc'[w] = "timer" => now' <= RampUp + MaxLag
               /\ pc'[w] = "check" => since'[w] < measureEnd + Longest + MaxLag
    BY <2>1, <2>5 DEF TimeInv
  <2> QED BY <2>1, <2>6, <2>7 DEF TimeInv, Longest
<1>4. CASE EndLevel
  <2> DEFINE n == IF Len(results') < Len(Levels) THEN Levels[Len(results') + 1] ELSE 0
  <2>1. now' = 0 /\ pc' = [i \in 1..n |-> "timer"]
    BY <1>4 DEF EndLevel, Level
  <2>2. Workers' = 1..n
    BY DEF Workers, concurrency
  <2> HIDE DEF n
  <2>3. \A i \in Workers' : pc'[i] = "timer"
    BY <2>1, <2>2
  <2>4. measureEnd' = measureEnd
    BY DEF measureEnd
  <2>5. LevelIsBounded'
    BY <2>1, <2>4 DEF LevelIsBounded, Longest
  <2>6. 0 <= RampUp + MaxLag
    OBVIOUS
  <2> QED BY <2>1, <2>3, <2>5, <2>6 DEF TimeInv
<1> QED BY <1>2, <1>3, <1>4, WorkerInTime DEF Next

(* Whatever the backend does, a level (sweep.go: Sweep's wg.Wait) is over   *)
(* within its window, the longer of a request timeout and a lag, and two    *)
(* lags more: what SweepReturns  *)
(* says of ever, with a number.                                             *)
THEOREM LevelEndsInTime == Spec => []LevelIsBounded
<1>1. TimeInv => LevelIsBounded
  BY DEF TimeInv
<1> QED BY <1>1, Invariance, InitTimeInv, NextTimeInv, PTL DEF Spec
=============================================================================
