-------------------------- MODULE ControllerProofs --------------------------
(***************************************************************************)
(* Proofs about Controller, for every set of acquirers and every           *)
(* configuration that buildController accepts.                             *)
(***************************************************************************)
EXTENDS Controller, FiniteSetTheorems, TLAPS

(* Every branch of adjust() keeps the limit a positive integer: shrink has *)
(* its floor of 1, grow adds at least 1.                                   *)
LEMMA BranchType ==
  ASSUME NEW b \in Branches, NEW l \in Nat \ {0}
  PROVE  Branch(b, l) \in Nat \ {0}
<1>1. \A m \in {60, 75, 70, 85, 105} : Round(l, m) \in Int
  BY DEF Round
<1>2. \A m \in {60, 75, 70, 85} : shrink(l, m) \in Nat \ {0}
  BY <1>1 DEF shrink
<1>3. grow(l, 105) \in Nat \ {0}
  BY <1>1 DEF grow
<1>4. QED
  BY <1>2, <1>3 DEF Branch, Branches, timeoutShrinkMultiplier,
     errorShrinkMultiplier, p95HardShrinkMultiplier,
     p95SoftShrinkMultiplier, growMultiplier

(* The limit adjust() installs is positive, and never above the larger of  *)
(* the two bounds even if they are configured the wrong way round.         *)
LEMMA ClampType ==
  ASSUME NEW v \in Nat \ {0}
  PROVE  LET c == clampInt(v, MinConcurrency, MaxConcurrency)
         IN  /\ c \in Nat \ {0}
             /\ c <= MinConcurrency \/ c <= MaxConcurrency
BY ControllerAssumption DEF clampInt

(* Ceiling is one of the configured limits and at least each of them.      *)
LEMMA CeilingType ==
  /\ Ceiling \in Nat \ {0}
  /\ InitialConcurrency <= Ceiling
  /\ kind = "adaptive" => MinConcurrency <= Ceiling /\ MaxConcurrency <= Ceiling
<1> DEFINE S == {InitialConcurrency, MinConcurrency, MaxConcurrency}
<1>1. \E m \in S : \A n \in S : m >= n
  BY ControllerAssumption
<1>2. Max(S) \in S /\ \A n \in S : Max(S) >= n
  BY <1>1 DEF Max
<1>3. QED
  BY <1>2, ControllerAssumption DEF Ceiling

(* What the adjustment loop owes in each of its states.                    *)
LoopInv ==
  /\ loop = "wake" => owed > 0
  /\ loop \notin {"changed", "wake"} => owed = 0
  /\ loop # "changed" => gauge = limit
  /\ kind = "fixed" => loop = "off"
  /\ stopping = "returned" => loop \in {"off", "done"}

IInv == TypeOK /\ LoopInv /\ NoLostWakeup /\ OverloadBounded

(* Counting goroutines in two states of Acquire when one changes state.    *)
LEMMA Finite ==
  /\ IsFiniteSet(Parked) /\ IsFiniteSet(Woken)
  /\ IsFiniteSet(Parked') /\ IsFiniteSet(Woken')
<1>1. \A T \in SUBSET Acquirers : IsFiniteSet(T)
  BY ControllerAssumption, FS_Subset
<1>2. QED
  BY <1>1 DEF Parked, Woken

(* The parked and the woken acquirers are finitely many.                   *)
LEMMA Counts ==
  /\ Cardinality(Parked) \in Nat /\ Cardinality(Woken) \in Nat
  /\ Cardinality(Parked') \in Nat /\ Cardinality(Woken') \in Nat
BY Finite, FS_CardinalityType

(* A Signal moves one goroutine from Parked to Woken if there is one.      *)
LEMMA SignalCounts ==
  ASSUME TypeOK, Signal
  PROVE  \/ Parked = {} /\ UNCHANGED <<Parked, Woken>>
         \/ /\ Cardinality(Parked') = Cardinality(Parked) - 1
            /\ Cardinality(Woken') = Cardinality(Woken) + 1
<1>1. CASE Parked = {} /\ UNCHANGED acq
  BY <1>1 DEF Parked, Woken
<1>2. CASE \E a \in Parked : acq' = [acq EXCEPT ![a] = "woken"]
  <2>1. PICK a \in Parked : acq' = [acq EXCEPT ![a] = "woken"]
    BY <1>2
  <2>2. Parked' = Parked \ {a} /\ Woken' = Woken \cup {a} /\ a \notin Woken
    BY <2>1 DEF Parked, Woken, TypeOK
  <2>3. QED
    BY <2>1, <2>2, Finite, FS_AddElement, FS_RemoveElement
<1>3. QED
  BY <1>1, <1>2 DEF Signal

(* An Acquire that gets its unit parks nobody, and unblocks at most        *)
(* itself.                                                                 *)
LEMMA AcquireCounts ==
  ASSUME TypeOK, NEW a \in Acquirers, Acquire(a), inFlight + 1 <= limit
  PROVE  /\ Parked' = Parked
         /\ Cardinality(Woken') >= Cardinality(Woken) - 1
<1>1. Parked' = Parked /\ Woken' = Woken \ {a}
  BY DEF Acquire, Parked, Woken, TypeOK
<1>2. Cardinality(Woken \ {a}) >= Cardinality(Woken) - 1
  <2>1. Cardinality(Woken \ {a})
          = IF a \in Woken THEN Cardinality(Woken) - 1 ELSE Cardinality(Woken)
    BY Finite, FS_RemoveElement
  <2>2. QED
    BY <2>1, Counts
<1>3. QED
  BY <1>1, <1>2

(* The controller starts with its limit within the clamp, and idle.        *)
LEMMA InitIInv == Init => IInv
<1> SUFFICES ASSUME Init PROVE IInv
  OBVIOUS
<1>1. TypeOK
  <2>1. waking \in 0..MaxWaking /\ limit \in Nat \ {0} /\ gauge \in Nat
    BY ControllerAssumption DEF Init
  <2>2. QED
    BY <2>1 DEF Init, TypeOK
<1>2. LoopInv
  BY DEF Init, LoopInv
<1>3. NoLostWakeup
  <2>1. Parked = {}
    BY DEF Init, Parked
  <2>2. Cardinality(Parked) = 0
    BY <2>1, FS_EmptySet
  <2>3. QED
    BY <2>2 DEF Init, NoLostWakeup
<1>4. OverloadBounded
  BY CeilingType DEF Init, OverloadBounded
<1>5. QED
  BY <1>1, <1>2, <1>3, <1>4 DEF IInv

(* The adjustment: what it does to limit, owed and loop at once.           *)
LEMMA AdjustFacts ==
  ASSUME IInv, NEW b \in Branches, adjust(b)
  PROVE  \E n \in Nat \ {0} :
           /\ limit' = n /\ n <= Ceiling
           /\ owed = 0 /\ owed' = IF n > limit THEN n - limit ELSE 0
           /\ loop' = IF n # limit THEN "changed" ELSE "select"
           /\ kind = "adaptive" /\ gauge = limit /\ stopping # "returned"
<1> DEFINE n == clampInt(Branch(b, limit), MinConcurrency, MaxConcurrency)
<1>1. /\ limit \in Nat \ {0} /\ loop = "select" /\ owed = 0
      /\ kind = "adaptive" /\ gauge = limit /\ stopping # "returned"
  BY ControllerAssumption DEF IInv, TypeOK, LoopInv, adjust
<1>2. n \in Nat \ {0} /\ (n <= MinConcurrency \/ n <= MaxConcurrency)
  BY <1>1, BranchType, ClampType
<1>3. n <= Ceiling
  BY <1>1, <1>2, CeilingType, ControllerAssumption
<1>4. /\ limit' = n
      /\ owed' = IF n - limit > 0 THEN n - limit ELSE 0
      /\ loop' = IF n - limit # 0 THEN "changed" ELSE "select"
  BY DEF adjust
<1> HIDE DEF n
<1>5. (n - limit > 0 <=> n > limit) /\ (n - limit # 0 <=> n # limit)
  BY <1>1, <1>2
<1>6. QED
  BY <1>1, <1>2, <1>3, <1>4, <1>5

(* Every step of the controller keeps the invariant.                       *)
LEMMA NextIInv == IInv /\ [Next]_vars => IInv'
<1> SUFFICES ASSUME IInv, [Next]_vars PROVE IInv'
  OBVIOUS
<1> USE DEF loopVars
<1>1. ASSUME NEW a \in Acquirers, Acquire(a) PROVE IInv'
  <2>1. TypeOK'
    BY <1>1 DEF IInv, TypeOK, Acquire
  <2>2. LoopInv'
    BY <1>1 DEF IInv, LoopInv, Acquire
  <2>3. CASE inFlight + 1 > limit
    <3>1. inFlight' = inFlight /\ limit' = limit
      BY <1>1, <2>3 DEF Acquire, IInv, TypeOK
    <3>2. limit' - inFlight' <= Wakeups'
      BY <3>1, <2>3, <2>1, Counts DEF IInv, TypeOK, Wakeups
    <3>3. QED
      BY <2>1, <2>2, <3>1, <3>2 DEF IInv, NoLostWakeup, OverloadBounded
  <2>4. CASE inFlight + 1 <= limit
    <3>1. /\ inFlight' = inFlight + 1 /\ UNCHANGED <<limit, waking, owed>>
          /\ Parked' = Parked
          /\ Cardinality(Woken') >= Cardinality(Woken) - 1
      BY <1>1, <2>4, AcquireCounts DEF Acquire, IInv, TypeOK
    <3>2. Cardinality(Woken') \in Nat /\ Cardinality(Woken) \in Nat
      BY Counts
    <3>3. NoLostWakeup'
      BY <3>1, <3>2, Counts DEF IInv, TypeOK, NoLostWakeup, Wakeups
    <3>4. OverloadBounded'
      BY <3>1, <2>4, CeilingType DEF IInv, TypeOK, OverloadBounded, Ceiling
    <3>5. QED
      BY <2>1, <2>2, <3>3, <3>4 DEF IInv
  <2>5. QED
    BY <2>3, <2>4 DEF IInv, TypeOK
<1>2. ASSUME Release \/ ReleaseUnused PROVE IInv'
  <2>1. FreeUnit /\ sampled' \in BOOLEAN
    BY <1>2 DEF Release, ReleaseUnused, IInv, TypeOK
  <2>2. TypeOK' /\ LoopInv'
    BY <2>1, ControllerAssumption DEF IInv, TypeOK, LoopInv, FreeUnit
  <2>3. Parked' = Parked /\ Woken' = Woken
    BY <2>1 DEF FreeUnit, Parked, Woken
  <2>4. NoLostWakeup'
    BY <2>1, <2>3, Counts DEF IInv, TypeOK, NoLostWakeup, Wakeups, FreeUnit
  <2>5. OverloadBounded'
    BY <2>1, CeilingType DEF IInv, TypeOK, OverloadBounded, FreeUnit, Ceiling
  <2>6. QED
    BY <2>2, <2>4, <2>5 DEF IInv
<1>3. ASSUME WakeOne \/ WakeDelta PROVE IInv'
  <2>1. Signal /\ UNCHANGED <<limit, inFlight, sampled, gauge, stopping>>
    BY <1>3 DEF WakeOne, WakeDelta
  <2>2. \/ waking > 0 /\ waking' = waking - 1 /\ owed' = owed /\ loop' = loop
        \/ /\ owed > 0 /\ waking' = waking /\ owed' = owed - 1
           /\ loop' = IF owed = 1 THEN "select" ELSE "wake"
           /\ loop = "wake"
    BY <1>3 DEF WakeOne, WakeDelta, IInv, LoopInv
  <2>3. waking \in 0..MaxWaking /\ owed \in Nat /\ limit \in Nat /\ inFlight \in Nat
    BY DEF IInv, TypeOK
  <2>4. acq' \in [Acquirers -> {"ready", "parked", "woken"}]
    BY <2>1 DEF Signal, Parked, IInv, TypeOK
  <2>5. waking' \in 0..MaxWaking /\ owed' \in Nat
    BY <2>2, <2>3, ControllerAssumption
  <2>6. TypeOK'
    BY <2>1, <2>2, <2>4, <2>5 DEF IInv, TypeOK
  <2>7. LoopInv'
    BY <2>1, <2>2, <2>3 DEF IInv, LoopInv
  <2>8. NoLostWakeup'
    <3>1. CASE Parked = {} /\ UNCHANGED <<Parked, Woken>>
      <4>1. Cardinality(Parked') = 0
        BY <3>1, FS_EmptySet
      <4>2. QED
        BY <4>1, <2>2, <2>3, ControllerAssumption DEF NoLostWakeup
    <3>2. CASE /\ Cardinality(Parked') = Cardinality(Parked) - 1
               /\ Cardinality(Woken') = Cardinality(Woken) + 1
      BY <2>1, <2>2, <2>3, <3>2, Counts, ControllerAssumption
         DEF IInv, NoLostWakeup, Wakeups
    <3>3. QED
      BY <2>1, <3>1, <3>2, SignalCounts DEF IInv
  <2>9. OverloadBounded'
    BY <2>1 DEF IInv, OverloadBounded, Ceiling
  <2>10. QED
    BY <2>6, <2>7, <2>8, <2>9 DEF IInv
<1>4. ASSUME NEW b \in Branches, adjust(b) PROVE IInv'
  <2>1. UNCHANGED <<inFlight, acq, waking, sampled, gauge, stopping>>
    BY <1>4 DEF adjust
  <2>2. PICK n \in Nat \ {0} :
           /\ limit' = n /\ n <= Ceiling
           /\ owed = 0 /\ owed' = IF n > limit THEN n - limit ELSE 0
           /\ loop' = IF n # limit THEN "changed" ELSE "select"
           /\ kind = "adaptive" /\ gauge = limit /\ stopping # "returned"
    BY <1>4, AdjustFacts
  <2>3. /\ limit \in Nat /\ waking \in 0..MaxWaking /\ inFlight \in Nat
    BY DEF IInv, TypeOK
  <2>4. owed' \in Nat
    BY <2>2, <2>3
  <2>5. TypeOK'
    BY <2>1, <2>2, <2>4 DEF IInv, TypeOK
  <2>6. LoopInv'
    BY <2>1, <2>2, <2>3 DEF LoopInv
  <2>7. Parked' = Parked /\ Woken' = Woken
    BY <2>1 DEF Parked, Woken
  <2>8. NoLostWakeup'
    BY <2>1, <2>2, <2>3, <2>7, Counts, ControllerAssumption
       DEF IInv, NoLostWakeup, Wakeups
  <2>9. OverloadBounded'
    BY <2>1, <2>2 DEF IInv, OverloadBounded, Ceiling
  <2>10. QED
    BY <2>5, <2>6, <2>8, <2>9 DEF IInv
<1>5. ASSUME Start \/ onLimitChange \/ LoopExit \/ StopCall \/ StopReturn
             \/ UNCHANGED vars
      PROVE  IInv'
  <2>1. UNCHANGED <<limit, inFlight, acq, waking, owed, sampled>>
    BY <1>5 DEF Start, onLimitChange, LoopExit, StopCall, StopReturn, vars
  <2>2. TypeOK' /\ LoopInv'
    <3>1. CASE Start
      BY <3>1 DEF Start, IInv, TypeOK, LoopInv
    <3>2. CASE onLimitChange
      BY <3>2 DEF onLimitChange, IInv, TypeOK, LoopInv
    <3>3. CASE LoopExit
      BY <3>3 DEF LoopExit, IInv, TypeOK, LoopInv
    <3>4. CASE StopCall
      BY <3>4 DEF StopCall, IInv, TypeOK, LoopInv
    <3>5. CASE StopReturn
      BY <3>5 DEF StopReturn, IInv, TypeOK, LoopInv
    <3>6. CASE UNCHANGED vars
      BY <3>6 DEF vars, IInv, TypeOK, LoopInv
    <3>7. QED
      BY <1>5, <3>1, <3>2, <3>3, <3>4, <3>5, <3>6
  <2>3. Parked' = Parked /\ Woken' = Woken
    BY <2>1 DEF Parked, Woken
  <2>4. NoLostWakeup' /\ OverloadBounded'
    BY <2>1, <2>3 DEF IInv, NoLostWakeup, Wakeups, OverloadBounded, Ceiling
  <2>5. QED
    BY <2>2, <2>4 DEF IInv
<1>6. QED
  BY <1>1, <1>2, <1>3, <1>4, <1>5 DEF Next, LoopNext

(* The inductive invariant holds in every reachable state.                 *)
THEOREM Invariance == Spec => []IInv
BY InitIInv, NextIInv, PTL DEF Spec

(* The limit stays a positive integer and inFlight a natural number: no    *)
(* release is ever subtracted twice and no Acquire deadlocks on limit 0.   *)
THEOREM TypeCorrect == Spec => []TypeOK
<1>1. IInv => TypeOK
  BY DEF IInv
<1>2. QED
  BY <1>1, Invariance, PTL

(* wake() outside the lock, one Signal per freed unit, never loses the     *)
(* wake-up a parked Acquire needs.                                         *)
THEOREM WakeupsSuffice == Spec => []NoLostWakeup
<1>1. IInv => NoLostWakeup
  BY DEF IInv
<1>2. QED
  BY <1>1, Invariance, PTL

(* Never more units are out than the largest configured limit.             *)
THEOREM OverloadProtection == Spec => []OverloadBounded
<1>1. IInv => OverloadBounded
  BY DEF IInv
<1>2. QED
  BY <1>1, Invariance, PTL

(* The gauge is behind the limit only while its callback is under way.     *)
THEOREM GaugeFollowsLimit == Spec => []GaugeCurrent
<1>1. IInv => GaugeCurrent
  BY DEF IInv, LoopInv, GaugeCurrent
<1>2. QED
  BY <1>1, Invariance, PTL

(* A shrink is drained: over the limit, inFlight can only fall.            *)
THEOREM ShrinkDrains == Spec => OverLimitOnlyDrains
<1>1. ASSUME IInv, [Next]_vars, inFlight > limit
      PROVE  inFlight' <= inFlight
  <2>1. \A a \in Acquirers : Acquire(a) => inFlight' = inFlight
    BY <1>1 DEF Acquire, IInv, TypeOK
  <2>2. Release \/ ReleaseUnused => inFlight' = inFlight - 1
    BY DEF Release, ReleaseUnused, FreeUnit
  <2>3. WakeOne \/ LoopNext \/ UNCHANGED vars => inFlight' = inFlight
    BY DEF WakeOne, LoopNext, Start, adjust, onLimitChange, WakeDelta,
           LoopExit, StopCall, StopReturn, vars
  <2>4. QED
    BY <1>1, <2>1, <2>2, <2>3 DEF Next, IInv, TypeOK
<1>2. IInv /\ [Next]_vars => [inFlight > limit => inFlight' <= inFlight]_vars
  BY <1>1
<1>3. QED
  BY <1>2, Invariance, PTL DEF Spec, OverLimitOnlyDrains

(* Once Stop has returned, no adjustment changes or reports anything.      *)
THEOREM StopIsFinal == Spec => StoppedIsQuiet
<1>1. ASSUME IInv, [Next]_vars, stopping = "returned"
      PROVE  limit' = limit /\ gauge' = limit /\ owed' = 0
  <2>1. loop \in {"off", "done"} /\ owed = 0 /\ gauge = limit
    BY <1>1 DEF IInv, LoopInv
  <2>2. UNCHANGED <<limit, gauge, owed>>
    BY <1>1, <2>1 DEF Next, LoopNext, Acquire, Release, ReleaseUnused,
       FreeUnit, WakeOne, Start, adjust, onLimitChange, WakeDelta, LoopExit,
       StopCall, StopReturn, vars, loopVars
  <2>3. QED
    BY <2>1, <2>2
<1>2. IInv /\ [Next]_vars
        => [stopping = "returned" =>
              limit' = limit /\ gauge' = limit /\ owed' = 0]_vars
  BY <1>1
<1>3. QED
  BY <1>2, Invariance, PTL DEF Spec, StoppedIsQuiet
=============================================================================
