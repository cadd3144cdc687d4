------------------------------ MODULE Controller ------------------------------
(***************************************************************************)
(* The bounded-concurrency admission primitive of                          *)
(* adaptiveadmission/capacity.go.  Every critical section under c.mu is    *)
(* one action; the Signal calls that wake() makes after unlocking are      *)
(* actions of their own, so that anything may happen between the two.      *)
(*                                                                         *)
(* Goroutines that call Acquire are named (Acquirers), those that call     *)
(* Release or ReleaseUnused are anonymous: the program releases a unit     *)
(* from another goroutine than the one that acquired it.  cost is 1 in     *)
(* every call of the program.  The outcome window is abstracted to whether *)
(* it is empty; which branch adjust() takes is left open here.             *)
(***************************************************************************)
EXTENDS AdaptiveLimit, FiniteSetsExt

CONSTANTS
  Acquirers,            (* goroutines that call Acquire                      *)
  kind,                 (* "fixed" or "adaptive"                             *)
  InitialConcurrency,   (* also the limit of a fixed controller              *)
  MinConcurrency,
  MaxConcurrency,
  MaxWaking             (* bound: goroutines between unlocking in Release    *)
                        (* and their Signal                                  *)

ASSUME ControllerAssumption ==   \* what buildController validates, no more
  /\ IsFiniteSet(Acquirers)
  /\ kind \in {"fixed", "adaptive"}
  /\ InitialConcurrency \in Nat \ {0}
  /\ MinConcurrency \in Nat \ {0}
  /\ MaxConcurrency \in Nat \ {0}
  /\ MaxWaking \in Nat \ {0}

VARIABLES
  limit,
  inFlight,
  acq,        (* per acquirer: "ready" to call Acquire, "parked" in          *)
              (* cond.Wait, or "woken" and about to test the capacity again  *)
  waking,     (* releasing goroutines that still owe their one Signal        *)
  sampled,    (* the outcome window holds a sample                           *)
  loop,       (* runAdjustLoop: "off", "select", "changed" (about to call    *)
              (* onLimitChange), "wake" (in wake(delta)), "done"             *)
  owed,       (* Signal calls wake(delta) has still to make                  *)
  gauge,      (* the concurrency_limit gauge onLimitChange keeps             *)
  stopping    (* Stop: "no", "closed" (stopCh closed), "returned"            *)

vars == <<limit, inFlight, acq, waking, sampled, loop, owed, gauge, stopping>>
loopVars == <<loop, owed, gauge, stopping>>

Parked == {a \in Acquirers : acq[a] = "parked"}
Woken  == {a \in Acquirers : acq[a] = "woken"}

Init ==
  /\ limit = InitialConcurrency
  /\ inFlight = 0
  /\ acq = [a \in Acquirers |-> "ready"]
  /\ waking = 0
  /\ sampled = FALSE
  /\ loop = "off"
  /\ owed = 0
  /\ gauge = InitialConcurrency
  /\ stopping = "no"

-----------------------------------------------------------------------------
(* sync.Cond.Signal: wakes one waiter, whichever, if there is one.         *)
Signal ==
  \/ Parked = {} /\ UNCHANGED acq
  \/ \E a \in Parked : acq' = [acq EXCEPT ![a] = "woken"]

Acquire_NoRetest(a) ==   \* mutant: an if in place of the loop around Wait
  /\ \/ /\ acq[a] = "ready" /\ inFlight + 1 > limit
        /\ acq' = [acq EXCEPT ![a] = "parked"]
        /\ UNCHANGED inFlight
     \/ /\ acq[a] = "woken" \/ (acq[a] = "ready" /\ inFlight + 1 <= limit)
        /\ inFlight' = inFlight + 1
        /\ acq' = [acq EXCEPT ![a] = "ready"]
  /\ UNCHANGED <<limit, waking, sampled, loopVars>>

Acquire(a) ==
  /\ acq[a] \in {"ready", "woken"}
  /\ \/ /\ inFlight + 1 > limit
        /\ acq' = [acq EXCEPT ![a] = "parked"]
        /\ UNCHANGED inFlight
     \/ /\ inFlight + 1 <= limit
        /\ inFlight' = inFlight + 1
        /\ acq' = [acq EXCEPT ![a] = "ready"]
  /\ UNCHANGED <<limit, waking, sampled, loopVars>>

FreeUnit_NoWake ==   \* mutant: a release that does not call wake
  /\ inFlight > 0
  /\ inFlight' = inFlight - 1
  /\ UNCHANGED <<limit, acq, waking, loopVars>>

(* The critical section Release and ReleaseUnused share.  A caller holds   *)
(* a unit.                                                                 *)
FreeUnit ==
  /\ inFlight > 0
  /\ waking < MaxWaking
  /\ inFlight' = inFlight - 1
  /\ waking' = waking + 1
  /\ UNCHANGED <<limit, acq, loopVars>>

Release       == FreeUnit /\ sampled' = TRUE
ReleaseUnused == FreeUnit /\ UNCHANGED sampled

(* wake(1), called by Release and ReleaseUnused after unlocking.           *)
WakeOne ==
  /\ waking > 0
  /\ waking' = waking - 1
  /\ Signal
  /\ UNCHANGED <<limit, inFlight, sampled, loopVars>>

-----------------------------------------------------------------------------
(* Start, runAdjustLoop and Stop.  select takes either ready case, so the  *)
(* loop may adjust again after stopCh is closed.                           *)
Start ==
  /\ kind = "adaptive" /\ loop = "off" /\ stopping = "no"
  /\ loop' = "select"
  /\ UNCHANGED <<limit, inFlight, acq, waking, sampled, owed, gauge, stopping>>

adjust_WakesOne(b) ==   \* mutant: one Signal however much the limit grew
  /\ loop = "select"
  /\ sampled
  /\ LET newLimit == clampInt(Branch(b, limit), MinConcurrency, MaxConcurrency)
     IN  /\ limit' = newLimit
         /\ loop' = IF newLimit # limit THEN "changed" ELSE "select"
         /\ owed' = IF newLimit > limit THEN 1 ELSE 0
  /\ UNCHANGED <<inFlight, acq, waking, sampled, gauge, stopping>>

adjust(b) ==
  /\ loop = "select"
  /\ sampled
  /\ LET newLimit == clampInt(Branch(b, limit), MinConcurrency, MaxConcurrency)
         delta    == newLimit - limit
     IN  /\ limit' = newLimit
         /\ loop' = IF delta # 0 THEN "changed" ELSE "select"
         /\ owed' = IF delta > 0 THEN delta ELSE 0
  /\ UNCHANGED <<inFlight, acq, waking, sampled, gauge, stopping>>

onLimitChange ==
  /\ loop = "changed"
  /\ gauge' = limit    \* newLimit: only this goroutine assigns c.limit
  /\ loop' = IF owed > 0 THEN "wake" ELSE "select"
  /\ UNCHANGED <<limit, inFlight, acq, waking, sampled, owed, stopping>>

WakeDelta_Inclusive ==   \* mutant: i <= n in wake
  /\ loop = "wake"
  /\ owed' = owed - 1
  /\ loop' = IF owed = 0 THEN "select" ELSE "wake"
  /\ Signal
  /\ UNCHANGED <<limit, inFlight, waking, sampled, gauge, stopping>>

WakeDelta ==
  /\ loop = "wake"
  /\ owed' = owed - 1
  /\ loop' = IF owed = 1 THEN "select" ELSE "wake"
  /\ Signal
  /\ UNCHANGED <<limit, inFlight, waking, sampled, gauge, stopping>>

LoopExit ==
  /\ loop = "select" /\ stopping # "no"
  /\ loop' = "done"
  /\ UNCHANGED <<limit, inFlight, acq, waking, sampled, owed, gauge, stopping>>

StopCall ==
  /\ stopping = "no"
  /\ stopping' = IF loop = "off" THEN "returned" ELSE "closed"
  /\ UNCHANGED <<limit, inFlight, acq, waking, sampled, loop, owed, gauge>>

StopReturn_NoWait ==   \* mutant: Stop without wg.Wait
  /\ stopping = "closed"
  /\ stopping' = "returned"
  /\ UNCHANGED <<limit, inFlight, acq, waking, sampled, loop, owed, gauge>>

StopReturn ==   \* wg.Wait returns
  /\ stopping = "closed" /\ loop = "done"
  /\ stopping' = "returned"
  /\ UNCHANGED <<limit, inFlight, acq, waking, sampled, loop, owed, gauge>>

LoopNext ==
  Start \/ (\E b \in Branches : adjust(b)) \/ onLimitChange \/ WakeDelta
        \/ LoopExit \/ StopCall \/ StopReturn

Next ==
  \/ \E a \in Acquirers : Acquire(a)
  \/ Release \/ ReleaseUnused \/ WakeOne
  \/ LoopNext

Spec == Init /\ [][Next]_vars

(* A runnable goroutine is eventually scheduled and c.mu is held only for  *)
(* straight-line code.  Nothing is assumed of the callers: neither that    *)
(* they call Acquire nor that they release what they hold.  LoopExit is    *)
(* strongly fair: a tick is ready once per interval and stopCh, once       *)
(* closed, always, so select finds stopCh alone again and again.           *)
Fairness ==
  /\ \A a \in Acquirers : WF_vars(acq[a] = "woken" /\ Acquire(a))
  /\ WF_vars(WakeOne)
  /\ WF_vars(onLimitChange) /\ WF_vars(WakeDelta)
  /\ SF_vars(LoopExit) /\ WF_vars(StopReturn)

FairSpec == Spec /\ Fairness

-----------------------------------------------------------------------------
TypeOK ==
  /\ limit \in Nat \ {0}
  /\ inFlight \in Nat
  /\ acq \in [Acquirers -> {"ready", "parked", "woken"}]
  /\ waking \in 0..MaxWaking
  /\ sampled \in BOOLEAN
  /\ loop \in {"off", "select", "changed", "wake", "done"}
  /\ owed \in Nat
  /\ gauge \in Nat
  /\ stopping \in {"no", "closed", "returned"}

(* The Signal calls and woken goroutines under way, and the goroutines     *)
(* that want a unit.                                                       *)
Wakeups == waking + owed + Cardinality(Woken)

(* No wake-up is lost: either every free unit has a wake-up under way that *)
(* can claim it, or every parked goroutine has a Signal coming to it.      *)
(* This is what wake() outside the lock, with a Signal per freed unit and  *)
(* never Broadcast, has to keep (capacity.go, "bounded Signal calls").     *)
NoLostWakeup ==
  \/ limit - inFlight <= Wakeups
  \/ Cardinality(Parked) <= waking + owed

(* Overload protection: whatever the loop does to the limit between the    *)
(* test in Acquire and the releases, no more units are ever out than the   *)
(* largest limit the configuration allows.                                 *)
Ceiling == IF kind = "fixed" THEN InitialConcurrency
           ELSE Max({InitialConcurrency, MinConcurrency, MaxConcurrency})

OverloadBounded == inFlight <= Ceiling /\ limit <= Ceiling

(* The concurrency_limit gauge, set from onLimitChange outside the lock,   *)
(* is the limit whenever no change is on its way to it.                    *)
GaugeCurrent == loop # "changed" => gauge = limit

(* A shrink below what is in flight is drained, never added to: until the  *)
(* limit is raised again, inFlight only falls towards it.                  *)
OverLimitOnlyDrains ==
  [][inFlight > limit => inFlight' <= inFlight]_vars

(* After Stop has returned the limit is final and the gauge shows it: no   *)
(* adjustment is still between its critical section and its callback.      *)
StoppedIsQuiet ==
  [][stopping = "returned" =>
       limit' = limit /\ gauge' = limit /\ owed' = 0]_vars

(* Progress without Broadcast: goroutines do not stay parked while units   *)
(* are free, however Signals and barging Acquire calls interleave.         *)
FreeCapacityIsClaimed ==
  (Parked # {} /\ inFlight < limit) ~> (Parked = {} \/ inFlight >= limit)

=============================================================================
