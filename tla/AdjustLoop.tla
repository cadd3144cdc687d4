------------------------------ MODULE AdjustLoop ------------------------------
(***************************************************************************)
(* adjust() of adaptiveadmission/capacity.go with its inputs: the rolling  *)
(* outcome window that Release feeds, the branch priorities, and the       *)
(* cooldown timers.  Controller leaves the branch open; here it follows    *)
(* from the traffic.  Each timer is kept as the seconds since its last     *)
(* shrink, up to its cooldown; the zero time it starts from is long past.  *)
(***************************************************************************)
EXTENDS AdaptiveLimit, OutcomeWindow

CONSTANTS
  TickGaps,               (* bound: the seconds between two ticks; the      *)
                          (* ticker's jitter makes them more than one value *)
  InitialConcurrency, MinConcurrency, MaxConcurrency,
  TargetP95,              (* 0: no p95 branches                             *)
  TimeoutRateThreshold,   (* percent                                        *)
  ErrorRateThreshold

ASSUME AdjustAssumption ==
  /\ {InitialConcurrency, MinConcurrency, MaxConcurrency} \subseteq Nat \ {0}
  /\ {TargetP95, TimeoutRateThreshold, ErrorRateThreshold} \subseteq Nat
  /\ TickGaps \subseteq Nat \ {0}

VARIABLES
  limit,
  last,     (* per timer: seconds since lastTimeoutShrink, lastErrorShrink, *)
            (* lastP95Shrink                                                *)
  fired     (* history, per branch: seconds since it last shrank the limit  *)

vars == <<windowVars, limit, last, fired>>

timeoutShrinkCooldown == 60
errorShrinkCooldown   == 30
p95ShrinkCooldown     == 30

Timers == {"timeout", "error", "p95"}
Shrinks == {"timeout", "error", "p95Hard", "p95Soft"}

Cooldown(timer) ==
  CASE timer = "timeout" -> timeoutShrinkCooldown
    [] timer = "error"   -> errorShrinkCooldown
    [] timer = "p95"     -> p95ShrinkCooldown

TimerOf(b) == IF b \in {"p95Hard", "p95Soft"} THEN "p95" ELSE b

Init ==
  /\ WindowInit
  /\ limit = InitialConcurrency
  /\ last = [t \in Timers |-> Cooldown(t)]
  /\ fired = [b \in Shrinks |-> Cooldown(TimerOf(b))]

-----------------------------------------------------------------------------
Release(o) ==
  /\ Record(o.latency, o.timedOut, o.isError)
  /\ UNCHANGED <<limit, last, fired>>

p95 == percentile(95)

Alarm(b) ==   \* the condition of a shrinking branch, its cooldown aside
  CASE b = "timeout" -> TimeoutRateAbove(TimeoutRateThreshold)
    [] b = "error"   -> ErrorRateAbove(ErrorRateThreshold)
    [] b = "p95Hard" -> TargetP95 > 0 /\ p95 > 2 * TargetP95
    [] b = "p95Soft" -> TargetP95 > 0 /\ p95 > TargetP95

Fast == TargetP95 > 0 /\ p95 < TargetP95 \div 2

Aged(ages, gap, BoundOf(_)) ==
  [x \in DOMAIN ages |-> Min({ages[x] + gap, BoundOf(x)})]

BranchTaken_GrowFirst(ages) ==   \* mutant: grow tested before the shrinks
  LET Ready(b) == Alarm(b) /\ ages[TimerOf(b)] >= Cooldown(TimerOf(b))
  IN  IF Fast THEN "grow"
      ELSE IF Ready("timeout") THEN "timeout"
      ELSE IF Ready("error") THEN "error"
      ELSE IF Ready("p95Hard") THEN "p95Hard"
      ELSE IF Ready("p95Soft") THEN "p95Soft"
      ELSE "none"

(* The first branch of the switch that applies once the timers read ages.  *)
BranchTaken(ages) ==
  LET Ready(b) == Alarm(b) /\ ages[TimerOf(b)] >= Cooldown(TimerOf(b))
  IN  IF Ready("timeout") THEN "timeout"
      ELSE IF Ready("error") THEN "error"
      ELSE IF Ready("p95Hard") THEN "p95Hard"
      ELSE IF Ready("p95Soft") THEN "p95Soft"
      ELSE IF Fast THEN "grow"
      ELSE "none"

Stamp_HardOnly(ages, b) ==   \* mutant: the soft branch forgets lastP95Shrink
  IF b \in Shrinks \ {"p95Soft"} THEN [ages EXCEPT ![TimerOf(b)] = 0] ELSE ages

Stamp(ages, b) == IF b \in Shrinks THEN [ages EXCEPT ![TimerOf(b)] = 0] ELSE ages

(* A tick, gap seconds after the one before it, and its adjust(now).       *)
adjust(gap) ==
  LET ages == Aged(last, gap, Cooldown)
      b    == BranchTaken(ages)
  IN  IF total = 0
        THEN /\ last' = ages
             /\ fired' = Aged(fired, gap, LAMBDA x : Cooldown(TimerOf(x)))
             /\ UNCHANGED <<windowVars, limit>>
        ELSE /\ limit' = clampInt(Branch(b, limit), MinConcurrency, MaxConcurrency)
             /\ last' = Stamp(ages, b)
             /\ fired' = [x \in Shrinks |->
                            IF x = b THEN 0
                            ELSE Min({fired[x] + gap, Cooldown(TimerOf(x))})]
             /\ UNCHANGED windowVars

Next ==
  \/ \E o \in Outcomes : Release(o)
  \/ \E gap \in TickGaps : adjust(gap)

Spec == Init /\ [][Next]_vars

(* The ticker keeps ticking.  No fairness for the traffic.                 *)
FairSpec == Spec /\ WF_vars(\E gap \in TickGaps : adjust(gap))

-----------------------------------------------------------------------------
TypeOK ==
  /\ WindowTypeOK
  /\ limit \in MinConcurrency..MaxConcurrency \cup {InitialConcurrency}
  /\ last \in [Timers -> 0..60]
  /\ fired \in [Shrinks -> 0..60]

(* Each degradation signal shrinks the limit at most once per cooldown,    *)
(* whichever ticks the other signals take in between, and the two p95      *)
(* branches count as one signal.  Exact when TickGaps is a singleton.      *)
CooldownsHeld ==
  [][\A b, x \in Shrinks :
       (limit' < limit /\ fired'[b] = 0 /\ TimerOf(x) = TimerOf(b)) =>
         \E gap \in TickGaps : fired[x] + gap >= Cooldown(TimerOf(b))]_vars

(* A tick moves the limit by the traffic, and only so: down while any      *)
(* alarm has waited out its cooldown, whatever else holds (it stays at 3   *)
(* and below, where rounding may undo the shrink), up on fast traffic      *)
(* without such an alarm, and otherwise nowhere.  The bounds come first.   *)
Due(b, gap) == Alarm(b) /\ last[TimerOf(b)] + gap >= Cooldown(TimerOf(b))

LimitFollowsTraffic ==
  [][\A gap \in TickGaps : adjust(gap) /\ total # 0 =>
       LET alarm == \E b \in Shrinks : Due(b, gap)
       IN  /\ alarm => \/ limit' < limit \/ limit' = MinConcurrency
                       \/ limit' = limit /\ limit <= 3
           /\ ~alarm /\ Fast => limit' > limit \/ limit' = MaxConcurrency
           /\ ~alarm /\ ~Fast => limit' = clampInt(limit, MinConcurrency, MaxConcurrency)]_vars

(* Recovery: whatever was recorded before, once every outcome is fast and  *)
(* clean and traffic goes on, the limit climbs to its maximum and stays,   *)
(* also from the small limits at which rounding alone would stall it.      *)
Healthy(o) == ~o.isError /\ ~o.timedOut /\ 2 * o.latency < TargetP95

HealthRestoresLimit ==
  (/\ <>[][\A o \in Outcomes : Release(o) => Healthy(o)]_vars
   /\ []<><<\E o \in Outcomes : Release(o)>>_vars)
    => <>[](limit = MaxConcurrency)

(* Growth between two error shrinks: a failing backend that answers fast   *)
(* makes the limit grow on every tick of the cooldown, so the limit sinks  *)
(* only to where that growth outweighs the shrink.                         *)
TicksPerCooldown == (errorShrinkCooldown - 1) \div Min(TickGaps)

ErrorCycle(l) ==
  LET grown[n \in 0..TicksPerCooldown] ==
        IF n = 0 THEN clampInt(shrink(l, errorShrinkMultiplier),
                               MinConcurrency, MaxConcurrency)
        ELSE clampInt(grow(grown[n - 1], growMultiplier),
                      MinConcurrency, MaxConcurrency)
  IN  grown[TicksPerCooldown]

StickingLimit ==
  Max({MinConcurrency} \cup
      {l \in MinConcurrency..MaxConcurrency : ErrorCycle(l) >= l})

(* Sustained errors, with or without new traffic, bring the limit down to  *)
(* that point for good.                                                    *)
ErrorsDrainLimit ==
  <>[](ErrorRateAbove(ErrorRateThreshold)) => <>[](limit <= StickingLimit)
=============================================================================
