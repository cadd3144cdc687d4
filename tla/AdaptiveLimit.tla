---------------------------- MODULE AdaptiveLimit ----------------------------
(***************************************************************************)
(* The arithmetic of the adaptive controller's adjustment loop             *)
(* (adaptiveadmission/capacity.go): what one branch of adjust() makes of   *)
(* the current limit.  Multipliers are percentages.                        *)
(***************************************************************************)
EXTENDS Integers

CONSTANT TiesDown   (* the limits l for which the float64 product l * 0.70  *)
                    (* lies just below the exact half it stands for (the    *)
                    (* first are 45, 85, 165): math.Round then rounds down  *)

ASSUME TiesDownAssumption == TiesDown \subseteq Nat

timeoutShrinkMultiplier == 60
errorShrinkMultiplier   == 75
p95HardShrinkMultiplier == 70
p95SoftShrinkMultiplier == 85
growMultiplier          == 105

(* math.Round(float64(limit) * multiplier): to nearest, halves away from 0 *)
Round(limit, multiplier) ==
  IF multiplier = p95HardShrinkMultiplier /\ limit \in TiesDown
    THEN (limit * multiplier) \div 100
    ELSE (limit * multiplier + 50) \div 100

shrink(limit, multiplier) ==
  LET n == Round(limit, multiplier) IN IF n < 1 THEN 1 ELSE n

grow_Rounded(limit, multiplier) == Round(limit, multiplier)   \* mutant: no +1

grow(limit, multiplier) ==
  LET n == Round(limit, multiplier) IN IF n <= limit THEN limit + 1 ELSE n

(* Nothing validates min <= max, so clampInt is also used with min > max.  *)
clampInt(v, min, max) == IF v < min THEN min ELSE IF v > max THEN max ELSE v

(* The branches of adjust()'s switch, in their priority order; the last    *)
(* one is the switch falling through.                                      *)
Branches == {"timeout", "error", "p95Hard", "p95Soft", "grow", "none"}

Branch(b, limit) ==
  CASE b = "timeout" -> shrink(limit, timeoutShrinkMultiplier)
    [] b = "error"   -> shrink(limit, errorShrinkMultiplier)
    [] b = "p95Hard" -> shrink(limit, p95HardShrinkMultiplier)
    [] b = "p95Soft" -> shrink(limit, p95SoftShrinkMultiplier)
    [] b = "grow"    -> grow(limit, growMultiplier)
    [] b = "none"    -> limit
=============================================================================
