----------------------------- MODULE MCScoring -----------------------------
(* Scoring with one network seen from two countries: it is charged from    *)
(* two requests per tick on, and one of the two countries is exempt.       *)
EXTENDS Scoring

resident == [class |-> "human", country |-> "PT", keys |-> [asn |-> "n"]]
visitor  == [class |-> "anonymous", country |-> "US", keys |-> [asn |-> "n"]]

BothClients == {resident, visitor}

OnePenalty == [d \in {"asn"} |-> [soft |-> 1, softPenalty |-> 10, hard |-> 2, hardPenalty |-> 40,
                                  exempt |-> {"PT"}]]

TwoClasses == [class \in {"human", "anonymous"} |-> IF class = "human" THEN 80 ELSE 30]
Timeline == [p \in {"timeline"} |-> 2]

(* The bounds on rates that the theorems suppose. No rate of three requests *)
(* a tick rises above 5.                                                    *)
Fading[n \in 0..IdleTTL] == IF n = 0 THEN 5 ELSE blend(0, Fading[n - 1])
Climbing[n \in 0..BusyTicks] == IF n = 0 THEN 0 ELSE blend(2, Climbing[n - 1])
Cooling[n \in 0..QuietTicks] == IF n = 0 THEN 5 ELSE blend(0, Cooling[n - 1])

ASSUME Supposed ==
    /\ IdleTTL > 2 * MaxLag /\ IdleTTL >= 3 * MaxLag + 2
    /\ \A d \in Dims : Fades(d, Fading) /\ Climbs(d, Climbing) /\ Cools(d, Cooling)
=============================================================================
