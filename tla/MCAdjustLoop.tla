---------------------------- MODULE MCAdjustLoop ----------------------------
(* Instances of AdjustLoop: a window of three outcomes over the buckets    *)
(* (.., 4] (4, 8] (8, 16] (16, ..) ms, which are 2, 4, 8 and 16 to         *)
(* percentile, and a target of 6 ms: 2, 8, 9 and 17 ms fall in the fast,   *)
(* the indifferent, the soft and the hard range, the 8 by its edge.        *)
EXTENDS AdjustLoop

Starts == [i \in 0..3 |-> <<2, 4, 8, 16>>[i + 1]]

Ok(ms)   == [latency |-> ms, timedOut |-> FALSE, isError |-> FALSE]
Error(ms) == [latency |-> ms, timedOut |-> FALSE, isError |-> TRUE]
Timeout(ms) == [latency |-> ms, timedOut |-> TRUE, isError |-> TRUE]

MixedOutcomes == {Ok(2), Ok(9), Ok(17), Error(2), Timeout(8)}
=============================================================================
