--------------------------------- MODULE Sweep ---------------------------------
(* The load generator (loadtest/sweep.go): for each concurrency            *)
(* level in turn, workers that start staggered over RampUp and then fire   *)
(* one request after the other until the window of Hold is over; a row per *)
(* level from the samples of its workers.                                  *)
(*                                                                         *)
(* Time is counted in ticks from the start of the level. External: the     *)
(* backend, which answers a request at any time, with any status, or not   *)
(* at all, and whoever cancels the context. A goroutine that may go on     *)
(* does so within MaxLag. Which endpoint a request takes (its URL may not  *)
(* parse) and how many failed are left out.                                *)
EXTENDS Integers, SequencesExt, FiniteSetsExt

CONSTANTS
    Levels,           \* the offered concurrencies, in the order of the sweep
    RampUp, Hold,
    RequestTimeout,   \* more than 0: 0 would let a request take for ever
    MinLatency,       \* bound: no request is answered sooner
    MaxLag,           \* bound on the scheduling delay of a goroutine
    MayCancel         \* the context may be cancelled

ASSUME SweepAssumption ==
    /\ Levels \in Seq(Nat) /\ {RampUp, Hold, MaxLag} \subseteq Nat /\ MayCancel \in BOOLEAN
    /\ {RequestTimeout, MinLatency} \subseteq Nat \ {0} /\ MinLatency <= RequestTimeout

VARIABLES
    results,     \* the rows so far; its length tells the level that runs
    now,
    cancelled,
    pc,          \* worker -> "timer" (waits for its start), "check" (head of the loop), "fire"
                 \*   (about to send), "requesting", "done"
    since,       \* worker -> the tick it came there
    deadline,    \* worker -> the tick its request times out at, 0 without one
    out,         \* worker -> the samples it counts, each [start, latency]
    completed    \* worker -> history: its successful answers inside the window

vars == <<results, now, cancelled, pc, since, deadline, out, completed>>
workerVars == <<pc, since, deadline, out, completed>>
counts == <<out, completed>>

concurrency == IF Len(results) < Len(Levels) THEN Levels[Len(results) + 1] ELSE 0
Returned == Len(results) = Len(Levels)
Workers == 1..concurrency
measureStart == RampUp
measureEnd == RampUp + Hold
startDelay(i) == IF concurrency > 1 THEN (RampUp * (i - 1)) \div concurrency ELSE 0

(* A level starts: every worker waits for its timer.                        *)
Level(n) ==
    /\ now' = 0
    /\ pc' = [i \in 1..n |-> "timer"] /\ since' = [i \in 1..n |-> 0]
    /\ deadline' = [i \in 1..n |-> 0]
    /\ out' = [i \in 1..n |-> <<>>] /\ completed' = [i \in 1..n |-> 0]

Init ==
    /\ results = <<>> /\ cancelled = FALSE /\ now = 0
    /\ pc = [i \in Workers |-> "timer"] /\ since = [i \in Workers |-> 0]
    /\ deadline = [i \in Workers |-> 0]
    /\ out = [i \in Workers |-> <<>>] /\ completed = [i \in Workers |-> 0]

(* -------------------------------- a worker ------------------------------- *)

Go(i, place) == pc' = [pc EXCEPT ![i] = place] /\ since' = [since EXCEPT ![i] = now]

(* select takes either case when the timer fires on a cancelled context.    *)
Start(i) ==
    /\ pc[i] = "timer"
    /\ \/ now >= startDelay(i) /\ Go(i, "check")
       \/ cancelled /\ Go(i, "done")
    /\ UNCHANGED <<results, now, cancelled, deadline, counts>>

(* The timeout of a request runs from the look at the clock, before the     *)
(* request is made.                                                         *)
Check(i) ==
    /\ pc[i] = "check"
    /\ IF now >= measureEnd \/ cancelled
       THEN Go(i, "done") /\ UNCHANGED deadline
       ELSE Go(i, "fire") /\ deadline' = [deadline EXCEPT ![i] = now + RequestTimeout]
    /\ UNCHANGED <<results, now, cancelled, counts>>

(* A worker whose request cannot be made returns.                           *)
Fire(i) ==
    /\ pc[i] = "fire"
    /\ \/ Go(i, "requesting") /\ UNCHANGED deadline
       \/ Go(i, "done") /\ deadline' = [deadline EXCEPT ![i] = 0]
    /\ UNCHANGED <<results, now, cancelled, counts>>

(* What counts is when a request started, not when it was answered.         *)
inWindow_Always(start) == TRUE   \* mutant: requests of the ramp-up count as well
inWindow(start) == start >= measureStart

Count(i) ==
    /\ out' = IF inWindow(since[i])
              THEN [out EXCEPT ![i] = Append(@, [start |-> since[i], latency |-> now - since[i]])]
              ELSE out
    /\ completed' = IF now \in measureStart..(measureEnd - 1) THEN [completed EXCEPT ![i] = @ + 1]
                    ELSE completed

Answer(i) ==
    /\ pc[i] = "requesting" /\ now - since[i] >= MinLatency
    /\ Count(i) \/ UNCHANGED counts   \* a status below 400, or an error
    /\ Go(i, "check") /\ deadline' = [deadline EXCEPT ![i] = 0]
    /\ UNCHANGED <<results, now, cancelled>>

(* client.Do returns the error of the request's context.                    *)
Expired_Never(i) == FALSE   \* mutant: requests carry the sweep's context, without a timeout
Expired(i) == now >= deadline[i]

Expire(i) ==
    /\ pc[i] = "requesting" /\ (cancelled \/ Expired(i))
    /\ Go(i, "check") /\ deadline' = [deadline EXCEPT ![i] = 0]
    /\ UNCHANGED <<results, now, cancelled, counts>>

(* -------------------------------- a level -------------------------------- *)

Samples == UNION {{i} \X DOMAIN out[i] : i \in Workers}
Latency(x) == out[x[1]][x[2]].latency
Below(v) == Cardinality({x \in Samples : Latency(x) < v})
UpTo(v) == Cardinality({x \in Samples : Latency(x) <= v})

(* At place k stands the latency that fewer than k samples are below and at *)
(* least k are not above.                                                   *)
sorted ==
    [k \in 1..Cardinality(Samples) |->
       CHOOSE v \in {Latency(x) : x \in Samples} : Below(v) < k /\ k <= UpTo(v)]

percentile_Floor(s, p) ==   \* mutant: the rank rounded down
    IF s = <<>> THEN 0 ELSE s[Max({1, Min({Len(s), (p * Len(s)) \div 100})})]
percentile(s, p) ==
    IF s = <<>> THEN 0 ELSE s[Max({1, Min({Len(s), (p * Len(s) + 99) \div 100})})]

(* Throughput is requests over Hold: rows of a sweep compare by requests.   *)
summarizeLevel ==
    LET s == sorted
    IN [concurrency |-> concurrency, requests |-> Cardinality(Samples),
        p50 |-> percentile(s, 50), p95 |-> percentile(s, 95), p99 |-> percentile(s, 99)]

(* wg.Wait returns; the next level starts, or Sweep returns. After a cancel *)
(* the levels that are left still run, and their workers return at once.    *)
EndLevel ==
    /\ ~Returned /\ \A i \in Workers : pc[i] = "done"
    /\ results' = Append(results, summarizeLevel)
    /\ Level(IF Len(results') < Len(Levels) THEN Levels[Len(results') + 1] ELSE 0)
    /\ UNCHANGED cancelled

(* --------------------------------- time ---------------------------------- *)

Later(a, b) == IF a < b THEN b ELSE a
Due(i) ==   \* the tick by which worker i has gone on
    CASE pc[i] = "timer" -> startDelay(i) + MaxLag
      [] pc[i] \in {"check", "fire"} -> since[i] + MaxLag
      [] pc[i] = "requesting" -> Later(since[i], deadline[i]) + MaxLag

Tick ==
    /\ \E i \in Workers : pc[i] # "done"
    /\ \A i \in Workers : pc[i] # "done" => now < Due(i)
    /\ now' = now + 1
    /\ UNCHANGED <<results, cancelled, workerVars>>

Cancel ==
    /\ MayCancel /\ ~cancelled /\ ~Returned
    /\ cancelled' = TRUE
    /\ UNCHANGED <<results, now, workerVars>>

WorkerStep(i) == Start(i) \/ Check(i) \/ Fire(i) \/ Expire(i)

Next ==
    \/ \E i \in Workers : WorkerStep(i) \/ Answer(i)
    \/ EndLevel \/ Tick \/ Cancel

Spec == Init /\ [][Next]_vars

(* Goroutines are scheduled and time passes; no request need be answered.   *)
FairSpec ==
    /\ Spec /\ WF_vars(Tick) /\ WF_vars(EndLevel)
    /\ \A i \in 1..Max(Range(Levels)) : WF_vars(i \in Workers /\ WorkerStep(i))

(* ------------------------------- properties ------------------------------ *)

(* sweep.go:44-46 and 129-131 say that what counts are the requests that    *)
(* complete inside the window; the code counts those that start in it. What *)
(* a worker reports is off by one request at most: the one under way when   *)
(* the window opens is left out, the one under way when it closes is        *)
(* counted, and until it closes nothing is counted that should not be.      *)
OffByOneRequest ==
    \A i \in Workers :
      LET off == Len(out[i]) - completed[i]
      IN off \in -1..1 /\ (off = 1 => now >= measureEnd /\ pc[i] \in {"check", "done"})

(* No backend keeps a level open for longer than its window, a request      *)
(* timeout, and the lag of its timeout and of the last check.               *)
LevelIsBounded == now < measureEnd + Later(RequestTimeout, MaxLag) + 2 * MaxLag

(* A row is made when no request of its level is on its way any more, so    *)
(* that no load of one level falls into the next, and its percentiles are   *)
(* latencies that occurred, with at least that share of the samples at or   *)
(* below and less than that share below.                                    *)
RowTellsLevel ==
    [][results' # results =>
         LET row == Last(results')
             n == Cardinality(Samples)
             Tells(v, p) ==
               /\ \E x \in Samples : v = Latency(x)
               /\ 100 * UpTo(v) >= p * n /\ 100 * Below(v) < p * n
         IN /\ \A i \in Workers : pc[i] \notin {"fire", "requesting"}
            /\ n > 0 => Tells(row.p50, 50) /\ Tells(row.p95, 95) /\ Tells(row.p99, 99)]_vars

(* A sweep returns, with a row for every level, whatever the backend does   *)
(* and whenever the context is cancelled.                                   *)
SweepReturns == <>Returned
=============================================================================
