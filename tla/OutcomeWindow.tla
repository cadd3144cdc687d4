---------------------------- MODULE OutcomeWindow ----------------------------
(***************************************************************************)
(* The rolling outcome window of adaptiveadmission/capacity.go: a ring of  *)
(* the last `size` outcomes and the sums kept beside it, so that every     *)
(* query is a read.  Latencies and bucket starts are integers of one unit, *)
(* the program's being the nanosecond of time.Duration: bucketStart[i] is  *)
(* 1 ms * (60000^(1/255))^i, cut to a whole one.                           *)
(***************************************************************************)
EXTENDS SequencesExt

CONSTANTS
  size,              (* WindowSize                                           *)
  histBucketCount,
  bucketStart,       (* what bucketUpperBound returns for each bucket        *)
  EdgesDown,         (* the buckets whose bucketStart, as a latency, falls   *)
                     (* in the bucket below: where the cut or the rounding   *)
                     (* of math.Log and math.Pow leaves it short of the edge *)
  Outcomes           (* bound: the outcomes [latency, timedOut, isError] a   *)
                     (* request may have                                     *)

ASSUME WindowAssumption ==
  /\ size \in Nat \ {0}
  /\ histBucketCount \in Nat \ {0, 1}
  /\ bucketStart \in [0..(histBucketCount - 1) -> Nat \ {0}]
  /\ \A i, j \in 0..(histBucketCount - 1) : i < j => bucketStart[i] < bucketStart[j]
  /\ EdgesDown \subseteq Nat
  /\ Outcomes \subseteq [latency : Nat, timedOut : BOOLEAN, isError : BOOLEAN]

VARIABLES ring, pos, filled, buckets, total, timeouts, errors, sumLatency,
          recent   \* history: the outcomes the window should stand for

windowVars ==
  <<ring, pos, filled, buckets, total, timeouts, errors, sumLatency, recent>>

Buckets == 0..(histBucketCount - 1)
LastBucket == histBucketCount - 1

histMinMs == bucketStart[0]

(* Of the last bucket the edge is histMaxMs, which is not whole either.    *)
Reaches(ms, i) == ms > bucketStart[i] \/ (ms = bucketStart[i] /\ i \notin EdgesDown)

(* int(log(ms/min) / log(factor)) truncates.                               *)
bucketFor(ms) ==
  IF ms <= histMinMs THEN 0
  ELSE IF Reaches(ms, LastBucket) THEN LastBucket
  ELSE CHOOSE i \in Buckets : Reaches(ms, i) /\ ~Reaches(ms, i + 1)

bucketUpperBound(i) == bucketStart[i]

NoSample == [latency |-> 0, bucket |-> 0, timedOut |-> FALSE, isError |-> FALSE]

WindowInit ==
  /\ ring = [i \in 0..(size - 1) |-> NoSample]
  /\ pos = 0 /\ filled = 0
  /\ buckets = [i \in Buckets |-> 0]
  /\ total = 0 /\ timeouts = 0 /\ errors = 0 /\ sumLatency = 0
  /\ recent = <<>>

One(b) == IF b THEN 1 ELSE 0

NextPos == (pos + 1) % size

(* The slot that record overwrites. *)
Oldest_Newest == ring[(pos + size - 1) % size]   \* mutant: evicts the newest
Oldest == ring[pos]

Record(latency, timedOut, isError) ==
  LET full == filled = size
      old  == Oldest
      b    == bucketFor(latency)
      kept == IF full THEN [buckets EXCEPT ![old.bucket] = @ - 1] ELSE buckets
  IN  /\ ring' = [ring EXCEPT ![pos] =
                    [latency |-> latency, bucket |-> b,
                     timedOut |-> timedOut, isError |-> isError]]
      /\ filled' = IF full THEN filled ELSE filled + 1
      /\ buckets' = [kept EXCEPT ![b] = @ + 1]
      /\ total' = (IF full THEN total - 1 ELSE total) + 1
      /\ sumLatency' = sumLatency - (IF full THEN old.latency ELSE 0) + latency
      /\ timeouts' = timeouts - One(full /\ old.timedOut) + One(timedOut)
      /\ errors' = errors - One(full /\ old.isError) + One(isError)
      /\ pos' = NextPos
      /\ recent' = LET r == Append(recent, ring'[pos])
                   IN  IF Len(r) > size THEN Tail(r) ELSE r

Target_Floor(p) == (p * total) \div 100   \* mutant: no math.Ceil
Target(p) == (p * total + 99) \div 100

(* The first bucket whose cumulative count reaches ceil(p * total); p is a *)
(* percentage.                                                             *)
cum[i \in Buckets] == buckets[i] + (IF i = 0 THEN 0 ELSE cum[i - 1])

percentile(p) ==
  LET reached == {i \in Buckets : cum[i] >= Target(p)}
  IN  IF total = 0 THEN 0
      ELSE IF reached = {} THEN bucketUpperBound(LastBucket)
      ELSE bucketUpperBound(CHOOSE i \in reached : \A j \in reached : i <= j)

(* timeoutRate() > threshold and errorRate() > threshold, in percent       *)
TimeoutRateAbove(threshold) == total > 0 /\ timeouts * 100 > threshold * total
ErrorRateAbove(threshold)   == total > 0 /\ errors * 100 > threshold * total

-----------------------------------------------------------------------------
WindowTypeOK ==
  /\ ring \in [0..(size - 1) -> [latency : {o.latency : o \in Outcomes} \cup {0}, bucket : Buckets,
                                 timedOut : BOOLEAN, isError : BOOLEAN]]
  /\ pos \in 0..(size - 1)
  /\ filled \in 0..size
  /\ buckets \in [Buckets -> 0..size]
  /\ {total, timeouts, errors} \subseteq 0..size
  /\ sumLatency \in Nat

Count(P(_)) == Cardinality({i \in DOMAIN recent : P(recent[i])})

(* Their latencies, every millisecond of each of them by itself. *)
Millis == UNION {{i} \X (1..recent[i].latency) : i \in DOMAIN recent}

(* The sums never drift from the samples they stand for: after any history *)
(* of insertions and evictions they are those of the last `size` outcomes. *)
SumsMatchRecent ==
  /\ total = Len(recent)
  /\ timeouts = Count(LAMBDA o : o.timedOut)
  /\ errors = Count(LAMBDA o : o.isError)
  /\ \A b \in Buckets : buckets[b] = Count(LAMBDA o : bucketFor(o.latency) = b)
  /\ sumLatency = Cardinality(Millis)

(* The nearest-rank percentile of the recent latencies, by definition.     *)
NearestRank(p) ==
  LET rank == (p * Len(recent) + 99) \div 100
  IN  CHOOSE v \in {recent[i].latency : i \in DOMAIN recent} :
        /\ Count(LAMBDA o : o.latency <= v) >= rank
        /\ Count(LAMBDA o : o.latency < v) < rank

(* percentile() finds the bucket of the nearest-rank percentile of the     *)
(* recent samples, never a bucket early or late, whatever was recorded and *)
(* evicted and wherever the edges round to, and returns the value the      *)
(* program has for that bucket.  Which side of the sample that value is on *)
(* is no part of it: bucketUpperBound returns the bucket's start, though   *)
(* capacity.go:136 calls it "the latency value at the top of bucket i" and *)
(* 219-221 promises one "below which at least a p fraction" fall.          *)
PercentileNearestRank ==
  recent # <<>> =>
    \A p \in {1, 50, 67, 95, 100} :
      percentile(p) = bucketUpperBound(bucketFor(NearestRank(p)))

=============================================================================
