-------------------------- MODULE AdjustLoopProofs --------------------------
(***************************************************************************)
(* Proofs about OutcomeWindow and AdjustLoop, for every window size, every *)
(* set of outcomes, thresholds and tick gaps.                              *)
(***************************************************************************)
EXTENDS AdjustLoop, FiniteSetTheorems, SequenceTheorems, WellFoundedInduction, TLAPS

-----------------------------------------------------------------------------
(* Counting in a sequence that grows at one end and shrinks at the other.  *)

CountIn(s, G) == Cardinality({i \in DOMAIN s : s[i] \in G})
Area(s) == UNION {{i} \X (1..s[i].latency) : i \in DOMAIN s}

(* What Append and Tail do to a sequence, its length and its domain.       *)
LEMMA SeqFacts ==
  ASSUME NEW S, NEW s \in Seq(S)
  PROVE  /\ Len(s) \in Nat /\ DOMAIN s = 1..Len(s)
         /\ \A i \in 1..Len(s) : s[i] \in S
         /\ \A x \in S : /\ Append(s, x) \in Seq(S) /\ Len(Append(s, x)) = Len(s) + 1
                         /\ DOMAIN Append(s, x) = 1..(Len(s) + 1)
                         /\ \A i \in 1..Len(s) : Append(s, x)[i] = s[i]
                         /\ Append(s, x)[Len(s) + 1] = x
         /\ s # <<>> => /\ Tail(s) \in Seq(S) /\ Len(Tail(s)) = Len(s) - 1
                        /\ Len(s) > 0 /\ DOMAIN Tail(s) = 1..(Len(s) - 1)
                        /\ \A i \in 1..(Len(s) - 1) : Tail(s)[i] = s[i + 1]
OBVIOUS

(* A set of indices is finite.                                             *)
LEMMA IndicesFinite ==
  ASSUME NEW n \in Nat, NEW T \in SUBSET (1..n)
  PROVE  IsFiniteSet(T) /\ Cardinality(T) \in Nat
<1>1. IsFiniteSet(1..n)
  BY FS_Interval
<1>2. IsFiniteSet(T)
  BY <1>1, FS_Subset
<1> QED BY <1>2, FS_CardinalityType

(* Appending counts the new element where it belongs.                      *)
LEMMA CountAppend ==
  ASSUME NEW S, NEW s \in Seq(S), NEW x \in S, NEW G
  PROVE  /\ CountIn(s, G) \in Nat
         /\ x \in G => CountIn(Append(s, x), G) = CountIn(s, G) + 1
         /\ x \notin G => CountIn(Append(s, x), G) = CountIn(s, G)
<1> DEFINE A == {i \in DOMAIN s : s[i] \in G}
           B == {i \in DOMAIN Append(s, x) : Append(s, x)[i] \in G}
           n == Len(s)
<1>1. n \in Nat /\ A \subseteq 1..n /\ n + 1 \notin A
  BY SeqFacts
<1>2. IsFiniteSet(A) /\ Cardinality(A) \in Nat
  BY <1>1, IndicesFinite
<1>3. x \in G => B = A \cup {n + 1}
  BY SeqFacts
<1>4. x \notin G => B = A
  BY SeqFacts
<1> HIDE DEF A, B, n
<1>5. Cardinality(A \cup {n + 1}) = Cardinality(A) + 1
  BY <1>1, <1>2, FS_AddElement
<1> QED BY <1>2, <1>3, <1>4, <1>5 DEF CountIn, A, B

(* Dropping the head stops counting it.                                    *)
LEMMA CountTail ==
  ASSUME NEW S, NEW s \in Seq(S), s # <<>>, NEW G
  PROVE  /\ s[1] \in G => CountIn(Tail(s), G) = CountIn(s, G) - 1
         /\ s[1] \notin G => CountIn(Tail(s), G) = CountIn(s, G)
<1> DEFINE A == {i \in DOMAIN s : s[i] \in G}
           B == {i \in DOMAIN Tail(s) : Tail(s)[i] \in G}
           n == Len(s)
           f == [i \in B |-> i + 1]
<1>1. n \in Nat /\ n > 0 /\ A \subseteq 1..n /\ B \subseteq 1..(n - 1)
  BY SeqFacts
<1>2. IsFiniteSet(A) /\ Cardinality(A) \in Nat /\ IsFiniteSet(B)
  <2>1. n - 1 \in Nat
    BY <1>1
  <2> QED BY <1>1, <2>1, IndicesFinite
<1>3. f \in Bijection(B, A \ {1})
  <2>1. \A i \in B : i + 1 \in A \ {1}
    BY <1>1, SeqFacts
  <2>2. \A j \in A \ {1} : j - 1 \in B /\ f[j - 1] = j
    BY <1>1, SeqFacts
  <2>3. \A i, j \in B : f[i] = f[j] => i = j
    BY <1>1
  <2> QED BY <2>1, <2>2, <2>3 DEF Bijection, Injection, Surjection, IsInjective
<1>4. Cardinality(B) = Cardinality(A \ {1})
  <2> HIDE DEF A, B, f
  <2>1. ExistsBijection(B, A \ {1})
    BY <1>3 DEF ExistsBijection
  <2> QED BY <1>2, <2>1, FS_Bijection
<1>5. s[1] \in G <=> 1 \in A
  BY <1>1, SeqFacts
<1> HIDE DEF A, B
<1>6. Cardinality(A \ {1}) = IF 1 \in A THEN Cardinality(A) - 1 ELSE Cardinality(A)
  BY <1>2, FS_RemoveElement
<1> QED BY <1>4, <1>5, <1>6 DEF CountIn, A, B

(* The milliseconds of finitely many samples are finitely many.            *)
LEMMA AreaFinite ==
  ASSUME NEW S, NEW s \in Seq(S), \A o \in S : o.latency \in Nat
  PROVE  IsFiniteSet(Area(s)) /\ Cardinality(Area(s)) \in Nat
<1> DEFINE Of(i) == {i} \X (1..s[i].latency)
           Sets == {Of(i) : i \in DOMAIN s}
<1>1. IsFiniteSet(DOMAIN s)
  BY SeqFacts, FS_Interval
<1>2. [i \in DOMAIN s |-> Of(i)] \in Surjection(DOMAIN s, Sets)
  BY DEF Surjection
<1>3. IsFiniteSet(Sets)
  <2> HIDE DEF Sets
  <2> QED BY <1>1, <1>2, FS_Surjection
<1>4. \A T \in Sets : IsFiniteSet(T)
  <2> SUFFICES ASSUME NEW i \in DOMAIN s PROVE IsFiniteSet({i} \X (1..s[i].latency))
    OBVIOUS
  <2>1. s[i].latency \in Nat
    BY SeqFacts
  <2>2. IsFiniteSet(1..s[i].latency)
    BY <2>1, FS_Interval
  <2> QED BY <2>2, FS_Singleton, FS_Product
<1>5. IsFiniteSet(UNION Sets)
  <2> HIDE DEF Sets
  <2> QED BY <1>3, <1>4, FS_UNION
<1> QED BY <1>5, FS_CardinalityType DEF Area

(* A sample has as many of them as its latency says.                       *)
LEMMA ColumnSize ==
  ASSUME NEW i, NEW k \in Nat
  PROVE  IsFiniteSet({i} \X (1..k)) /\ Cardinality({i} \X (1..k)) = k
<1>1. IsFiniteSet(1..k) /\ Cardinality(1..k) = k
  BY FS_Interval
<1>2. IsFiniteSet({i}) /\ Cardinality({i}) = 1
  BY FS_Singleton
<1>3. IsFiniteSet({i} \X (1..k)) /\ Cardinality({i} \X (1..k)) = Cardinality({i}) * Cardinality(1..k)
  BY <1>1, <1>2, FS_Product
<1> QED BY <1>1, <1>2, <1>3

(* Appending a sample adds its latency.                                    *)
LEMMA AreaAppend ==
  ASSUME NEW S, NEW s \in Seq(S), NEW x \in S, \A o \in S : o.latency \in Nat
  PROVE  Cardinality(Area(Append(s, x))) = Cardinality(Area(s)) + x.latency
<1> DEFINE n == Len(s)
           C == {n + 1} \X (1..x.latency)
<1>1. Area(Append(s, x)) = Area(s) \cup C
  <2>1. DOMAIN Append(s, x) = DOMAIN s \cup {n + 1}
    BY SeqFacts
  <2>2. \A i \in DOMAIN s : Append(s, x)[i] = s[i]
    BY SeqFacts
  <2>3. Append(s, x)[n + 1] = x
    BY SeqFacts
  <2> HIDE DEF n
  <2> QED BY <2>1, <2>2, <2>3 DEF Area
<1>2. Area(s) \cap C = {}
  BY SeqFacts DEF Area
<1>3. IsFiniteSet(Area(s)) /\ IsFiniteSet(C) /\ Cardinality(C) = x.latency /\ Cardinality(Area(s)) \in Nat
  BY AreaFinite, ColumnSize
<1> HIDE DEF C
<1>4. Cardinality(Area(s) \cup C) = Cardinality(Area(s)) + Cardinality(C) - Cardinality({})
  BY <1>2, <1>3, FS_Union
<1> QED BY <1>1, <1>3, <1>4, FS_EmptySet

(* Dropping the head subtracts its latency.                                *)
LEMMA AreaTail ==
  ASSUME NEW S, NEW s \in Seq(S), s # <<>>, \A o \in S : o.latency \in Nat
  PROVE  Cardinality(Area(Tail(s))) = Cardinality(Area(s)) - s[1].latency
<1> DEFINE n == Len(s)
           A == Area(s)
           B == Area(Tail(s))
           C == {1} \X (1..s[1].latency)
           f == [p \in B |-> <<p[1] + 1, p[2]>>]
<1>1. n \in Nat /\ n > 0 /\ DOMAIN s = 1..n /\ DOMAIN Tail(s) = 1..(n - 1) /\ s[1].latency \in Nat
      /\ Tail(s) \in Seq(S) /\ \A i \in 1..(n - 1) : Tail(s)[i] = s[i + 1]
  BY SeqFacts
<1>2. IsFiniteSet(A) /\ Cardinality(A) \in Nat /\ IsFiniteSet(B)
  BY <1>1, AreaFinite
<1>3. IsFiniteSet(C) /\ Cardinality(C) = s[1].latency /\ A \cap C = C
  <2>1. C \subseteq A
    BY <1>1 DEF Area
  <2> QED BY <1>1, <2>1, ColumnSize
<1> HIDE DEF n
<1>4. \A i, k : <<i, k>> \in A \ C <=> i \in 2..n /\ k \in 1..s[i].latency
  BY <1>1 DEF Area
<1>5. \A i, k : <<i, k>> \in B <=> i \in 1..(n - 1) /\ k \in 1..s[i + 1].latency
  BY <1>1 DEF Area
<1>6. (\A p \in B : p = <<p[1], p[2]>>) /\ (\A p \in A \ C : p = <<p[1], p[2]>>)
  BY DEF Area
<1> HIDE DEF A, B, C
<1>7. f \in Bijection(B, A \ C)
  <2>1. \A p \in B : f[p] \in A \ C
    <3> SUFFICES ASSUME NEW p \in B PROVE <<p[1] + 1, p[2]>> \in A \ C
      OBVIOUS
    <3>1. p[1] \in 1..(n - 1) /\ p[2] \in 1..s[p[1] + 1].latency
      BY <1>5, <1>6
    <3>2. p[1] + 1 \in 2..n
      BY <1>1, <3>1
    <3> QED BY <1>4, <3>1, <3>2
  <2>2. \A q \in A \ C : \E p \in B : f[p] = q
    <3> SUFFICES ASSUME NEW q \in A \ C PROVE <<q[1] - 1, q[2]>> \in B /\ f[<<q[1] - 1, q[2]>>] = q
      OBVIOUS
    <3>1. q[1] \in 2..n /\ q[2] \in 1..s[q[1]].latency
      BY <1>4, <1>6
    <3>2. q[1] - 1 \in 1..(n - 1) /\ q[1] - 1 + 1 = q[1]
      BY <1>1, <3>1
    <3>3. <<q[1] - 1, q[2]>> \in B
      BY <1>5, <3>1, <3>2
    <3>4. f[<<q[1] - 1, q[2]>>] = <<q[1], q[2]>>
      BY <3>2, <3>3
    <3> QED BY <1>6, <3>3, <3>4
  <2>3. \A p, q \in B : f[p] = f[q] => p = q
    <3> SUFFICES ASSUME NEW p \in B, NEW q \in B, f[p] = f[q] PROVE p = q
      OBVIOUS
    <3>1. p[1] \in Int /\ q[1] \in Int
      BY <1>5, <1>6
    <3>2. p[1] + 1 = q[1] + 1 /\ p[2] = q[2]
      OBVIOUS
    <3> QED BY <1>6, <3>1, <3>2
  <2> QED BY <2>1, <2>2, <2>3 DEF Bijection, Injection, Surjection, IsInjective
<1>8. Cardinality(B) = Cardinality(A \ C)
  <2> HIDE DEF f
  <2>1. ExistsBijection(B, A \ C)
    BY <1>7 DEF ExistsBijection
  <2> QED BY <1>2, <2>1, FS_Bijection
<1>9. Cardinality(A \ C) = Cardinality(A) - Cardinality(A \cap C)
  BY <1>2, FS_Difference
<1> QED BY <1>3, <1>8, <1>9 DEF A, B

-----------------------------------------------------------------------------
(* The outcome window.                                                     *)

SampleOf(o) == [latency |-> o.latency, bucket |-> bucketFor(o.latency),
                timedOut |-> o.timedOut, isError |-> o.isError]
SampleSet == {SampleOf(o) : o \in Outcomes}

TimedOut == {x \in SampleSet : x.timedOut}
Failed == {x \in SampleSet : x.isError}
InBucket(b) == {x \in SampleSet : bucketFor(x.latency) = b}

(* The slot of the ring that is j places after pos, around its end.        *)
Slot(j) == IF pos + j < size THEN pos + j ELSE pos + j - size

(* recent is the ring read from its oldest sample on: from slot 0 while it *)
(* fills, from pos, where the next sample goes, once it is full.           *)
RingInv ==
  /\ ring = [i \in 0..(size - 1) |-> ring[i]]
  /\ pos \in 0..(size - 1)
  /\ recent \in Seq(SampleSet)
  /\ filled = Len(recent) /\ filled <= size
  /\ filled < size => pos = filled /\ \A j \in 1..filled : recent[j] = ring[j - 1]
  /\ filled = size => \A j \in 0..(size - 1) : recent[j + 1] = ring[Slot(j)]

SumsInv ==
  /\ buckets = [b \in Buckets |-> CountIn(recent, InBucket(b))]
  /\ total = Len(recent)
  /\ timeouts = CountIn(recent, TimedOut)
  /\ errors = CountIn(recent, Failed)
  /\ sumLatency = Cardinality(Area(recent))

WindowInv == RingInv /\ SumsInv

(* What record stores of an outcome.                                       *)
LEMMA SampleFacts ==
  /\ size \in Nat \ {0}
  /\ \A x \in SampleSet : x.latency \in Nat /\ x.bucket = bucketFor(x.latency)
                           /\ x.timedOut \in BOOLEAN /\ x.isError \in BOOLEAN
BY WindowAssumption DEF SampleSet, SampleOf

(* The invariant of the window implies the property of the sums.           *)
LEMMA SumsAreRight == WindowInv => SumsMatchRecent
<1> SUFFICES ASSUME WindowInv PROVE SumsMatchRecent
  OBVIOUS
<1>1. \A i \in DOMAIN recent : recent[i] \in SampleSet
  BY DEF WindowInv, RingInv
<1>2. Count(LAMBDA o : o.timedOut) = CountIn(recent, TimedOut)
  <2>1. {i \in DOMAIN recent : recent[i].timedOut} = {i \in DOMAIN recent : recent[i] \in TimedOut}
    BY <1>1 DEF TimedOut
  <2> QED BY <2>1 DEF Count, CountIn
<1>3. Count(LAMBDA o : o.isError) = CountIn(recent, Failed)
  <2>1. {i \in DOMAIN recent : recent[i].isError} = {i \in DOMAIN recent : recent[i] \in Failed}
    BY <1>1 DEF Failed
  <2> QED BY <2>1 DEF Count, CountIn
<1>4. ASSUME NEW b \in Buckets
      PROVE  Count(LAMBDA o : bucketFor(o.latency) = b) = CountIn(recent, InBucket(b))
  <2>1. {i \in DOMAIN recent : bucketFor(recent[i].latency) = b}
          = {i \in DOMAIN recent : recent[i] \in InBucket(b)}
    BY <1>1 DEF InBucket
  <2> QED BY <2>1 DEF Count, CountIn
<1>5. Millis = Area(recent)
  BY DEF Millis, Area
<1> QED BY <1>2, <1>3, <1>4, <1>5 DEF WindowInv, SumsInv, SumsMatchRecent

(* The empty window is the one of no outcome.                              *)
LEMMA InitWindowInv == WindowInit => WindowInv
<1> SUFFICES ASSUME WindowInit PROVE WindowInv
  OBVIOUS
<1>1. recent = <<>> /\ recent \in Seq(SampleSet) /\ Len(recent) = 0 /\ DOMAIN recent = {}
  BY DEF WindowInit
<1>2. RingInv
  BY <1>1, SampleFacts DEF WindowInit, RingInv
<1>3. Area(recent) = {} /\ \A G : CountIn(recent, G) = 0
  BY <1>1, FS_EmptySet DEF Area, CountIn
<1>4. SumsInv
  BY <1>1, <1>3, FS_EmptySet DEF WindowInit, SumsInv
<1> QED BY <1>2, <1>4 DEF WindowInv

(* The remainder of NextPos is a wrap-around to slot 0.                    *)
LEMMA NextPosFacts ==
  ASSUME pos \in 0..(size - 1)
  PROVE  NextPos = IF pos + 1 = size THEN 0 ELSE pos + 1
<1>1. size \in Nat \ {0} /\ pos \in Nat
  BY SampleFacts
<1>2. CASE pos + 1 = size
  <2>1. \A n \in Nat \ {0} : n % n = 0
    OBVIOUS
  <2> QED BY <1>1, <1>2, <2>1 DEF NextPos
<1>3. CASE pos + 1 # size
  <2>1. \A m, n \in Nat : m < n => m % n = m
    OBVIOUS
  <2> QED BY <1>1, <1>3, <2>1 DEF NextPos
<1> QED BY <1>2, <1>3

(* What Record does to recent: the ring's slot pos holds the oldest sample *)
(* when it is full, and it is the one that drops out.                      *)
LEMMA RecordRing ==
  ASSUME RingInv, NEW o \in Outcomes, Record(o.latency, o.timedOut, o.isError)
  PROVE  /\ RingInv'
         /\ filled = size => recent # <<>> /\ Oldest = recent[1]
                             /\ recent' = Append(Tail(recent), SampleOf(o))
         /\ filled # size => recent' = Append(recent, SampleOf(o))
<1> DEFINE x == SampleOf(o)
           r == Append(recent, x)
<1> USE SampleFacts
<1>0. size \in Nat \ {0} /\ pos \in 0..(size - 1) /\ filled \in Nat /\ filled <= size
      /\ recent \in Seq(SampleSet) /\ Len(recent) = filled
  BY SeqFacts DEF RingInv
<1>1. x \in SampleSet
  BY DEF SampleSet
<1>2. /\ ring' = [ring EXCEPT ![pos] = x]
      /\ filled' = IF filled = size THEN filled ELSE filled + 1
      /\ pos' = NextPos
      /\ recent' = LET q == Append(recent, ring'[pos]) IN IF Len(q) > size THEN Tail(q) ELSE q
  BY DEF Record, SampleOf
<1> HIDE DEF x
<1>3. ring'[pos] = x /\ ring' = [i \in 0..(size - 1) |-> ring'[i]]
      /\ \A i \in 0..(size - 1) : i # pos => ring'[i] = ring[i]
  BY <1>0, <1>2 DEF RingInv
<1>4. recent' = IF Len(r) > size THEN Tail(r) ELSE r
  BY <1>2, <1>3
<1>5. /\ r \in Seq(SampleSet) /\ Len(r) = filled + 1 /\ r[filled + 1] = x
      /\ \A j \in 1..filled : r[j] = recent[j]
  BY <1>0, <1>1, SeqFacts
<1>6. pos' = IF pos + 1 = size THEN 0 ELSE pos + 1
  BY <1>0, <1>2, NextPosFacts
<1>7. CASE filled = size
  <2>1. recent # <<>> /\ Oldest = recent[1]
    <3>1. 0 \in 0..(size - 1) /\ 0 + 1 = 1 /\ Slot(0) = pos
      BY <1>0 DEF Slot
    <3>2. recent[0 + 1] = ring[Slot(0)]
      BY <1>0, <1>7, <3>1 DEF RingInv
    <3> QED BY <1>0, <1>7, <3>1, <3>2 DEF Oldest
  <2>2. recent' = Tail(r)
    BY <1>0, <1>4, <1>5, <1>7
  <2>3. /\ recent' \in Seq(SampleSet) /\ Len(recent') = size
        /\ \A j \in 1..size : recent'[j] = r[j + 1]
    <3>1. r # <<>>
      BY <1>0, <1>5
    <3> HIDE DEF r
    <3> QED BY <1>0, <1>5, <1>7, <2>2, <3>1, SeqFacts
  <2>4. recent' = Append(Tail(recent), x)
    <3>1. /\ Tail(recent) \in Seq(SampleSet) /\ Len(Tail(recent)) = size - 1
          /\ \A j \in 1..(size - 1) : Tail(recent)[j] = recent[j + 1]
      BY <1>0, <1>7, <2>1, SeqFacts
    <3> DEFINE t == Append(Tail(recent), x)
    <3>2. /\ t \in Seq(SampleSet) /\ Len(t) = size /\ t[size] = x
          /\ \A j \in 1..(size - 1) : t[j] = Tail(recent)[j]
      BY <1>0, <1>1, <3>1, SeqFacts
    <3>3. \A j \in 1..size : t[j] = recent'[j]
      <4> SUFFICES ASSUME NEW j \in 1..size PROVE t[j] = recent'[j]
        OBVIOUS
      <4>1. CASE j = size
        BY <1>0, <1>5, <1>7, <2>3, <3>2, <4>1
      <4>2. CASE j # size
        <5>1. j \in 1..(size - 1) /\ j + 1 \in 1..filled
          BY <1>0, <1>7, <4>2
        <5>2. t[j] = recent[j + 1]
          BY <3>1, <3>2, <5>1
        <5> QED BY <1>5, <2>3, <5>1, <5>2
      <4> QED BY <4>1, <4>2
    <3> HIDE DEF t
    <3>4. t = recent'
      BY <2>3, <3>2, <3>3, SeqEqual
    <3> QED BY <3>4 DEF t
  <2>5. \A j \in 0..(size - 1) : recent'[j + 1] = ring'[Slot(j)']
    <3> SUFFICES ASSUME NEW j \in 0..(size - 1) PROVE recent'[j + 1] = ring'[Slot(j)']
      OBVIOUS
    <3>1. CASE j = size - 1
      <4>1. Slot(j)' = pos /\ j + 1 = size /\ size \in 1..size
        BY <1>0, <1>6, <3>1 DEF Slot
      <4> QED BY <1>3, <1>5, <1>7, <2>3, <4>1
    <3>2. CASE j # size - 1
      <4> DEFINE k == j + 1
      <4>1. k \in 0..(size - 1) /\ k \in 1..size /\ k + 1 \in 1..filled
        BY <1>0, <1>7, <3>2
      <4>2. Slot(j)' = Slot(k) /\ Slot(k) \in 0..(size - 1) /\ Slot(k) # pos
        BY <1>0, <1>6, <3>2 DEF Slot
      <4> HIDE DEF k
      <4>3. recent[k + 1] = ring[Slot(k)]
        BY <1>7, <4>1 DEF RingInv
      <4>4. recent'[k] = recent[k + 1]
        BY <1>5, <1>7, <2>3, <4>1
      <4>5. recent'[k] = ring'[Slot(j)']
        BY <1>3, <4>2, <4>3, <4>4
      <4> QED BY <4>5 DEF k
    <3> QED BY <3>1, <3>2
  <2>6. RingInv'
    <3>1. filled' = size /\ pos' \in 0..(size - 1)
      BY <1>0, <1>2, <1>6, <1>7
    <3> QED BY <1>0, <1>3, <2>3, <2>5, <3>1 DEF RingInv
  <2> QED BY <1>7, <2>1, <2>4, <2>6 DEF x
<1>8. CASE filled # size
  <2>1. pos = filled /\ filled < size /\ recent' = r
    BY <1>0, <1>4, <1>5, <1>8 DEF RingInv
  <2>2. \A j \in 1..(filled + 1) : recent'[j] = ring'[j - 1]
    <3> SUFFICES ASSUME NEW j \in 1..(filled + 1) PROVE r[j] = ring'[j - 1]
      BY <2>1
    <3>1. CASE j = filled + 1
      BY <1>0, <1>3, <1>5, <2>1, <3>1
    <3>2. CASE j # filled + 1
      <4>1. j \in 1..filled /\ j - 1 \in 0..(size - 1) /\ j - 1 # pos
        BY <1>0, <2>1, <3>2
      <4> QED BY <1>3, <1>5, <2>1, <4>1 DEF RingInv
    <3> QED BY <3>1, <3>2
  <2>3. filled + 1 = size => \A j \in 0..(size - 1) : Slot(j)' = j
    BY <1>0, <1>6, <2>1 DEF Slot
  <2>4. filled' = filled + 1 /\ Len(recent') = filled' /\ recent' \in Seq(SampleSet)
    BY <1>2, <1>5, <1>8, <2>1
  <2>5. filled + 1 = size => \A j \in 0..(size - 1) : recent'[j + 1] = ring'[Slot(j)']
    <3> SUFFICES ASSUME filled + 1 = size, NEW j \in 0..(size - 1) PROVE recent'[j + 1] = ring'[Slot(j)']
      OBVIOUS
    <3>1. j + 1 \in 1..(filled + 1) /\ j + 1 - 1 = j
      BY <1>0
    <3>2. recent'[j + 1] = ring'[j + 1 - 1]
      BY <2>2, <3>1
    <3> QED BY <2>3, <3>1, <3>2
  <2>6. filled + 1 < size => pos' = filled + 1
    BY <1>0, <1>6, <2>1
  <2>7. pos' \in 0..(size - 1) /\ filled + 1 <= size
    BY <1>0, <1>6, <2>1
  <2>8. RingInv'
    BY <1>0, <1>3, <2>2, <2>4, <2>5, <2>6, <2>7 DEF RingInv
  <2> QED BY <1>8, <2>1, <2>8 DEF x
<1> QED BY <1>7, <1>8

(* CountAppend with the increment that the counters of Record add.         *)
LEMMA CountPlusOne ==
  ASSUME NEW S, NEW s \in Seq(S), NEW x \in S, NEW G
  PROVE  CountIn(Append(s, x), G) = CountIn(s, G) + One(x \in G)
<1>1. CASE x \in G
  BY <1>1, CountAppend DEF One
<1>2. CASE x \notin G
  BY <1>2, CountAppend DEF One
<1> QED BY <1>1, <1>2

(* Counting one sample more, and one less where the window was full.       *)
LEMMA Counted ==
  ASSUME NEW G, RingInv, NEW x \in SampleSet, NEW r,
         \/ filled = size /\ recent # <<>> /\ r = Append(Tail(recent), x)
         \/ filled # size /\ r = Append(recent, x)
  PROVE  CountIn(r, G) = CountIn(recent, G) - One(filled = size /\ recent[1] \in G) + One(x \in G)
<1>1. recent \in Seq(SampleSet) /\ CountIn(recent, G) \in Nat
  BY CountAppend DEF RingInv
<1>2. CASE filled = size
  <2>1. Tail(recent) \in Seq(SampleSet)
    BY <1>1, <1>2, SeqFacts
  <2>2. CountIn(Tail(recent), G) = CountIn(recent, G) - One(recent[1] \in G)
    BY <1>1, <1>2, CountTail DEF One
  <2>3. CountIn(r, G) = CountIn(Tail(recent), G) + One(x \in G)
    <3>1. CountIn(Append(Tail(recent), x), G) = CountIn(Tail(recent), G) + One(x \in G)
      BY <2>1, CountPlusOne
    <3> QED BY <1>2, <3>1
  <2>4. One(filled = size /\ recent[1] \in G) = One(recent[1] \in G)
    BY <1>2 DEF One
  <2> QED BY <2>2, <2>3, <2>4
<1>3. CASE filled # size
  <2>1. CountIn(r, G) = CountIn(recent, G) + One(x \in G)
    <3>1. CountIn(Append(recent, x), G) = CountIn(recent, G) + One(x \in G)
      BY <1>1, CountPlusOne
    <3> QED BY <1>3, <3>1
  <2>2. One(filled = size /\ recent[1] \in G) = 0
    BY <1>3 DEF One
  <2> QED BY <1>1, <2>1, <2>2 DEF One
<1> QED BY <1>2, <1>3

(* Record keeps the ring and the sums in step, evicting or not.            *)
LEMMA RecordKeeps ==
  ASSUME WindowInv, NEW o \in Outcomes, Record(o.latency, o.timedOut, o.isError)
  PROVE  WindowInv'
<1> DEFINE x == SampleOf(o)
           full == filled = size
           first == recent[1]
           L == Cardinality(Area(recent))
<1> USE SampleFacts
<1>0. RingInv /\ SumsInv /\ RingInv' /\ recent \in Seq(SampleSet) /\ Len(recent) = filled
      /\ recent' \in Seq(SampleSet) /\ filled \in Nat
  BY RecordRing, SeqFacts DEF WindowInv, RingInv
<1>1. x \in SampleSet /\ x.latency = o.latency /\ x.timedOut = o.timedOut /\ x.isError = o.isError
      /\ x.bucket = bucketFor(o.latency)
  BY DEF SampleSet, SampleOf
<1>2. \/ filled = size /\ recent # <<>> /\ recent' = Append(Tail(recent), x)
      \/ filled # size /\ recent' = Append(recent, x)
  BY <1>0, RecordRing
<1>3. full => Oldest = first /\ first \in SampleSet /\ recent # <<>>
  <2>1. full => Oldest = first /\ recent # <<>>
    BY <1>0, RecordRing
  <2>2. recent # <<>> => 1 \in 1..Len(recent)
    BY <1>0, SeqFacts
  <2> QED BY <1>0, <2>1, <2>2, SeqFacts
<1> HIDE DEF x, first
<1>4. /\ total' = (IF full THEN total - 1 ELSE total) + 1
      /\ sumLatency' = sumLatency - (IF full THEN Oldest.latency ELSE 0) + x.latency
      /\ timeouts' = timeouts - One(full /\ Oldest.timedOut) + One(x.timedOut)
      /\ errors' = errors - One(full /\ Oldest.isError) + One(x.isError)
      /\ filled' = IF full THEN filled ELSE filled + 1
  BY <1>1 DEF Record
<1>5. \A G : CountIn(recent', G) = CountIn(recent, G) - One(full /\ first \in G) + One(x \in G)
  BY <1>0, <1>1, <1>2, Counted DEF first
<1>6. total' = Len(recent')
  BY <1>0, <1>4 DEF SumsInv, RingInv
<1>7. timeouts' = CountIn(recent', TimedOut)
  <2>1. (full => (Oldest.timedOut <=> first \in TimedOut)) /\ (x.timedOut <=> x \in TimedOut)
    BY <1>1, <1>3 DEF TimedOut
  <2>2. One(full /\ Oldest.timedOut) = One(full /\ first \in TimedOut) /\ One(x.timedOut) = One(x \in TimedOut)
    BY <2>1 DEF One
  <2> QED BY <1>0, <1>4, <1>5, <2>2 DEF SumsInv
<1>8. errors' = CountIn(recent', Failed)
  <2>1. (full => (Oldest.isError <=> first \in Failed)) /\ (x.isError <=> x \in Failed)
    BY <1>1, <1>3 DEF Failed
  <2>2. One(full /\ Oldest.isError) = One(full /\ first \in Failed) /\ One(x.isError) = One(x \in Failed)
    BY <2>1 DEF One
  <2> QED BY <1>0, <1>4, <1>5, <2>2 DEF SumsInv
<1>9. buckets' = [b \in Buckets |-> CountIn(recent', InBucket(b))]
  <2> DEFINE kept == IF full THEN [buckets EXCEPT ![Oldest.bucket] = @ - 1] ELSE buckets
  <2>1. buckets' = [kept EXCEPT ![x.bucket] = @ + 1]
    BY <1>1 DEF Record
  <2>2. kept = [b \in Buckets |-> CountIn(recent, InBucket(b)) - One(full /\ Oldest.bucket = b)]
    <3>1. buckets = [b \in Buckets |-> CountIn(recent, InBucket(b))]
          /\ \A b \in Buckets : CountIn(recent, InBucket(b)) \in Nat
      BY <1>0, <1>1, CountAppend DEF SumsInv
    <3>2. CASE full
      BY <3>1, <3>2 DEF One
    <3>3. CASE ~full
      BY <3>1, <3>3 DEF One
    <3> QED BY <3>2, <3>3
  <2> HIDE DEF kept
  <2>3. buckets' = [b \in Buckets |->
                      CountIn(recent, InBucket(b)) - One(full /\ Oldest.bucket = b) + One(x.bucket = b)]
    <3>1. \A b \in Buckets : CountIn(recent, InBucket(b)) - One(full /\ Oldest.bucket = b) \in Int
      BY <1>0, <1>1, CountAppend DEF One
    <3> QED BY <2>1, <2>2, <3>1 DEF One
  <2>4. ASSUME NEW b \in Buckets
        PROVE  CountIn(recent, InBucket(b)) - One(full /\ Oldest.bucket = b) + One(x.bucket = b)
                 = CountIn(recent', InBucket(b))
    <3>1. (full => (Oldest.bucket = b <=> first \in InBucket(b))) /\ (x.bucket = b <=> x \in InBucket(b))
      BY <1>1, <1>3 DEF InBucket
    <3>2. One(full /\ Oldest.bucket = b) = One(full /\ first \in InBucket(b))
          /\ One(x.bucket = b) = One(x \in InBucket(b))
      BY <3>1 DEF One
    <3> QED BY <1>5, <3>2
  <2> QED BY <2>3, <2>4
<1>10. sumLatency' = Cardinality(Area(recent'))
  <2>1. L \in Nat /\ sumLatency = L /\ x.latency \in Nat
    BY <1>0, <1>1, AreaFinite DEF SumsInv
  <2>2. CASE full
    <3>1. Tail(recent) \in Seq(SampleSet)
      BY <1>0, <1>3, <2>2, SeqFacts
    <3>2. Cardinality(Area(Tail(recent))) = L - first.latency
      BY <1>0, <1>3, <2>2, AreaTail DEF first
    <3>3. Cardinality(Area(recent')) = Cardinality(Area(Tail(recent))) + x.latency
      BY <1>1, <1>2, <2>2, <3>1, AreaAppend
    <3>4. sumLatency' = L - first.latency + x.latency
      BY <1>3, <1>4, <2>1, <2>2
    <3> QED BY <3>2, <3>3, <3>4
  <2>3. CASE ~full
    <3>1. Cardinality(Area(recent')) = L + x.latency
      BY <1>0, <1>1, <1>2, <2>3, AreaAppend
    <3>2. sumLatency' = L - 0 + x.latency
      BY <1>4, <2>1, <2>3
    <3> QED BY <2>1, <3>1, <3>2
  <2> QED BY <2>2, <2>3
<1> QED BY <1>0, <1>6, <1>7, <1>8, <1>9, <1>10 DEF WindowInv, SumsInv

-----------------------------------------------------------------------------
(* The buckets.                                                            *)

(* A set of numbers has a least one: what stands in for induction here.    *)
LEMMA Least ==
  ASSUME NEW S \in SUBSET Nat, S # {}
  PROVE  \E m \in S : \A k \in S : m <= k
<1>1. PICK m \in S : \A k \in S : ~(<<k, m>> \in OpToRel(<, Nat))
  BY NatLessThanWellFounded, WFMin
<1>2. \A k \in Nat : k < m => <<k, m>> \in OpToRel(<, Nat)
  BY DEF OpToRel
<1>3. \A k \in S : ~(k < m)
  BY <1>1, <1>2
<1> QED BY <1>3

(* Finitely many numbers are bounded.                                      *)
LEMMA Bounded ==
    ASSUME NEW n \in Nat, NEW f, \A i \in 1..n : f[i] \in Nat
    PROVE  \E b \in Nat : \A i \in 1..n : f[i] <= b
<1> DEFINE Unbounded == {m \in 0..n : ~\E b \in Nat : \A i \in 1..m : f[i] <= b}
<1>1. CASE Unbounded = {}
  <2> SUFFICES ASSUME ~\E b \in Nat : \A i \in 1..n : f[i] <= b PROVE FALSE
    OBVIOUS
  <2>1. n \in 0..n
    OBVIOUS
  <2>2. n \in Unbounded
    BY <2>1
  <2> QED BY <1>1, <2>2
<1>2. CASE Unbounded # {}
  <2>1. PICK m \in Unbounded : \A k \in Unbounded : m <= k
    <3>1. Unbounded \subseteq Nat
      OBVIOUS
    <3> HIDE DEF Unbounded
    <3> QED BY <1>2, <3>1, Least
  <2>2. m \in 0..n /\ m # 0
    BY DEF Unbounded
  <2>3. m - 1 \in 0..n /\ ~(m <= m - 1)
    BY <2>2
  <2>4. PICK b \in Nat : \A i \in 1..(m - 1) : f[i] <= b
    BY <2>1, <2>3
  <2>5. \A i \in 1..m : f[i] <= b + f[m]
    <3> SUFFICES ASSUME NEW i \in 1..m PROVE f[i] <= b + f[m]
      OBVIOUS
    <3>1. f[m] \in Nat /\ f[i] \in Nat
      BY <2>2
    <3>2. CASE i = m
      BY <3>1, <3>2
    <3>3. CASE i # m
      <4>1. i \in 1..(m - 1)
        BY <2>2, <3>3
      <4>2. f[i] <= b
        BY <2>4, <4>1
      <4> QED BY <3>1, <4>2
    <3> QED BY <3>2, <3>3
  <2>6. b + f[m] \in Nat
    BY <2>2
  <2> QED BY <2>1, <2>5, <2>6 DEF Unbounded
<1> QED BY <1>1, <1>2

(* The buckets are numbered from 0, and start later and later.             *)
LEMMA StartsFacts ==
  /\ histBucketCount \in Nat \ {0, 1} /\ Buckets = 0..(histBucketCount - 1)
  /\ 0 \in Buckets /\ LastBucket \in Buckets
  /\ histMinMs \in Nat
  /\ \A i \in Buckets : bucketStart[i] \in Nat /\ histMinMs <= bucketStart[i]
  /\ \A i, j \in Buckets : i < j => bucketStart[i] < bucketStart[j]
<1>1. /\ histBucketCount \in Nat \ {0, 1} /\ Buckets = 0..(histBucketCount - 1)
      /\ 0 \in Buckets /\ LastBucket \in Buckets
  BY WindowAssumption DEF Buckets, LastBucket
<1>2. /\ \A i \in Buckets : bucketStart[i] \in Nat
      /\ \A i, j \in Buckets : i < j => bucketStart[i] < bucketStart[j]
  BY <1>1, WindowAssumption
<1>3. \A i \in Buckets : bucketStart[0] <= bucketStart[i]
  <2>1. \A i \in Buckets : i = 0 \/ 0 < i
    BY <1>1
  <2> QED BY <1>1, <1>2, <2>1
<1> QED BY <1>1, <1>2, <1>3 DEF histMinMs

LEMMA BucketsAreNats ==
  \A i \in Buckets : i \in Nat /\ (i # 0 => i - 1 \in Buckets)
BY StartsFacts

(* A latency that reaches a bucket reaches those before it, and so does    *)
(* every larger latency.                                                   *)
LEMMA ReachesFacts ==
  ASSUME NEW v \in Nat, NEW w \in Nat, v <= w,
         NEW i \in Buckets, NEW j \in Buckets, i <= j, Reaches(v, j)
  PROVE  Reaches(w, i)
<1>1. bucketStart[i] \in Nat /\ bucketStart[j] \in Nat /\ (i < j => bucketStart[i] < bucketStart[j])
  BY StartsFacts
<1>2. i < j \/ i = j
  BY StartsFacts
<1>3. CASE i = j
  BY <1>1, <1>3 DEF Reaches
<1>4. CASE i < j
  BY <1>1, <1>4 DEF Reaches
<1> QED BY <1>2, <1>3, <1>4

(* Between the two ends a latency has a bucket, the one bucketFor takes.   *)
LEMMA BucketFound ==
  ASSUME NEW ms \in Nat, histMinMs < ms, ~Reaches(ms, LastBucket)
  PROVE  /\ bucketFor(ms) \in Buckets
         /\ Reaches(ms, bucketFor(ms)) /\ ~Reaches(ms, bucketFor(ms) + 1)
<1> USE StartsFacts
<1> DEFINE Above == {i \in Buckets : ~Reaches(ms, i)}
           In(i) == Reaches(ms, i) /\ ~Reaches(ms, i + 1)
<1>1. LastBucket \in Above
  BY DEF LastBucket
<1>2. PICK k \in Above : \A i \in Above : k <= i
  <2>1. Above \subseteq Nat /\ Above # {}
    BY <1>1
  <2> HIDE DEF Above
  <2> QED BY <2>1, Least
<1>3. k \in Buckets /\ k # 0 /\ ~Reaches(ms, k)
  BY <1>2 DEF Reaches, histMinMs
<1>4. k - 1 \in Buckets /\ k - 1 + 1 = k /\ ~(k <= k - 1)
  BY <1>3
<1>5. In(k - 1)
  BY <1>2, <1>3, <1>4
<1>6. bucketFor(ms) = CHOOSE i \in Buckets : In(i)
  BY DEF bucketFor
<1> HIDE DEF In
<1>7. bucketFor(ms) \in Buckets /\ In(bucketFor(ms))
  BY <1>4, <1>5, <1>6
<1> QED BY <1>7 DEF In

(* Every latency has a bucket: one it reaches, but for the first, with a   *)
(* next one that it does not reach, but for the last.                      *)
LEMMA BucketFacts ==
  ASSUME NEW ms \in Nat
  PROVE  /\ bucketFor(ms) \in Buckets /\ bucketFor(ms) \in Nat
         /\ bucketFor(ms) # 0 => Reaches(ms, bucketFor(ms)) \/ Reaches(ms, LastBucket)
         /\ ~Reaches(ms, LastBucket) /\ ms > histMinMs => ~Reaches(ms, bucketFor(ms) + 1)
<1> USE StartsFacts
<1>1. CASE ms <= histMinMs
  BY <1>1 DEF bucketFor
<1>2. CASE ms > histMinMs /\ Reaches(ms, LastBucket)
  <2>1. bucketFor(ms) = LastBucket /\ LastBucket \in Buckets
    BY <1>2 DEF bucketFor, LastBucket
  <2> QED BY <1>2, <2>1
<1>3. CASE ms > histMinMs /\ ~Reaches(ms, LastBucket)
  BY <1>3, BucketFound
<1> QED BY <1>1, <1>2, <1>3

(* A larger latency is never in an earlier bucket.                         *)
LEMMA BucketGrows ==
  ASSUME NEW v \in Nat, NEW w \in Nat, v <= w
  PROVE  bucketFor(v) <= bucketFor(w)
<1> USE StartsFacts
<1> DEFINE b == bucketFor(v)
           c == bucketFor(w)
<1>1. b \in Buckets /\ c \in Buckets /\ b \in Nat /\ c \in Nat
  BY BucketFacts
<1>2. CASE v <= histMinMs
  <2>1. b = 0
    BY <1>2 DEF bucketFor
  <2> QED BY <1>1, <2>1
<1>3. CASE Reaches(w, LastBucket) /\ w > histMinMs
  <2>1. c = LastBucket
    BY <1>3 DEF bucketFor
  <2> HIDE DEF b, c
  <2>2. b <= c
    BY <1>1, <2>1 DEF LastBucket
  <2> QED BY <2>2 DEF b, c
<1>4. CASE v > histMinMs /\ ~Reaches(w, LastBucket)
  <2>1. Reaches(v, b) /\ ~Reaches(w, c + 1)
    <3>1. LastBucket \in Buckets
      BY DEF LastBucket
    <3>2. ~Reaches(v, LastBucket)
      BY <1>4, <3>1, ReachesFacts
    <3> QED BY <1>4, <3>2, BucketFound
  <2> HIDE DEF b, c
  <2>2. c + 1 <= b => c + 1 \in Buckets
    BY <1>1
  <2>3. ~(c + 1 <= b)
    BY <1>1, <2>1, <2>2, ReachesFacts
  <2>4. b <= c
    BY <1>1, <2>3
  <2> QED BY <2>4 DEF b, c
<1> QED BY <1>2, <1>3, <1>4

-----------------------------------------------------------------------------
(* The percentile.                                                         *)

UpToBucket(i) == {j \in DOMAIN recent : recent[j].bucket <= i}
UpToLatency(v) == {j \in DOMAIN recent : recent[j].latency <= v}
Below(v) == {j \in DOMAIN recent : recent[j].latency < v}

(* What the ring invariant says of every recent outcome.                   *)
LEMMA RecentFacts ==
  ASSUME RingInv
  PROVE  /\ Len(recent) \in Nat /\ DOMAIN recent = 1..Len(recent)
         /\ \A j \in DOMAIN recent : /\ recent[j] \in SampleSet /\ recent[j].latency \in Nat
                                     /\ recent[j].bucket = bucketFor(recent[j].latency)
                                     /\ recent[j].bucket \in Buckets
         /\ \A T \in SUBSET DOMAIN recent : IsFiniteSet(T) /\ Cardinality(T) \in Nat
         /\ Cardinality(DOMAIN recent) = Len(recent)
<1>1. Len(recent) \in Nat /\ DOMAIN recent = 1..Len(recent) /\ \A j \in DOMAIN recent : recent[j] \in SampleSet
  BY SeqFacts DEF RingInv
<1>2. \A j \in DOMAIN recent : recent[j].latency \in Nat /\ recent[j].bucket = bucketFor(recent[j].latency)
  BY <1>1, SampleFacts
<1>3. \A j \in DOMAIN recent : recent[j].bucket \in Buckets
  BY <1>2, BucketFacts
<1>4. \A T \in SUBSET DOMAIN recent : IsFiniteSet(T) /\ Cardinality(T) \in Nat
  BY <1>1, IndicesFinite
<1>5. Cardinality(DOMAIN recent) = Len(recent)
  BY <1>1, FS_Interval
<1> QED BY <1>1, <1>2, <1>3, <1>4, <1>5

(* The running sum over the buckets counts the samples up to a bucket.     *)
LEMMA BucketStep ==
  ASSUME WindowInv, NEW i \in Buckets
  PROVE  Cardinality(UpToBucket(i)) =
           buckets[i] + (IF i = 0 THEN 0 ELSE Cardinality(UpToBucket(i - 1)))
<1> DEFINE At == {j \in DOMAIN recent : recent[j].bucket = i}
<1> USE RecentFacts DEF WindowInv
<1>1. buckets[i] = Cardinality(At)
  <2>1. At = {j \in DOMAIN recent : recent[j] \in InBucket(i)}
    BY DEF InBucket
  <2> QED BY <2>1 DEF SumsInv, CountIn
<1>2. Cardinality(At) \in Nat /\ IsFiniteSet(At)
  BY DEF At
<1>3. \A j \in DOMAIN recent : recent[j].bucket \in Nat
  BY DEF Buckets
<1>4. CASE i = 0
  <2>1. UpToBucket(i) = At
    BY <1>3, <1>4 DEF UpToBucket
  <2> HIDE DEF At
  <2> DEFINE a == Cardinality(At)
  <2>2. a \in Nat /\ buckets[i] = a /\ Cardinality(UpToBucket(i)) = a
    BY <1>1, <1>2, <2>1
  <2> HIDE DEF a
  <2>3. Cardinality(UpToBucket(i)) = buckets[i] + 0
    BY <2>2
  <2> QED BY <1>4, <2>3
<1>5. CASE i # 0
  <2>1. UpToBucket(i) = At \cup UpToBucket(i - 1) /\ At \cap UpToBucket(i - 1) = {}
    BY <1>3 DEF UpToBucket, Buckets
  <2>2. IsFiniteSet(UpToBucket(i - 1)) /\ Cardinality(UpToBucket(i - 1)) \in Nat
    BY DEF UpToBucket
  <2> HIDE DEF At
  <2>3. Cardinality(UpToBucket(i)) = Cardinality(At) + Cardinality(UpToBucket(i - 1)) - Cardinality({})
    BY <1>2, <2>1, <2>2, FS_Union
  <2> DEFINE a == Cardinality(At)
             c == Cardinality(UpToBucket(i - 1))
  <2>4. a \in Nat /\ c \in Nat /\ buckets[i] = a /\ Cardinality({}) = 0
    BY <1>1, <1>2, <2>2, FS_EmptySet
  <2>5. Cardinality(UpToBucket(i)) = a + c - Cardinality({})
    BY <2>3
  <2> HIDE DEF a, c
  <2>6. Cardinality(UpToBucket(i)) = buckets[i] + c
    BY <2>4, <2>5
  <2> QED BY <1>5, <2>6 DEF c
<1> QED BY <1>4, <1>5

(* The cumulative sum of percentile counts the samples up to a bucket.     *)
LEMMA CumCounts ==
  ASSUME WindowInv
  PROVE  \A i \in Buckets : cum[i] = Cardinality(UpToBucket(i))
<1> DEFINE g == [i \in Buckets |-> Cardinality(UpToBucket(i))]
<1>0. \A i \in Buckets : i \in Nat /\ (i # 0 => i - 1 \in Buckets)
  BY BucketsAreNats
<1>1. \E f : f = [i \in Buckets |-> buckets[i] + (IF i = 0 THEN 0 ELSE f[i - 1])]
  <2>1. \A i \in Buckets : g[i] = buckets[i] + (IF i = 0 THEN 0 ELSE g[i - 1])
    BY <1>0, BucketStep
  <2>2. g = [i \in Buckets |-> g[i]]
    OBVIOUS
  <2> HIDE DEF g
  <2>3. g = [i \in Buckets |-> buckets[i] + (IF i = 0 THEN 0 ELSE g[i - 1])]
    BY <2>1, <2>2
  <2> QED BY <2>3
<1>2. cum = [i \in Buckets |-> buckets[i] + (IF i = 0 THEN 0 ELSE cum[i - 1])]
  BY <1>1 DEF cum
<1>3. \A i \in Buckets : cum[i] = buckets[i] + (IF i = 0 THEN 0 ELSE cum[i - 1])
  BY <1>2
<1> DEFINE Not == {i \in Buckets : cum[i] # Cardinality(UpToBucket(i))}
<1> SUFFICES ASSUME Not # {} PROVE FALSE
  OBVIOUS
<1>4. PICK m \in Not : \A k \in Not : m <= k
  <2>1. Not \subseteq Nat
    BY <1>0
  <2> HIDE DEF Not
  <2> QED BY <2>1, Least
<1>5. m # 0 => m - 1 \in Buckets /\ ~(m <= m - 1)
  BY <1>0
<1>6. m # 0 => cum[m - 1] = Cardinality(UpToBucket(m - 1))
  BY <1>4, <1>5
<1>7. cum[m] = Cardinality(UpToBucket(m))
  BY <1>3, <1>6, BucketStep
<1> QED BY <1>7

(* The nearest rank exists: the least number that rank of the recent       *)
(* latencies do not exceed is one of them.                                 *)
IsNearest(v, rank) == Cardinality(UpToLatency(v)) >= rank /\ Cardinality(Below(v)) < rank
Latencies == {recent[i].latency : i \in DOMAIN recent}

(* A rank within the window has a nearest-rank latency.                    *)
LEMMA NearestExists ==
  ASSUME RingInv, NEW rank \in 1..Len(recent)
  PROVE  \E v \in Latencies : IsNearest(v, rank)
<1> DEFINE Reach == {v \in Nat : Cardinality(UpToLatency(v)) >= rank}
<1> USE RecentFacts
<1>0. \A v : Cardinality(UpToLatency(v)) \in Nat /\ Cardinality(Below(v)) \in Nat
  BY DEF UpToLatency, Below
<1>1. Reach # {}
  <2> DEFINE f == [i \in 1..Len(recent) |-> recent[i].latency]
  <2>1. PICK b \in Nat : \A i \in 1..Len(recent) : f[i] <= b
    <3>1. \A i \in 1..Len(recent) : f[i] \in Nat
      OBVIOUS
    <3> HIDE DEF f
    <3> QED BY <3>1, Bounded
  <2>2. UpToLatency(b) = DOMAIN recent
    BY <2>1 DEF UpToLatency
  <2> QED BY <2>2
<1>2. PICK v \in Reach : \A w \in Reach : v <= w
  <2> DEFINE R == Reach
  <2>1. R \subseteq Nat /\ R # {}
    BY <1>1
  <2> HIDE DEF R
  <2>2. \E v \in R : \A w \in R : v <= w
    BY <2>1, Least
  <2> QED BY <2>2 DEF R
<1>3. Cardinality(Below(v)) < rank
  <2>1. CASE v = 0
    <3>1. Below(v) = {}
      BY <2>1 DEF Below
    <3> QED BY <3>1, FS_EmptySet
  <2>2. CASE v # 0
    <3>1. v - 1 \in Nat /\ ~(v <= v - 1)
      BY <2>2
    <3>2. ~(Cardinality(UpToLatency(v - 1)) >= rank)
      BY <1>2, <3>1
    <3>3. Below(v) = UpToLatency(v - 1)
      BY <3>1 DEF Below, UpToLatency
    <3> QED BY <1>0, <3>2, <3>3
  <2> QED BY <2>1, <2>2
<1>4. v \in Latencies
  <2> SUFFICES ASSUME v \notin Latencies PROVE FALSE
    OBVIOUS
  <2>1. UpToLatency(v) = Below(v)
    BY <1>2 DEF UpToLatency, Below, Latencies
  <2> QED BY <1>0, <1>2, <1>3, <2>1
<1> QED BY <1>2, <1>3, <1>4 DEF IsNearest

(* The first bucket to reach the rank is that of the nearest rank: all     *)
(* that is below it is of a smaller latency.                               *)
LEMMA FirstReached ==
  ASSUME WindowInv, NEW rank \in Nat, NEW v \in Latencies, IsNearest(v, rank), NEW i \in Buckets
  PROVE  cum[i] >= rank <=> bucketFor(v) <= i
<1> USE RecentFacts DEF WindowInv
<1>1. v \in Nat /\ bucketFor(v) \in Nat /\ i \in Nat /\ \A j \in DOMAIN recent : recent[j].bucket \in Nat
  BY BucketFacts, BucketsAreNats DEF Latencies
<1>2. cum[i] = Cardinality(UpToBucket(i)) /\ Cardinality(UpToBucket(i)) \in Nat /\ IsFiniteSet(UpToBucket(i))
  BY CumCounts DEF UpToBucket
<1>3. CASE bucketFor(v) <= i
  <2>1. UpToLatency(v) \subseteq UpToBucket(i)
    <3> SUFFICES ASSUME NEW j \in DOMAIN recent, recent[j].latency <= v PROVE recent[j].bucket <= i
      BY DEF UpToLatency, UpToBucket
    <3>1. bucketFor(recent[j].latency) <= bucketFor(v)
      BY <1>1, BucketGrows
    <3> QED BY <1>1, <1>3, <3>1
  <2>2. Cardinality(UpToLatency(v)) <= Cardinality(UpToBucket(i)) /\ Cardinality(UpToLatency(v)) \in Nat
    BY <1>2, <2>1, FS_Subset DEF UpToLatency
  <2> QED BY <1>2, <1>3, <2>2 DEF IsNearest
<1>4. CASE ~(bucketFor(v) <= i)
  <2>1. UpToBucket(i) \subseteq Below(v)
    <3> SUFFICES ASSUME NEW j \in DOMAIN recent, recent[j].bucket <= i, ~(recent[j].latency < v) PROVE FALSE
      BY DEF Below, UpToBucket
    <3>1. bucketFor(v) <= bucketFor(recent[j].latency)
      BY <1>1, BucketGrows
    <3> QED BY <1>1, <1>4, <3>1
  <2>2. IsFiniteSet(Below(v)) /\ Cardinality(Below(v)) \in Nat
    BY DEF Below
  <2>3. Cardinality(UpToBucket(i)) <= Cardinality(Below(v))
    BY <2>1, <2>2, FS_Subset
  <2> QED BY <1>2, <1>4, <2>2, <2>3 DEF IsNearest
<1> QED BY <1>3, <1>4

(* What percentile returns is the value of the bucket of the nearest rank, *)
(* for every percentage.                                                   *)
LEMMA PercentileIsNearest ==
  ASSUME WindowInv, recent # <<>>, NEW p \in 1..100
  PROVE  percentile(p) = bucketUpperBound(bucketFor(NearestRank(p)))
<1> DEFINE rank == (p * Len(recent) + 99) \div 100
           v == NearestRank(p)
           b == bucketFor(v)
           reached == {i \in Buckets : cum[i] >= Target(p)}
<1> USE RecentFacts DEF WindowInv
<1>1. Len(recent) \in Nat \ {0} /\ total = Len(recent) /\ Target(p) = rank
  BY DEF SumsInv, Target
<1>2. rank \in 1..Len(recent)
  <2>1. ASSUME NEW n \in Nat \ {0}
        PROVE  (p * n + 99) \div 100 \in 1..n
    <3>1. p * n >= n /\ p * n <= 100 * n /\ p * n \in Nat
      OBVIOUS
    <3>2. ASSUME NEW m \in Nat, m >= n, m <= 100 * n
          PROVE  (m + 99) \div 100 \in 1..n
      BY <3>2
    <3> QED BY <3>1, <3>2
  <2> QED BY <1>1, <2>1
<1> HIDE DEF rank
<1>3. v \in Latencies /\ IsNearest(v, rank)
  <2>1. NearestRank(p) = CHOOSE w \in Latencies : IsNearest(w, rank)
    BY DEF NearestRank, Count, Latencies, IsNearest, UpToLatency, Below, rank
  <2> QED BY <1>2, <2>1, NearestExists
<1> HIDE DEF v
<1>4. v \in Nat /\ b \in Buckets /\ b \in Nat
  BY <1>3, BucketFacts DEF Latencies
<1>5. reached = {i \in Buckets : b <= i}
  BY <1>1, <1>2, <1>3, FirstReached
<1> HIDE DEF b
<1>6. b \in reached /\ \A j \in reached : b <= j
  BY <1>4, <1>5
<1>7. \A i \in reached : (\A j \in reached : i <= j) => i = b
  BY <1>4, <1>5 DEF Buckets
<1>8. percentile(p) = bucketUpperBound(CHOOSE i \in reached : \A j \in reached : i <= j)
  BY <1>1, <1>6 DEF percentile
<1> HIDE DEF reached
<1>9. percentile(p) = bucketUpperBound(b)
  BY <1>6, <1>7, <1>8
<1> QED BY <1>9 DEF v, b

-----------------------------------------------------------------------------
(* The adjustment loop.                                                    *)

(* A timer was last stamped no longer ago than any of its branches fired:  *)
(* every branch that shrinks stamps its timer, whatever else the timer     *)
(* counts.                                                                 *)
AgesInv ==
  /\ last \in [Timers -> Nat] /\ fired \in [Shrinks -> Nat]
  /\ \A x \in Shrinks : last[TimerOf(x)] <= fired[x]

LoopInv == WindowInv /\ AgesInv /\ limit \in Nat \ {0}

(* The least of two integers.                                              *)
LEMMA MinOfTwo ==
  ASSUME NEW a \in Int, NEW b \in Int
  PROVE  Min({a, b}) = IF a <= b THEN a ELSE b
<1> DEFINE m == IF a <= b THEN a ELSE b
<1>1. m \in {a, b} /\ \A y \in {a, b} : m <= y
  OBVIOUS
<1>2. \A n \in {a, b} : (\A y \in {a, b} : n <= y) => n = m
  OBVIOUS
<1> HIDE DEF m
<1>3. Min({a, b}) = m
  BY <1>1, <1>2 DEF Min
<1> QED BY <1>3 DEF m

(* Every branch that shrinks has a timer, every timer a cooldown.          *)
LEMMA TimerFacts ==
  /\ \A x \in Shrinks : TimerOf(x) \in Timers
  /\ \A t \in Timers : Cooldown(t) \in Nat \ {0}
  /\ \A gap \in TickGaps : gap \in Nat \ {0}
BY AdjustAssumption
   DEF Shrinks, Timers, TimerOf, Cooldown, timeoutShrinkCooldown, errorShrinkCooldown, p95ShrinkCooldown

(* The loop starts with an empty window and its timers long expired.       *)
LEMMA InitLoopInv == Init => LoopInv
<1> SUFFICES ASSUME Init PROVE LoopInv
  OBVIOUS
<1>1. AgesInv
  BY TimerFacts DEF Init, AgesInv
<1>2. limit \in Nat \ {0}
  BY AdjustAssumption DEF Init
<1> QED BY <1>1, <1>2, InitWindowInv DEF Init, LoopInv

(* What a tick makes of the timers and of the history: a branch that fires *)
(* has waited for its timer.                                               *)
LEMMA TickFacts ==
  ASSUME AgesInv, NEW gap \in TickGaps, adjust(gap)
  PROVE  /\ AgesInv'
         /\ \A x \in Shrinks : limit' # limit /\ fired'[x] = 0 =>
              last[TimerOf(x)] + gap >= Cooldown(TimerOf(x))
<1> DEFINE ages == Aged(last, gap, Cooldown)
           b == BranchTaken(ages)
<1> USE TimerFacts
<1>1. ages = [t \in Timers |-> IF last[t] + gap <= Cooldown(t) THEN last[t] + gap ELSE Cooldown(t)]
  <2>1. \A t \in Timers : last[t] + gap \in Int /\ Cooldown(t) \in Int
    BY DEF AgesInv
  <2>2. \A t \in Timers : Min({last[t] + gap, Cooldown(t)})
                            = IF last[t] + gap <= Cooldown(t) THEN last[t] + gap ELSE Cooldown(t)
    BY <2>1, MinOfTwo
  <2>3. ages = [t \in Timers |-> Min({last[t] + gap, Cooldown(t)})]
    BY DEF Aged, AgesInv
  <2> QED BY <2>2, <2>3
<1>2. \A x \in Shrinks : LET c == Cooldown(TimerOf(x)) IN
        Min({fired[x] + gap, c}) = IF fired[x] + gap <= c THEN fired[x] + gap ELSE c
  BY MinOfTwo DEF AgesInv
<1>3. b \in Shrinks => ages[TimerOf(b)] >= Cooldown(TimerOf(b))
  BY DEF BranchTaken, Shrinks
<1> HIDE DEF ages, b
<1>4. ages \in [Timers -> Nat] /\ \A x \in Shrinks : ages[TimerOf(x)] <= Min({fired[x] + gap, Cooldown(TimerOf(x))})
  BY <1>1, <1>2 DEF AgesInv
<1>5. \A x \in Shrinks : Min({fired[x] + gap, Cooldown(TimerOf(x))}) \in Nat \ {0}
  BY <1>2 DEF AgesInv
<1>6. CASE total = 0
  <2>1. last' = ages /\ fired' = [x \in Shrinks |-> Min({fired[x] + gap, Cooldown(TimerOf(x))})]
        /\ limit' = limit
    BY <1>6 DEF adjust, Aged, ages, AgesInv
  <2> QED BY <1>4, <1>5, <2>1 DEF AgesInv
<1>7. CASE total # 0
  <2>1. last' = Stamp(ages, b)
        /\ fired' = [x \in Shrinks |-> IF x = b THEN 0 ELSE Min({fired[x] + gap, Cooldown(TimerOf(x))})]
    BY <1>7 DEF adjust, ages, b
  <2>2. last' \in [Timers -> Nat] /\ \A t \in Timers : last'[t] <= ages[t]
                                 /\ (b \in Shrinks /\ t = TimerOf(b) => last'[t] = 0)
    BY <1>4, <2>1 DEF Stamp
  <2>3. fired' \in [Shrinks -> Nat]
    BY <1>5, <2>1
  <2>4. \A x \in Shrinks : last'[TimerOf(x)] <= fired'[x]
    <3> SUFFICES ASSUME NEW x \in Shrinks PROVE last'[TimerOf(x)] <= fired'[x]
      OBVIOUS
    <3>1. CASE x = b
      BY <2>1, <2>2, <3>1
    <3>2. CASE x # b
      <4>1. fired'[x] = Min({fired[x] + gap, Cooldown(TimerOf(x))})
        BY <2>1, <3>2
      <4>2. last'[TimerOf(x)] <= ages[TimerOf(x)] /\ ages[TimerOf(x)] \in Nat /\ last'[TimerOf(x)] \in Nat
        BY <1>4, <2>2
      <4> QED BY <1>4, <1>5, <4>1, <4>2
    <3> QED BY <3>1, <3>2
  <2>5. ASSUME NEW x \in Shrinks, fired'[x] = 0
        PROVE  last[TimerOf(x)] + gap >= Cooldown(TimerOf(x))
    <3>1. x = b
      BY <1>5, <2>1, <2>5
    <3>2. ages[TimerOf(x)] >= Cooldown(TimerOf(x))
      BY <1>3, <3>1
    <3> QED BY <1>1, <3>2 DEF AgesInv
  <2> QED BY <2>2, <2>3, <2>4, <2>5 DEF AgesInv
<1> QED BY <1>6, <1>7

(* What the arithmetic of a shrink promises (capacity.go: shrink): it does *)
(* not go below 1, it does not grow the limit, and above 3 it lowers it,   *)
(* whichever multiplier it has and whichever way a tie is rounded.         *)
LEMMA ShrinkFacts ==
  ASSUME NEW l \in Nat \ {0}, NEW m \in {60, 75, 70, 85}
  PROVE  /\ shrink(l, m) \in Nat \ {0}
         /\ shrink(l, m) <= l
         /\ l > 3 => shrink(l, m) < l
<1>1. m = 60 => Round(l, m) \in Nat /\ Round(l, m) <= l /\ (l > 3 => Round(l, m) < l)
  BY DEF Round, p95HardShrinkMultiplier
<1>2. m = 75 => Round(l, m) \in Nat /\ Round(l, m) <= l /\ (l > 3 => Round(l, m) < l)
  BY DEF Round, p95HardShrinkMultiplier
<1>3. m = 70 => Round(l, m) \in Nat /\ Round(l, m) <= l /\ (l > 3 => Round(l, m) < l)
  BY DEF Round, p95HardShrinkMultiplier
<1>4. m = 85 => Round(l, m) \in Nat /\ Round(l, m) <= l /\ (l > 3 => Round(l, m) < l)
  BY DEF Round, p95HardShrinkMultiplier
<1>5. Round(l, m) \in Nat /\ Round(l, m) <= l /\ (l > 3 => Round(l, m) < l)
  BY <1>1, <1>2, <1>3, <1>4
<1> QED BY <1>5 DEF shrink

(* A grow raises any limit, also one at which rounding alone would not.    *)
LEMMA GrowFacts ==
  ASSUME NEW l \in Nat \ {0}
  PROVE  grow(l, growMultiplier) \in Nat \ {0} /\ grow(l, growMultiplier) > l
<1>1. Round(l, growMultiplier) \in Nat
  BY DEF Round, growMultiplier, p95HardShrinkMultiplier
<1> QED BY <1>1 DEF grow

(* Clamping keeps the direction of a move, or puts the limit on a bound:   *)
(* the lower one unless it grows, the upper one unless it shrinks; and it  *)
(* yields no more than the upper bound, or the lower one if that is above. *)
LEMMA ClampFacts ==
  ASSUME NEW v \in Nat \ {0}, NEW l \in Nat \ {0}
  PROVE  LET c == clampInt(v, MinConcurrency, MaxConcurrency)
         IN  /\ c \in Nat \ {0}
             /\ v < l => c < l \/ c = MinConcurrency
             /\ v = l => c <= l \/ c = MinConcurrency
             /\ v > l => c > l \/ c = MaxConcurrency
             /\ MinConcurrency <= MaxConcurrency => c \in MinConcurrency..MaxConcurrency
BY AdjustAssumption DEF clampInt

(* The branch a tick takes is the first of the alarms that waited, grow on *)
(* fast traffic without one, and none without either.                      *)
LEMMA BranchFacts ==
  ASSUME AgesInv, NEW gap \in TickGaps
  PROVE  LET b == BranchTaken(Aged(last, gap, Cooldown))
         IN  /\ b \in Branches
             /\ (\E x \in Shrinks : Due(x, gap)) => b \in Shrinks
             /\ (~\E x \in Shrinks : Due(x, gap)) => b = IF Fast THEN "grow" ELSE "none"
<1> DEFINE ages == Aged(last, gap, Cooldown)
           b == BranchTaken(ages)
<1>1. \A t \in Timers : ages[t] >= Cooldown(t) <=> last[t] + gap >= Cooldown(t)
  <2> SUFFICES ASSUME NEW t \in Timers
               PROVE  ages[t] >= Cooldown(t) <=> last[t] + gap >= Cooldown(t)
    OBVIOUS
  <2>1. last[t] + gap \in Int /\ Cooldown(t) \in Int
    BY TimerFacts DEF AgesInv
  <2>2. ages[t] = Min({last[t] + gap, Cooldown(t)})
    BY DEF Aged, AgesInv
  <2> QED BY <2>1, <2>2, MinOfTwo
<1> HIDE DEF ages
<1>2. \A x \in Shrinks : Due(x, gap) <=> Alarm(x) /\ ages[TimerOf(x)] >= Cooldown(TimerOf(x))
  BY <1>1, TimerFacts DEF Due
<1>3. Shrinks = {"timeout", "error", "p95Hard", "p95Soft"}
  BY DEF Shrinks
<1>4. b \in Branches
  BY DEF BranchTaken, Branches
<1>5. (\E x \in Shrinks : Due(x, gap)) => b \in Shrinks
  BY <1>2, <1>3 DEF BranchTaken
<1>6. (~\E x \in Shrinks : Due(x, gap)) => b = IF Fast THEN "grow" ELSE "none"
  BY <1>2, <1>3 DEF BranchTaken
<1> QED BY <1>4, <1>5, <1>6 DEF ages

(* What a branch makes of the limit before it is clamped.                  *)
LEMMA BranchMoves ==
  ASSUME NEW l \in Nat \ {0}, NEW b \in Branches
  PROVE  /\ Branch(b, l) \in Nat \ {0}
         /\ b \in Shrinks => Branch(b, l) <= l /\ (l > 3 => Branch(b, l) < l)
         /\ b = "grow" => Branch(b, l) > l
         /\ b = "none" => Branch(b, l) = l
<1>1. CASE b = "timeout"
  <2>1. Branch(b, l) = shrink(l, 60)
    BY <1>1 DEF Branch, timeoutShrinkMultiplier
  <2> QED BY <1>1, <2>1, ShrinkFacts
<1>2. CASE b = "error"
  <2>1. Branch(b, l) = shrink(l, 75)
    BY <1>2 DEF Branch, errorShrinkMultiplier
  <2> QED BY <1>2, <2>1, ShrinkFacts
<1>3. CASE b = "p95Hard"
  <2>1. Branch(b, l) = shrink(l, 70)
    BY <1>3 DEF Branch, p95HardShrinkMultiplier
  <2> QED BY <1>3, <2>1, ShrinkFacts
<1>4. CASE b = "p95Soft"
  <2>1. Branch(b, l) = shrink(l, 85)
    BY <1>4 DEF Branch, p95SoftShrinkMultiplier
  <2> QED BY <1>4, <2>1, ShrinkFacts
<1>5. CASE b = "grow"
  BY <1>5, GrowFacts DEF Branch, Shrinks
<1>6. CASE b = "none"
  BY <1>6 DEF Branch, Shrinks
<1> QED BY <1>1, <1>2, <1>3, <1>4, <1>5, <1>6 DEF Branches

(* What a tick makes of the limit.                                         *)
LEMMA LimitMoves ==
  ASSUME AgesInv, limit \in Nat \ {0}, NEW gap \in TickGaps, adjust(gap), total # 0
  PROVE  LET alarm == \E b \in Shrinks : Due(b, gap)
         IN  /\ limit' \in Nat \ {0}
             /\ MinConcurrency <= MaxConcurrency => limit' \in MinConcurrency..MaxConcurrency
             /\ alarm => \/ limit' < limit \/ limit' = MinConcurrency
                         \/ limit' = limit /\ limit <= 3
             /\ ~alarm /\ Fast => limit' > limit \/ limit' = MaxConcurrency
             /\ ~alarm /\ ~Fast => limit' = clampInt(limit, MinConcurrency, MaxConcurrency)
<1> DEFINE b == BranchTaken(Aged(last, gap, Cooldown))
           v == Branch(b, limit)
           alarm == \E x \in Shrinks : Due(x, gap)
<1>1. limit' = clampInt(v, MinConcurrency, MaxConcurrency)
  BY DEF adjust
<1>2. b \in Branches /\ (alarm => b \in Shrinks) /\ (~alarm => b = IF Fast THEN "grow" ELSE "none")
  BY BranchFacts
<1> HIDE DEF b, alarm
<1>3. /\ v \in Nat \ {0}
      /\ alarm => v <= limit /\ (limit > 3 => v < limit)
      /\ ~alarm /\ Fast => v > limit
      /\ ~alarm /\ ~Fast => v = limit
  BY <1>2, BranchMoves
<1> HIDE DEF v
<1>4. /\ limit' \in Nat \ {0}
      /\ MinConcurrency <= MaxConcurrency => limit' \in MinConcurrency..MaxConcurrency
      /\ v < limit => limit' < limit \/ limit' = MinConcurrency
      /\ v = limit => limit' <= limit \/ limit' = MinConcurrency
      /\ v > limit => limit' > limit \/ limit' = MaxConcurrency
  BY <1>1, <1>3, ClampFacts
<1>5. alarm => limit' < limit \/ limit' = MinConcurrency \/ (limit' = limit /\ limit <= 3)
  BY <1>3, <1>4
<1> QED BY <1>1, <1>3, <1>4, <1>5 DEF alarm

(* With or without outcomes in the window, a tick leaves a limit.          *)
LEMMA LimitKept ==
  ASSUME AgesInv, limit \in Nat \ {0}, NEW gap \in TickGaps, adjust(gap)
  PROVE  limit' \in Nat \ {0}
<1>1. total = 0 => limit' = limit
  BY DEF adjust
<1> QED BY <1>1, LimitMoves

(* Release and adjust keep the invariant.                                  *)
LEMMA NextLoopInv == LoopInv /\ [Next]_vars => LoopInv'
<1> SUFFICES ASSUME LoopInv, [Next]_vars PROVE LoopInv'
  OBVIOUS
<1>1. UNCHANGED windowVars => WindowInv'
  <2>1. UNCHANGED windowVars => RingInv' = RingInv
    BY DEF RingInv, Slot, windowVars
  <2>2. UNCHANGED windowVars => SumsInv' = SumsInv
    BY DEF SumsInv, windowVars
  <2> QED BY <2>1, <2>2 DEF LoopInv, WindowInv
<1>2. UNCHANGED <<last, fired>> => AgesInv'
  BY DEF LoopInv, AgesInv
<1>3. ASSUME NEW o \in Outcomes, Release(o) PROVE LoopInv'
  BY <1>2, <1>3, RecordKeeps DEF Release, LoopInv
<1>4. ASSUME NEW gap \in TickGaps, adjust(gap) PROVE LoopInv'
  <2>1. UNCHANGED windowVars
    BY <1>4 DEF adjust
  <2> QED BY <1>1, <1>4, <2>1, TickFacts, LimitKept DEF LoopInv
<1> QED BY <1>1, <1>2, <1>3, <1>4 DEF Next, vars, LoopInv

(* The window stands for the recent outcomes and the timers for the past   *)
(* shrinks, in every state the loop of capacity.go reaches.                *)
THEOREM Invariance == Spec => []LoopInv
BY InitLoopInv, NextLoopInv, PTL DEF Spec

(* After any history of record calls the sums kept beside the ring are     *)
(* those of the outcomes still in it: nothing drifts, whatever was         *)
(* evicted.                                                                *)
THEOREM WindowIsExact == Spec => []SumsMatchRecent
<1>1. LoopInv => SumsMatchRecent
  BY SumsAreRight DEF LoopInv
<1> QED BY <1>1, Invariance, PTL

(* What adjust reads as the p95 is the program's value for the bucket of   *)
(* the nearest-rank sample, for every list of bucket starts and whichever  *)
(* edges round down: the search over the cumulative sums never stops a     *)
(* bucket early or late (capacity.go: bucketFor, percentile).              *)
THEOREM PercentileIsRight == Spec => []PercentileNearestRank
<1>1. LoopInv => PercentileNearestRank
  <2> SUFFICES ASSUME WindowInv, recent # <<>>, NEW p \in {1, 50, 67, 95, 100}
               PROVE  percentile(p) = bucketUpperBound(bucketFor(NearestRank(p)))
    BY DEF LoopInv, PercentileNearestRank
  <2>1. p \in 1..100
    OBVIOUS
  <2> QED BY <2>1, PercentileIsNearest
<1> QED BY <1>1, Invariance, PTL

(* A tick of adjust that shrinks the limit comes no sooner than the        *)
(* cooldown of its timer after the last shrink of any branch of that       *)
(* timer, the soft p95 branch being held off by the hard one.              *)
THEOREM CooldownsKept == Spec => CooldownsHeld
<1> DEFINE Waited == \A b, x \in Shrinks :
             (limit' < limit /\ fired'[b] = 0 /\ TimerOf(x) = TimerOf(b)) =>
               \E gap \in TickGaps : fired[x] + gap >= Cooldown(TimerOf(b))
<1>1. LoopInv /\ [Next]_vars => [Waited]_vars
  <2> SUFFICES ASSUME LoopInv, Next, NEW b \in Shrinks, NEW x \in Shrinks,
                      limit' < limit, fired'[b] = 0, TimerOf(x) = TimerOf(b)
               PROVE  \E gap \in TickGaps : fired[x] + gap >= Cooldown(TimerOf(b))
    BY DEF vars
  <2>1. limit' # limit
    BY DEF LoopInv
  <2>2. PICK gap \in TickGaps : adjust(gap)
    BY <2>1 DEF Next, Release
  <2>3. last[TimerOf(b)] + gap >= Cooldown(TimerOf(b))
    BY <2>1, <2>2, TickFacts DEF LoopInv
  <2>4. last[TimerOf(b)] <= fired[x] /\ last[TimerOf(b)] \in Nat /\ fired[x] \in Nat
        /\ Cooldown(TimerOf(b)) \in Nat /\ gap \in Nat
    BY TimerFacts DEF LoopInv, AgesInv
  <2> QED BY <2>3, <2>4
<1> QED BY <1>1, Invariance, PTL DEF CooldownsHeld, Spec

(* A tick of adjust lowers the limit while any alarm has waited out its    *)
(* cooldown, raises it on fast traffic without one, and otherwise leaves   *)
(* it, whatever the limit and whichever way rounding goes; the bounds come *)
(* first.                                                                  *)
THEOREM TrafficMovesLimit == Spec => LimitFollowsTraffic
<1>1. LoopInv =>
        [\A gap \in TickGaps : adjust(gap) /\ total # 0 =>
           LET alarm == \E b \in Shrinks : Due(b, gap)
           IN  /\ alarm => \/ limit' < limit \/ limit' = MinConcurrency
                           \/ limit' = limit /\ limit <= 3
               /\ ~alarm /\ Fast => limit' > limit \/ limit' = MaxConcurrency
               /\ ~alarm /\ ~Fast => limit' = clampInt(limit, MinConcurrency, MaxConcurrency)]_vars
  BY LimitMoves DEF LoopInv
<1> QED BY <1>1, Invariance, PTL DEF LimitFollowsTraffic

=============================================================================
