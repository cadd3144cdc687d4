-------------------------- MODULE ConfigLoadProofs --------------------------
(* Proofs about ConfigLoad, for every number of loads, every configuration *)
(* of every load, and whatever is found under a pool key.                  *)
EXTENDS ConfigLoad, FiniteSetTheorems, NaturalsInduction, WellFoundedInduction, TLAPS

(* One load at a time: what is kept of it, and what it holds.              *)
IsPool(p) ==
    /\ p = [k \in DOMAIN p |-> p[k]]
    /\ \A k \in DOMAIN p : "refs" \in DOMAIN p[k] /\ p[k].refs \in Nat \ {0}
Refs(p, k) == IF k \in DOMAIN p THEN p[k].refs ELSE 0

RunningIn(st) == {i \in DOMAIN st : st[i] = "running"}
UsesIn(bl, R, k) ==
    {u \in R \X Settings : LET s == bl[u[1]][u[2]] IN s # None /\ Key[s] = k}

(* Handlers are provisioned in order.                                      *)
StateOK(st) ==
    /\ st = [i \in DOMAIN st |-> st[i]] /\ \E n \in Nat : DOMAIN st = 1..n
    /\ \A i, j \in DOMAIN st : st[i] = "new" /\ i < j => st[j] = "new"

(* A load that has not failed holds one reference for every use by a       *)
(* handler that runs, one that has failed holds no more than that.         *)
PoolOK(ld, st, p) ==
    /\ IsPool(p)
    /\ \A k : LET n == Cardinality(UsesIn(ld.blocks, RunningIn(st), k)) IN
         Refs(p, k) <= n /\ (ld.phase \notin {"failed", "refused"} => Refs(p, k) = n)

(* Of the handlers of one label the last one provisioned is registered,    *)
(* until it is cleaned up.                                                 *)
LastOf(bl, st) ==
    {i \in RunningIn(st) : \A j \in DOMAIN st :
       bl[j].label = bl[i].label /\ st[j] \in {"running", "cleaned"} => j <= i}
RegistryOK(bl, st, h) ==
    /\ h = [x \in DOMAIN h |-> h[x]]
    /\ \A x \in DOMAIN h : h[x] \in LastOf(bl, st) /\ bl[h[x]].label = x
    /\ \A i \in LastOf(bl, st) : bl[i].label \in DOMAIN h /\ h[bl[i].label] = i

LoadOK(ld, st, p, sc, h) ==
    /\ DOMAIN ld = {"blocks", "phase"} /\ ld = [x \in DOMAIN ld |-> ld[x]]
    /\ StateOK(st) /\ PoolOK(ld, st, p) /\ RegistryOK(ld.blocks, st, h)
    /\ sc = RunningIn(st)
    /\ ld.phase \in {"none", "refused"} => RunningIn(st) = {}

PerLoad(f) == f = [l \in Loads |-> f[l]]

LoadInv ==
    /\ PerLoad(load) /\ PerLoad(state) /\ PerLoad(pool) /\ PerLoad(scoring) /\ PerLoad(handlers)
    /\ \A l \in Loads : LoadOK(load[l], state[l], pool[l], scoring[l], handlers[l])
-----------------------------------------------------------------------------
(* A pool.                                                                 *)

One(s, k) == IF s # None /\ Key[s] = k THEN 1 ELSE 0
Count(b, k) == One(b.city, k) + One(b.asn, k) + One(b.jwks, k)
Less(n, m) == IF n >= m THEN n - m ELSE 0

(* What is in a pool has references.                                       *)
LEMMA RefsFacts ==
    ASSUME NEW p, IsPool(p), NEW k
    PROVE  Refs(p, k) \in Nat /\ (Refs(p, k) > 0 <=> k \in DOMAIN p)
BY DEF Refs, IsPool

(* A setting uses a key once or not at all.                                *)
LEMMA CountFacts ==
    ASSUME NEW b, NEW k
    PROVE  /\ One(b.city, k) \in {0, 1} /\ One(b.asn, k) \in {0, 1} /\ One(b.jwks, k) \in {0, 1}
           /\ Count(b, k) \in Nat
BY DEF One, Count

(* A use of a key adds one reference, whatever is found.                   *)
LEMMA UseFacts ==
    ASSUME NEW p, IsPool(p), NEW s, NEW found
    PROVE  /\ IsPool(Use(p, s, found))
           /\ \A k : Refs(Use(p, s, found), k) = Refs(p, k) + One(s, k)
<1>1. CASE s = None
  BY <1>1, RefsFacts DEF Use, One
<1>2. CASE s # None
  <2> DEFINE key == Key[s]
             e == [refs |-> 1, found |-> found[Key[s]]]
             q == LoadOrNew(p, key, e.found)
  <2>1. Use(p, s, found) = q
    BY <1>2 DEF Use
  <2> HIDE DEF key, q
  <2>2. CASE key \in DOMAIN p
    <3>1. q = [p EXCEPT ![key] = [p[key] EXCEPT !.refs = p[key].refs + 1]]
      BY <2>2 DEF q, LoadOrNew
    <3>2. DOMAIN q = DOMAIN p /\ q = [k \in DOMAIN q |-> q[k]]
      BY <3>1 DEF IsPool
    <3>3. q[key] = [p[key] EXCEPT !.refs = p[key].refs + 1] /\ \A k \in DOMAIN p \ {key} : q[k] = p[k]
      BY <3>1, <2>2 DEF IsPool
    <3>4. "refs" \in DOMAIN q[key] /\ q[key].refs = p[key].refs + 1 /\ q[key].refs \in Nat \ {0}
      BY <3>3, <2>2 DEF IsPool
    <3>5. IsPool(q)
      BY <3>2, <3>3, <3>4 DEF IsPool
    <3>6. \A k : Refs(q, k) = Refs(p, k) + One(s, k)
      BY <1>2, <2>2, <3>2, <3>3, <3>4 DEF Refs, One, IsPool, key
    <3> QED BY <2>1, <3>5, <3>6
  <2>3. CASE key \notin DOMAIN p
    <3>1. q = [k \in DOMAIN p \cup {key} |-> IF k = key THEN e ELSE p[k]]
      BY <2>3 DEF q, LoadOrNew, Put
    <3>2. IsPool(q)
      BY <3>1 DEF IsPool
    <3>3. \A k : Refs(q, k) = Refs(p, k) + One(s, k)
      BY <1>2, <2>3, <3>1 DEF Refs, One, IsPool, key
    <3> QED BY <2>1, <3>2, <3>3
  <2> QED BY <2>2, <2>3
<1> QED BY <1>1, <1>2

(* Every use of a block adds one.                                          *)
LEMMA AcquireFacts ==
    ASSUME NEW p, IsPool(p), NEW b, NEW found
    PROVE  /\ IsPool(acquire(p, b, found))
           /\ \A k : Refs(acquire(p, b, found), k) = Refs(p, k) + Count(b, k)
<1> DEFINE p1 == Use(p, b.city, found)
           p2 == Use(p1, b.asn, found)
           p3 == Use(p2, b.jwks, found)
<1>1. IsPool(p1) /\ \A k : Refs(p1, k) = Refs(p, k) + One(b.city, k)
  BY UseFacts
<1> HIDE DEF p1
<1>2. IsPool(p2) /\ \A k : Refs(p2, k) = Refs(p1, k) + One(b.asn, k)
  BY <1>1, UseFacts
<1> HIDE DEF p2
<1>3. IsPool(p3) /\ \A k : Refs(p3, k) = Refs(p2, k) + One(b.jwks, k)
  BY <1>2, UseFacts
<1> HIDE DEF p3
<1>4. acquire(p, b, found) = p3
  BY DEF acquire, p1, p2, p3
<1>5. \A k : Refs(p3, k) = Refs(p, k) + Count(b, k)
  <2> SUFFICES ASSUME NEW k PROVE Refs(p3, k) = Refs(p, k) + Count(b, k)
    OBVIOUS
  <2>1. Refs(p, k) \in Nat
    BY RefsFacts
  <2> QED BY <1>1, <1>2, <1>3, <2>1, CountFacts DEF Count
<1> QED BY <1>3, <1>4, <1>5

(* A release takes one reference, if there is one.                         *)
LEMMA ReleaseFacts ==
    ASSUME NEW p, IsPool(p), NEW s
    PROVE  /\ IsPool(Release(p, s))
           /\ \A k : Refs(Release(p, s), k) = Less(Refs(p, k), One(s, k))
<1>1. CASE s = None
  BY <1>1, RefsFacts DEF Release, One, Less
<1>2. CASE s # None
  <2> DEFINE key == Key[s]
             q == Delete(p, key)
  <2>1. Release(p, s) = q
    BY <1>2 DEF Release
  <2>2. \A k : One(s, k) = IF k = key THEN 1 ELSE 0
    BY <1>2 DEF One
  <2> HIDE DEF key, q
  <2>3. CASE key \notin DOMAIN p
    <3>1. q = p
      BY <2>3 DEF q, Delete
    <3> QED BY <2>1, <2>2, <2>3, <3>1, RefsFacts DEF Refs, Less
  <2>4. CASE key \in DOMAIN p /\ p[key].refs = 1
    <3>1. q = [k \in DOMAIN p \ {key} |-> p[k]]
      BY <2>4 DEF q, Delete, Drop, Restrict
    <3>2. IsPool(q)
      BY <3>1 DEF IsPool
    <3>3. \A k : Refs(q, k) = Less(Refs(p, k), One(s, k))
      BY <2>2, <2>4, <3>1, RefsFacts DEF Refs, Less, IsPool
    <3> QED BY <2>1, <3>2, <3>3
  <2>5. CASE key \in DOMAIN p /\ p[key].refs # 1
    <3>1. q = [p EXCEPT ![key] = [p[key] EXCEPT !.refs = p[key].refs - 1]]
      BY <2>5 DEF q, Delete
    <3>2. DOMAIN q = DOMAIN p /\ q = [k \in DOMAIN q |-> q[k]]
      BY <3>1 DEF IsPool
    <3>3. q[key] = [p[key] EXCEPT !.refs = p[key].refs - 1] /\ \A k \in DOMAIN p \ {key} : q[k] = p[k]
      BY <3>1, <2>5 DEF IsPool
    <3>4. "refs" \in DOMAIN q[key] /\ q[key].refs = p[key].refs - 1 /\ q[key].refs \in Nat \ {0}
      BY <3>3, <2>5 DEF IsPool
    <3>5. IsPool(q)
      BY <3>2, <3>3, <3>4 DEF IsPool
    <3>6. \A k : Refs(q, k) = Less(Refs(p, k), One(s, k))
      BY <2>2, <2>5, <3>2, <3>3, <3>4 DEF Refs, Less, IsPool
    <3> QED BY <2>1, <3>5, <3>6
  <2> QED BY <2>3, <2>4, <2>5
<1> QED BY <1>1, <1>2

(* Every use of a block takes one reference back, if there is one.         *)
LEMMA ReleaseAcquiredFacts ==
    ASSUME NEW p, IsPool(p), NEW b
    PROVE  /\ IsPool(releaseAcquired(p, b))
           /\ \A k : Refs(releaseAcquired(p, b), k) = Less(Refs(p, k), Count(b, k))
<1> DEFINE p1 == Release(p, b.city)
           p2 == Release(p1, b.asn)
           p3 == Release(p2, b.jwks)
<1>1. IsPool(p1) /\ \A k : Refs(p1, k) = Less(Refs(p, k), One(b.city, k))
  BY ReleaseFacts
<1> HIDE DEF p1
<1>2. IsPool(p2) /\ \A k : Refs(p2, k) = Less(Refs(p1, k), One(b.asn, k))
  BY <1>1, ReleaseFacts
<1> HIDE DEF p2
<1>3. IsPool(p3) /\ \A k : Refs(p3, k) = Less(Refs(p2, k), One(b.jwks, k))
  BY <1>2, ReleaseFacts
<1> HIDE DEF p3
<1>4. releaseAcquired(p, b) = p3
  BY DEF releaseAcquired, p1, p2, p3
<1>5. \A k : Refs(p3, k) = Less(Refs(p, k), Count(b, k))
  <2> SUFFICES ASSUME NEW k PROVE Refs(p3, k) = Less(Refs(p, k), Count(b, k))
    OBVIOUS
  <2>1. Refs(p, k) \in Nat
    BY RefsFacts
  <2> QED BY <1>1, <1>2, <1>3, <2>1, CountFacts DEF Count, Less
<1> QED BY <1>3, <1>4, <1>5

(* One more setting of one more handler.                                   *)
LEMMA AddUse ==
    ASSUME NEW U, IsFiniteSet(U), Cardinality(U) \in Nat, NEW s, NEW k, NEW x, x \notin U,
           NEW V, V = IF s # None /\ Key[s] = k THEN U \cup {x} ELSE U
    PROVE  IsFiniteSet(V) /\ Cardinality(V) \in Nat /\ Cardinality(V) = Cardinality(U) + One(s, k)
<1>1. CASE s # None /\ Key[s] = k
  <2>1. V = U \cup {x} /\ One(s, k) = 1
    BY <1>1 DEF One
  <2> QED BY <2>1, FS_AddElement
<1>2. CASE ~(s # None /\ Key[s] = k)
  BY <1>2 DEF One
<1> QED BY <1>1, <1>2

(* Finitely many handlers use a key finitely often.                        *)
LEMMA UsesFinite ==
    ASSUME NEW bl, NEW R, IsFiniteSet(R), NEW k
    PROVE  IsFiniteSet(UsesIn(bl, R, k)) /\ Cardinality(UsesIn(bl, R, k)) \in Nat
<1>1. IsFiniteSet(Settings)
  <2>1. Settings = {"city"} \cup {"asn"} \cup {"jwks"}
    BY DEF Settings
  <2> QED BY <2>1, FS_Singleton, FS_Union
<1>2. IsFiniteSet(R \X Settings)
  BY <1>1, FS_Product
<1> DEFINE U == UsesIn(bl, R, k)
<1>3. U \subseteq R \X Settings
  BY DEF UsesIn
<1> HIDE DEF U
<1>4. IsFiniteSet(U) /\ Cardinality(U) \in Nat
  BY <1>2, <1>3, FS_Subset, FS_CardinalityType
<1> QED BY <1>4 DEF U

(* The uses of a key when one more handler runs.                           *)
LEMMA UsesGrow ==
    ASSUME NEW bl, NEW R, IsFiniteSet(R), NEW i, i \notin R, NEW k
    PROVE  /\ IsFiniteSet(UsesIn(bl, R, k)) /\ Cardinality(UsesIn(bl, R, k)) \in Nat
           /\ Cardinality(UsesIn(bl, R \cup {i}, k)) = Cardinality(UsesIn(bl, R, k)) + Count(bl[i], k)
<1> DEFINE b == bl[i]
           U0 == UsesIn(bl, R, k)
           U1 == IF b.city # None /\ Key[b.city] = k THEN U0 \cup {<<i, "city">>} ELSE U0
           U2 == IF b.asn # None /\ Key[b.asn] = k THEN U1 \cup {<<i, "asn">>} ELSE U1
           U3 == IF b.jwks # None /\ Key[b.jwks] = k THEN U2 \cup {<<i, "jwks">>} ELSE U2
<1>1. IsFiniteSet(U0) /\ Cardinality(U0) \in Nat
  BY UsesFinite
<1>2. \A x : <<i, x>> \notin U0
  BY DEF UsesIn
<1>3. UsesIn(bl, R \cup {i}, k) = U3
  <2> DEFINE New(x) == IF b[x] # None /\ Key[b[x]] = k THEN {<<i, x>>} ELSE {}
  <2>1. UsesIn(bl, R \cup {i}, k)
          = U0 \cup {u \in {i} \X Settings : bl[u[1]][u[2]] # None /\ Key[bl[u[1]][u[2]]] = k}
    BY DEF UsesIn
  <2>2. {u \in {i} \X Settings : bl[u[1]][u[2]] # None /\ Key[bl[u[1]][u[2]]] = k}
          = New("city") \cup New("asn") \cup New("jwks")
    BY DEF Settings
  <2>3. U3 = U0 \cup (New("city") \cup New("asn") \cup New("jwks"))
    OBVIOUS
  <2> QED BY <2>1, <2>2, <2>3
<1>4. <<i, "city">> \notin U0
  BY <1>2
<1> HIDE DEF U0
<1>5. IsFiniteSet(U1) /\ Cardinality(U1) \in Nat /\ Cardinality(U1) = Cardinality(U0) + One(b.city, k)
  <2> DEFINE s == b.city
  <2>1. U1 = IF s # None /\ Key[s] = k THEN U0 \cup {<<i, "city">>} ELSE U0
    OBVIOUS
  <2> HIDE DEF s, U1
  <2>2. IsFiniteSet(U1) /\ Cardinality(U1) \in Nat /\ Cardinality(U1) = Cardinality(U0) + One(s, k)
    BY <1>1, <1>4, <2>1, AddUse
  <2> QED BY <2>2 DEF s
<1>6. <<i, "asn">> \notin U1
  BY <1>2
<1>7. <<i, "jwks">> \notin U1
  BY <1>2
<1> HIDE DEF U1
<1>8. IsFiniteSet(U2) /\ Cardinality(U2) \in Nat /\ Cardinality(U2) = Cardinality(U1) + One(b.asn, k)
  BY <1>5, <1>6, AddUse
<1>10. <<i, "jwks">> \notin U2
  BY <1>7
<1> HIDE DEF U2
<1>11. Cardinality(U3) = Cardinality(U2) + One(b.jwks, k)
  BY <1>8, <1>10, AddUse
<1>9. Cardinality(U3) = Cardinality(U0) + Count(b, k)
  <2> DEFINE n == Cardinality(U0)
  <2>1. n \in Nat
    BY <1>1
  <2> HIDE DEF n, U3, b
  <2> QED BY <1>5, <1>8, <1>11, <2>1, CountFacts DEF Count, n
<1> QED BY <1>1, <1>3, <1>9 DEF U0

-----------------------------------------------------------------------------
(* The handlers of a load and the registry.                                *)

(* Handlers are numbers up to some bound, so those that run are finitely   *)
(* many.                                                                   *)
LEMMA StateFacts ==
    ASSUME NEW st, StateOK(st)
    PROVE  /\ \A i \in DOMAIN st : i \in Nat
           /\ RunningIn(st) \subseteq DOMAIN st /\ IsFiniteSet(RunningIn(st))
<1>1. PICK n \in Nat : DOMAIN st = 1..n
  BY DEF StateOK
<1>2. IsFiniteSet(1..n)
  BY FS_Interval
<1>3. RunningIn(st) \subseteq DOMAIN st
  BY DEF RunningIn
<1> QED BY <1>1, <1>2, <1>3, FS_Subset

(* A handler provisioned after all others is the last of its label.        *)
LEMMA Register ==
    ASSUME NEW bl, NEW st, NEW h, StateOK(st), RegistryOK(bl, st, h),
           NEW i \in DOMAIN st, st[i] = "new", \A j \in 1..(i - 1) : st[j] = "running",
           NEW t, t = [st EXCEPT ![i] = "running"]
    PROVE  /\ StateOK(t) /\ RunningIn(t) = RunningIn(st) \cup {i}
           /\ RegistryOK(bl, t, registerHandler(h, bl[i].label, i))
<1>1. DOMAIN t = DOMAIN st /\ t[i] = "running" /\ \A j \in DOMAIN st \ {i} : t[j] = st[j]
  BY DEF StateOK
<1>2. \A j \in DOMAIN st : j \in Nat
  BY StateFacts
<1>3. \A j \in DOMAIN st : j < i => st[j] = "running"
  <2>1. \A j \in DOMAIN st : j >= 1
    BY DEF StateOK
  <2> QED BY <1>2, <2>1
<1>4. \A j \in DOMAIN st : i < j => st[j] = "new"
  BY DEF StateOK
<1>5. StateOK(t)
  <2>1. t = [j \in DOMAIN t |-> t[j]] /\ \E n \in Nat : DOMAIN t = 1..n
    BY <1>1 DEF StateOK
  <2>2. ASSUME NEW j \in DOMAIN t, NEW k \in DOMAIN t, t[j] = "new", j < k
        PROVE  t[k] = "new"
    <3>1. j # i /\ st[j] = "new" /\ st[k] = "new"
      BY <1>1, <2>2 DEF StateOK
    <3>2. k # i
      BY <1>1, <1>2, <1>3, <2>2, <3>1
    <3> QED BY <1>1, <3>1, <3>2
  <2> QED BY <2>1, <2>2 DEF StateOK
<1>6. RunningIn(t) = RunningIn(st) \cup {i}
  BY <1>1 DEF RunningIn
<1>7. i \in LastOf(bl, t)
  <2>1. ASSUME NEW j \in DOMAIN t, t[j] \in {"running", "cleaned"}
        PROVE  j <= i
    BY <1>1, <1>2, <1>4, <2>1
  <2> QED BY <1>6, <2>1 DEF LastOf
<1>8. \A j \in DOMAIN st : j \in LastOf(bl, t) <=> j = i \/ (j \in LastOf(bl, st) /\ bl[j].label # bl[i].label)
  <2> SUFFICES ASSUME NEW j \in DOMAIN st, j # i
               PROVE  j \in LastOf(bl, t) <=> j \in LastOf(bl, st) /\ bl[j].label # bl[i].label
    BY <1>7
  <2>1. ASSUME j \in LastOf(bl, t)
        PROVE  j \in LastOf(bl, st) /\ bl[j].label # bl[i].label
    <3>1. j \in RunningIn(st) /\ st[j] = "running"
      BY <1>1, <1>6, <2>1 DEF LastOf, RunningIn
    <3>2. ~(i <= j)
      BY <1>2, <1>4, <3>1
    <3>3. bl[j].label # bl[i].label
      BY <1>1, <2>1, <3>2 DEF LastOf
    <3>4. ASSUME NEW k \in DOMAIN st, bl[k].label = bl[j].label, st[k] \in {"running", "cleaned"}
          PROVE  k <= j
      <4>1. k # i
        BY <3>4
      <4> QED BY <1>1, <2>1, <3>4, <4>1 DEF LastOf
    <3> QED BY <3>1, <3>3, <3>4 DEF LastOf
  <2>2. ASSUME j \in LastOf(bl, st), bl[j].label # bl[i].label
        PROVE  j \in LastOf(bl, t)
    BY <1>1, <1>6, <2>2 DEF LastOf
  <2> QED BY <2>1, <2>2
<1>9. LastOf(bl, t) \subseteq DOMAIN st /\ LastOf(bl, st) \subseteq DOMAIN st
  BY <1>1 DEF LastOf, RunningIn
<1> DEFINE g == registerHandler(h, bl[i].label, i)
<1>10. g = [x \in DOMAIN h \cup {bl[i].label} |-> IF x = bl[i].label THEN i ELSE h[x]]
  BY DEF registerHandler, Put
<1> HIDE DEF g
<1>11. ASSUME NEW x \in DOMAIN g
       PROVE  g[x] \in LastOf(bl, t) /\ bl[g[x]].label = x
  <2>1. CASE x = bl[i].label
    BY <1>7, <1>10, <2>1
  <2>2. CASE x # bl[i].label
    <3>1. g[x] = h[x] /\ x \in DOMAIN h
      BY <1>10, <1>11, <2>2
    <3>2. h[x] \in LastOf(bl, st) /\ bl[h[x]].label = x
      BY <3>1 DEF RegistryOK
    <3> QED BY <1>8, <1>9, <2>2, <3>1, <3>2
  <2> QED BY <2>1, <2>2
<1>12. ASSUME NEW j \in LastOf(bl, t)
       PROVE  bl[j].label \in DOMAIN g /\ g[bl[j].label] = j
  <2>1. CASE j = i
    BY <1>10, <2>1
  <2>2. CASE j # i
    <3>1. j \in LastOf(bl, st) /\ bl[j].label # bl[i].label
      BY <1>8, <1>9, <2>2
    <3>2. bl[j].label \in DOMAIN h /\ h[bl[j].label] = j
      BY <3>1 DEF RegistryOK
    <3> QED BY <1>10, <3>1, <3>2
  <2> QED BY <2>1, <2>2
<1>13. RegistryOK(bl, t, g)
  <2>1. g = [x \in DOMAIN g |-> g[x]]
    BY <1>10
  <2> QED BY <1>11, <1>12, <2>1 DEF RegistryOK
<1> QED BY <1>5, <1>6, <1>13 DEF g

(* One that is refused was never registered.                               *)
LEMMA Refuse1 ==
    ASSUME NEW bl, NEW st, NEW h, StateOK(st), RegistryOK(bl, st, h),
           NEW i \in DOMAIN st, st[i] = "new", \A j \in 1..(i - 1) : st[j] = "running",
           NEW t, t = [st EXCEPT ![i] = "rejected"]
    PROVE  StateOK(t) /\ RunningIn(t) = RunningIn(st) /\ RegistryOK(bl, t, h)
<1>1. DOMAIN t = DOMAIN st /\ t[i] = "rejected" /\ \A j \in DOMAIN st \ {i} : t[j] = st[j]
  BY DEF StateOK
<1>2. \A j \in DOMAIN st : j \in Nat /\ j >= 1
  BY DEF StateOK
<1>3. StateOK(t)
  <2>1. t = [j \in DOMAIN t |-> t[j]] /\ \E n \in Nat : DOMAIN t = 1..n
    BY <1>1 DEF StateOK
  <2>2. ASSUME NEW j \in DOMAIN t, NEW k \in DOMAIN t, t[j] = "new", j < k
        PROVE  t[k] = "new"
    <3>1. j # i /\ st[j] = "new" /\ st[k] = "new"
      BY <1>1, <2>2 DEF StateOK
    <3>2. k # i
      BY <1>1, <1>2, <2>2, <3>1
    <3> QED BY <1>1, <3>1, <3>2
  <2> QED BY <2>1, <2>2 DEF StateOK
<1>4. RunningIn(t) = RunningIn(st)
  BY <1>1 DEF RunningIn
<1>5. LastOf(bl, t) = LastOf(bl, st)
  BY <1>1, <1>4 DEF LastOf
<1> QED BY <1>3, <1>4, <1>5 DEF RegistryOK

(* The cleanup of a handler takes its own registration and no other one's. *)
LEMMA Unregister ==
    ASSUME NEW bl, NEW st, NEW h, StateOK(st), RegistryOK(bl, st, h),
           NEW i \in RunningIn(st), NEW t, t = [st EXCEPT ![i] = "cleaned"]
    PROVE  /\ StateOK(t) /\ i \notin RunningIn(t) /\ RunningIn(st) = RunningIn(t) \cup {i}
           /\ RegistryOK(bl, t, unregisterHandler(h, bl[i].label, i))
<1>1. i \in DOMAIN st /\ st[i] = "running"
  BY DEF RunningIn
<1>2. DOMAIN t = DOMAIN st /\ t[i] = "cleaned" /\ \A j \in DOMAIN st \ {i} : t[j] = st[j]
  BY <1>1 DEF StateOK
<1>3. \A j \in DOMAIN st : j \in Nat
  BY StateFacts
<1>4. StateOK(t)
  <2>1. t = [j \in DOMAIN t |-> t[j]] /\ \E n \in Nat : DOMAIN t = 1..n
    BY <1>1, <1>2 DEF StateOK
  <2>2. \A j \in DOMAIN t : t[j] = "new" <=> st[j] = "new"
    BY <1>1, <1>2
  <2> QED BY <1>2, <2>1, <2>2 DEF StateOK
<1>5. i \notin RunningIn(t) /\ RunningIn(st) = RunningIn(t) \cup {i}
  BY <1>1, <1>2 DEF RunningIn
<1>6. LastOf(bl, t) = LastOf(bl, st) \ {i}
  <2>1. \A j \in DOMAIN st : t[j] \in {"running", "cleaned"} <=> st[j] \in {"running", "cleaned"}
    BY <1>1, <1>2
  <2> QED BY <1>2, <1>5, <2>1 DEF LastOf
<1> DEFINE g == unregisterHandler(h, bl[i].label, i)
           label == bl[i].label
<1>7. CASE label \in DOMAIN h /\ h[label] = i
  <2>1. g = [x \in DOMAIN h \ {label} |-> h[x]]
    BY <1>7 DEF unregisterHandler, Drop, Restrict
  <2> HIDE DEF g, label
  <2>2. \A x \in DOMAIN g : g[x] = h[x] /\ g[x] \in LastOf(bl, t) /\ bl[g[x]].label = x
    BY <1>6, <1>7, <2>1 DEF RegistryOK, label
  <2>3. \A j \in LastOf(bl, t) : bl[j].label \in DOMAIN g /\ g[bl[j].label] = j
    BY <1>6, <1>7, <2>1 DEF RegistryOK, label
  <2>4. g = [x \in DOMAIN g |-> g[x]]
    BY <2>1
  <2>5. RegistryOK(bl, t, g)
    BY <2>2, <2>3, <2>4 DEF RegistryOK
  <2> QED BY <1>4, <1>5, <2>5 DEF g
<1>8. CASE ~(label \in DOMAIN h /\ h[label] = i)
  <2>1. g = h
    BY <1>8 DEF unregisterHandler
  <2>2. i \notin LastOf(bl, st)
    BY <1>8 DEF RegistryOK
  <2>3. LastOf(bl, t) = LastOf(bl, st)
    BY <1>6, <2>2
  <2>4. RegistryOK(bl, t, h)
    BY <2>3 DEF RegistryOK
  <2> QED BY <1>4, <1>5, <2>1, <2>4
<1> QED BY <1>7, <1>8

(* What a load without a running handler has left.                         *)
LEMMA NothingLeft ==
    ASSUME NEW ld, NEW st, NEW p, NEW sc, NEW h, LoadOK(ld, st, p, sc, h), RunningIn(st) = {}
    PROVE  p = <<>> /\ sc = {} /\ h = <<>>
<1>1. \A k : UsesIn(ld.blocks, RunningIn(st), k) = {}
  BY DEF UsesIn
<1>2. \A k : Refs(p, k) <= 0
  BY <1>1, FS_EmptySet DEF LoadOK, PoolOK
<1>3. DOMAIN p = {}
  <2>1. IsPool(p)
    BY DEF LoadOK, PoolOK
  <2> SUFFICES ASSUME NEW k \in DOMAIN p PROVE FALSE
    OBVIOUS
  <2>2. Refs(p, k) \in Nat /\ Refs(p, k) > 0 /\ Refs(p, k) <= 0
    BY <1>2, <2>1, RefsFacts
  <2> QED BY <2>2
<1>4. DOMAIN h = {}
  BY DEF LoadOK, RegistryOK, LastOf
<1>5. p = [k \in DOMAIN p |-> p[k]] /\ h = [x \in DOMAIN h |-> h[x]]
  BY DEF LoadOK, PoolOK, IsPool, RegistryOK
<1>6. \A f : f = [x \in {} |-> f[x]] => f = <<>>
  OBVIOUS
<1>7. sc = {}
  BY DEF LoadOK
<1> QED BY <1>3, <1>4, <1>5, <1>6, <1>7

-----------------------------------------------------------------------------
(* The loads.                                                              *)

(* A step about one load leaves the others alone.                          *)
LEMMA OneLoadChanges ==
    ASSUME LoadInv, NEW l \in Loads,
           PerLoad(load)', PerLoad(state)', PerLoad(pool)', PerLoad(scoring)', PerLoad(handlers)',
           \A m \in Loads \ {l} :
             /\ load'[m] = load[m] /\ state'[m] = state[m] /\ pool'[m] = pool[m]
             /\ scoring'[m] = scoring[m] /\ handlers'[m] = handlers[m],
           LoadOK(load'[l], state'[l], pool'[l], scoring'[l], handlers'[l])
    PROVE  LoadInv'
<1> SUFFICES ASSUME NEW m \in Loads
             PROVE  LoadOK(load'[m], state'[m], pool'[m], scoring'[m], handlers'[m])
  BY DEF LoadInv
<1> QED BY DEF LoadInv

(* At first no load has been adapted.                                      *)
LEMMA InitLoadInv == Init => LoadInv
<1> SUFFICES ASSUME Init PROVE LoadInv
  OBVIOUS
<1> USE DEF Init
<1>1. PerLoad(load) /\ PerLoad(state) /\ PerLoad(pool) /\ PerLoad(scoring) /\ PerLoad(handlers)
  BY DEF PerLoad
<1>2. ASSUME NEW l \in Loads
      PROVE  LoadOK(load[l], state[l], pool[l], scoring[l], handlers[l])
  <2>1. load[l] = Unused /\ state[l] = <<>> /\ pool[l] = <<>> /\ scoring[l] = {} /\ handlers[l] = <<>>
    OBVIOUS
  <2>2. RunningIn(<<>>) = {}
    BY DEF RunningIn
  <2>3. StateOK(<<>>)
    <3>1. DOMAIN <<>> = 1..0 /\ <<>> = [i \in DOMAIN <<>> |-> <<>>[i]]
      OBVIOUS
    <3> QED BY <3>1 DEF StateOK
  <2>4. PoolOK(Unused, <<>>, <<>>)
    <3>1. \A k : Cardinality(UsesIn(Unused.blocks, RunningIn(<<>>), k)) = 0
      <4>1. \A k : UsesIn(Unused.blocks, RunningIn(<<>>), k) = {}
        BY <2>2 DEF UsesIn
      <4> QED BY <4>1, FS_EmptySet
    <3>2. IsPool(<<>>) /\ \A k : Refs(<<>>, k) = 0
      BY DEF IsPool, Refs
    <3> QED BY <3>1, <3>2 DEF PoolOK
  <2>5. RegistryOK(Unused.blocks, <<>>, <<>>)
    BY <2>2 DEF RegistryOK, LastOf
  <2> QED BY <2>1, <2>2, <2>3, <2>4, <2>5 DEF LoadOK, Unused
<1> QED BY <1>1, <1>2 DEF LoadInv

(* Before its first handler is provisioned a load holds nothing.           *)
LEMMA AdaptKeeps ==
    ASSUME LoadInv, NEW l \in Loads, NEW c \in Configs[l], Adapt(l, c)
    PROVE  LoadInv'
<1> DEFINE blocks == [i \in DOMAIN c |-> UnmarshalCaddyfile(c[i])]
           ok == \A i \in DOMAIN c : blocks[i].ok
           ld == [blocks |-> blocks, phase |-> IF ok THEN "provisioning" ELSE "refused"]
           st == [i \in DOMAIN c |-> "new"]
<1>1. /\ load' = [load EXCEPT ![l] = ld] /\ state' = [state EXCEPT ![l] = st]
      /\ load[l].phase = "none" /\ UNCHANGED <<pool, scoring, handlers>>
  BY DEF Adapt
<1>2. LoadOK(load[l], state[l], pool[l], scoring[l], handlers[l])
  BY DEF LoadInv
<1>3. pool[l] = <<>> /\ scoring[l] = {} /\ handlers[l] = <<>>
  <2>1. RunningIn(state[l]) = {}
    BY <1>1, <1>2 DEF LoadOK
  <2> QED BY <1>2, <2>1, NothingLeft
<1>4. RunningIn(st) = {} /\ StateOK(st)
  <2>1. PICK n \in Nat : DOMAIN c = 1..n
    BY ConfigLoadAssumption DEF Loads
  <2> QED BY <2>1 DEF RunningIn, StateOK
<1>5. DOMAIN ld = {"blocks", "phase"} /\ ld = [x \in DOMAIN ld |-> ld[x]]
  OBVIOUS
<1> HIDE DEF st, ld
<1>6. PoolOK(ld, st, <<>>)
  <2>1. \A k : UsesIn(ld.blocks, RunningIn(st), k) = {}
    BY <1>4 DEF UsesIn
  <2>2. \A k : Cardinality(UsesIn(ld.blocks, RunningIn(st), k)) = 0
    BY <2>1, FS_EmptySet
  <2>3. IsPool(<<>>) /\ \A k : Refs(<<>>, k) = 0
    BY DEF IsPool, Refs
  <2> QED BY <2>2, <2>3 DEF PoolOK
<1>7. RegistryOK(ld.blocks, st, <<>>)
  BY <1>4 DEF RegistryOK, LastOf
<1>8. LoadOK(ld, st, <<>>, {}, <<>>)
  BY <1>4, <1>5, <1>6, <1>7 DEF LoadOK
<1>9. load'[l] = ld /\ state'[l] = st /\ pool'[l] = <<>> /\ scoring'[l] = {} /\ handlers'[l] = <<>>
  BY <1>1, <1>3 DEF LoadInv, PerLoad
<1>10. /\ PerLoad(load)' /\ PerLoad(state)' /\ PerLoad(pool)' /\ PerLoad(scoring)' /\ PerLoad(handlers)'
  BY <1>1 DEF LoadInv, PerLoad
<1>11. \A m \in Loads \ {l} :
         /\ load'[m] = load[m] /\ state'[m] = state[m] /\ pool'[m] = pool[m]
         /\ scoring'[m] = scoring[m] /\ handlers'[m] = handlers[m]
  BY <1>1 DEF LoadInv, PerLoad
<1> QED BY <1>8, <1>9, <1>10, <1>11, OneLoadChanges

(* What a load holds grows with the block that is provisioned.             *)
LEMMA ProvisionedKeeps ==
    ASSUME LoadInv, NEW l \in Loads, NEW i \in DOMAIN state[l], NEW found,
           load[l].phase = "provisioning", state[l][i] = "new",
           \A j \in 1..(i - 1) : state[l][j] = "running",
           Provisioned(l, i, acquire(pool[l], Block(l, i), found))
    PROVE  LoadInv'
<1> DEFINE b == load[l].blocks[i]
           p == acquire(pool[l], b, found)
           t == [state[l] EXCEPT ![i] = "running"]
           g == registerHandler(handlers[l], b.label, i)
           sc == scoring[l] \cup {i}
<1>1. /\ pool' = [pool EXCEPT ![l] = p] /\ state' = [state EXCEPT ![l] = t] /\ load' = load
      /\ scoring' = [scoring EXCEPT ![l] = sc] /\ handlers' = [handlers EXCEPT ![l] = g]
  BY DEF Provisioned, Block
<1>2. LoadOK(load[l], state[l], pool[l], scoring[l], handlers[l])
  BY DEF LoadInv
<1>3. /\ StateOK(t) /\ RunningIn(t) = RunningIn(state[l]) \cup {i}
      /\ RegistryOK(load[l].blocks, t, g)
  BY <1>2, Register DEF LoadOK
<1>4. IsPool(p) /\ \A k : Refs(p, k) = Refs(pool[l], k) + Count(b, k)
  BY <1>2, AcquireFacts DEF LoadOK, PoolOK
<1>5. i \notin RunningIn(state[l])
  BY DEF RunningIn
<1> HIDE DEF p, t, g
<1>6. PoolOK(load[l], t, p)
  <2> SUFFICES ASSUME NEW k
               PROVE  Refs(p, k) = Cardinality(UsesIn(load[l].blocks, RunningIn(t), k)) /\ Refs(p, k) \in Nat
    BY <1>4 DEF PoolOK
  <2>1. Refs(pool[l], k) = Cardinality(UsesIn(load[l].blocks, RunningIn(state[l]), k))
    BY <1>2 DEF LoadOK, PoolOK
  <2>2. /\ Cardinality(UsesIn(load[l].blocks, RunningIn(t), k)) =
             Cardinality(UsesIn(load[l].blocks, RunningIn(state[l]), k)) + Count(b, k)
    <3> DEFINE bl == load[l].blocks
               R == RunningIn(state[l])
    <3>1. IsFiniteSet(R) /\ i \notin R
      BY <1>2, <1>5, StateFacts DEF LoadOK
    <3>2. bl[i] = b
      OBVIOUS
    <3> HIDE DEF bl, R, b
    <3>3. /\ Cardinality(UsesIn(bl, R, k)) \in Nat
          /\ Cardinality(UsesIn(bl, R \cup {i}, k)) = Cardinality(UsesIn(bl, R, k)) + Count(bl[i], k)
      BY <3>1, UsesGrow
    <3> QED BY <1>3, <3>2, <3>3 DEF bl, R
  <2>3. Refs(p, k) \in Nat
    BY <1>4, RefsFacts
  <2> QED BY <1>4, <2>1, <2>2, <2>3
<1>7. LoadOK(load[l], t, p, sc, g)
  BY <1>2, <1>3, <1>6 DEF LoadOK
<1>8. load'[l] = load[l] /\ state'[l] = t /\ pool'[l] = p /\ scoring'[l] = sc /\ handlers'[l] = g
  BY <1>1 DEF LoadInv, PerLoad
<1> QED BY <1>1, <1>7, <1>8, OneLoadChanges DEF LoadInv, PerLoad

(* A block that is refused gives back what it took, once or twice.         *)
LEMMA RejectedKeeps ==
    ASSUME LoadInv, NEW l \in Loads, NEW i \in DOMAIN state[l], NEW found,
           load[l].phase = "provisioning", state[l][i] = "new",
           \A j \in 1..(i - 1) : state[l][j] = "running",
           Rejected(l, i, acquire(pool[l], Block(l, i), found))
    PROVE  LoadInv'
<1> DEFINE b == load[l].blocks[i]
           q == acquire(pool[l], b, found)
           once == releaseAcquired(q, b)
           twice == releaseAcquired(once, b)
           t == [state[l] EXCEPT ![i] = "rejected"]
           ld == [load[l] EXCEPT !.phase = "failed"]
<1>1. PICK p \in {once, twice} :
        /\ pool' = [pool EXCEPT ![l] = p] /\ state' = [state EXCEPT ![l] = t]
        /\ load' = [load EXCEPT ![l] = ld] /\ UNCHANGED <<scoring, handlers>>
  BY DEF Rejected, Block
<1>2. LoadOK(load[l], state[l], pool[l], scoring[l], handlers[l])
  BY DEF LoadInv
<1>3. StateOK(t) /\ RunningIn(t) = RunningIn(state[l]) /\ RegistryOK(load[l].blocks, t, handlers[l])
  BY <1>2, Refuse1 DEF LoadOK
<1>4. IsPool(q) /\ \A k : Refs(q, k) = Refs(pool[l], k) + Count(b, k)
  BY <1>2, AcquireFacts DEF LoadOK, PoolOK
<1> HIDE DEF q
<1>5. IsPool(once) /\ \A k : Refs(once, k) = Less(Refs(q, k), Count(b, k))
  BY <1>4, ReleaseAcquiredFacts
<1> HIDE DEF once
<1>6. IsPool(twice) /\ \A k : Refs(twice, k) = Less(Refs(once, k), Count(b, k))
  BY <1>5, ReleaseAcquiredFacts
<1> HIDE DEF twice, t
<1>7. IsPool(p) /\ \A k : Refs(p, k) <= Refs(pool[l], k)
  <2> SUFFICES ASSUME NEW k PROVE Refs(once, k) <= Refs(pool[l], k) /\ Refs(twice, k) <= Refs(pool[l], k)
    BY <1>1, <1>5, <1>6
  <2>1. Refs(pool[l], k) \in Nat /\ Count(b, k) \in Nat
    BY <1>2, RefsFacts, CountFacts DEF LoadOK, PoolOK
  <2>2. Refs(once, k) = Refs(pool[l], k)
    BY <1>4, <1>5, <2>1 DEF Less
  <2> QED BY <1>6, <2>1, <2>2 DEF Less
<1>8. /\ DOMAIN ld = {"blocks", "phase"} /\ ld = [x \in DOMAIN ld |-> ld[x]]
      /\ ld.phase = "failed" /\ ld.blocks = load[l].blocks
  BY <1>2 DEF LoadOK
<1> HIDE DEF ld
<1>9. PoolOK(ld, t, p)
  <2>1. \A k : Refs(p, k) <= Cardinality(UsesIn(ld.blocks, RunningIn(t), k))
    BY <1>2, <1>3, <1>7, <1>8 DEF LoadOK, PoolOK
  <2> QED BY <1>7, <1>8, <2>1 DEF PoolOK
<1>10. LoadOK(ld, t, p, scoring[l], handlers[l])
  BY <1>2, <1>3, <1>8, <1>9 DEF LoadOK
<1>11. /\ load'[l] = ld /\ state'[l] = t /\ pool'[l] = p /\ scoring'[l] = scoring[l]
       /\ handlers'[l] = handlers[l]
  BY <1>1 DEF LoadInv, PerLoad
<1> QED BY <1>1, <1>10, <1>11, OneLoadChanges DEF LoadInv, PerLoad

(* A cleanup gives back one reference for every use, where there is one.   *)
LEMMA CleanupKeeps ==
    ASSUME LoadInv, NEW l \in Loads, NEW i \in DOMAIN state[l], Cleanup(l, i)
    PROVE  LoadInv'
<1> DEFINE b == load[l].blocks[i]
           p == releaseAcquired(pool[l], b)
           t == [state[l] EXCEPT ![i] = "cleaned"]
           g == unregisterHandler(handlers[l], b.label, i)
           sc == scoring[l] \ {i}
<1>1. /\ pool' = [pool EXCEPT ![l] = p] /\ state' = [state EXCEPT ![l] = t] /\ load' = load
      /\ scoring' = [scoring EXCEPT ![l] = sc] /\ handlers' = [handlers EXCEPT ![l] = g]
      /\ load[l].phase \in {"retiring", "failed"} /\ i \in RunningIn(state[l])
  BY DEF Cleanup, Block, Running, RunningIn
<1>2. LoadOK(load[l], state[l], pool[l], scoring[l], handlers[l])
  BY DEF LoadInv
<1>3. /\ StateOK(t) /\ i \notin RunningIn(t) /\ RunningIn(state[l]) = RunningIn(t) \cup {i}
      /\ RegistryOK(load[l].blocks, t, g)
  BY <1>1, <1>2, Unregister DEF LoadOK
<1>4. IsPool(p) /\ \A k : Refs(p, k) = Less(Refs(pool[l], k), Count(b, k))
  BY <1>2, ReleaseAcquiredFacts DEF LoadOK, PoolOK
<1> HIDE DEF p, t, g
<1>5. PoolOK(load[l], t, p)
  <2> SUFFICES ASSUME NEW k
               PROVE  LET n == Cardinality(UsesIn(load[l].blocks, RunningIn(t), k)) IN
                        Refs(p, k) <= n /\ (load[l].phase \notin {"failed", "refused"} => Refs(p, k) = n)
    BY <1>4 DEF PoolOK
  <2> DEFINE n == Cardinality(UsesIn(load[l].blocks, RunningIn(t), k))
             m == Cardinality(UsesIn(load[l].blocks, RunningIn(state[l]), k))
  <2>1. Refs(pool[l], k) <= m /\ (load[l].phase \notin {"failed", "refused"} => Refs(pool[l], k) = m)
    BY <1>2 DEF LoadOK, PoolOK
  <2>2. n \in Nat /\ m = n + Count(b, k)
    <3> DEFINE bl == load[l].blocks
               R == RunningIn(t)
    <3>1. IsFiniteSet(R) /\ i \notin R
      BY <1>3, StateFacts DEF LoadOK
    <3>2. bl[i] = b
      OBVIOUS
    <3> HIDE DEF bl, R, b
    <3>3. /\ Cardinality(UsesIn(bl, R, k)) \in Nat
          /\ Cardinality(UsesIn(bl, R \cup {i}, k)) = Cardinality(UsesIn(bl, R, k)) + Count(bl[i], k)
      BY <3>1, UsesGrow
    <3> QED BY <1>3, <3>2, <3>3 DEF bl, R, n, m
  <2>3. Refs(pool[l], k) \in Nat /\ Count(b, k) \in Nat
    BY <1>2, RefsFacts, CountFacts DEF LoadOK, PoolOK
  <2> HIDE DEF n, m
  <2>4. Refs(p, k) <= n /\ (Refs(pool[l], k) = m => Refs(p, k) = n)
    BY <1>4, <2>1, <2>2, <2>3 DEF Less
  <2> QED BY <2>1, <2>4 DEF n
<1>6. LoadOK(load[l], t, p, sc, g)
  BY <1>1, <1>2, <1>3, <1>5 DEF LoadOK
<1>7. load'[l] = load[l] /\ state'[l] = t /\ pool'[l] = p /\ scoring'[l] = sc /\ handlers'[l] = g
  BY <1>1 DEF LoadInv, PerLoad
<1> QED BY <1>1, <1>6, <1>7, OneLoadChanges DEF LoadInv, PerLoad

(* The host moves loads from phase to phase.                               *)
LEMMA PhaseChange ==
    ASSUME NEW ld, NEW st, NEW p, NEW sc, NEW h, LoadOK(ld, st, p, sc, h), NEW e,
           e = [ld EXCEPT !.phase = e.phase],
           e.phase \in {"serving", "retiring"} => ld.phase \notin {"failed", "refused"},
           e.phase \in {"none", "refused"} => RunningIn(st) = {}, e.phase \in {"serving", "retiring", "refused"}
    PROVE  LoadOK(e, st, p, sc, h)
<1>1. DOMAIN e = {"blocks", "phase"} /\ e = [x \in DOMAIN e |-> e[x]] /\ e.blocks = ld.blocks
  BY DEF LoadOK
<1>2. PoolOK(e, st, p)
  BY <1>1 DEF LoadOK, PoolOK
<1> QED BY <1>1, <1>2 DEF LoadOK

(* The load that served retires with its pools and registry as they are.   *)
LEMMA ServeKeeps ==
    ASSUME LoadInv, NEW l \in Loads, Serve(l)
    PROVE  LoadInv'
<1>1. /\ load[l].phase = "provisioning" /\ UNCHANGED <<state, pool, scoring, handlers>>
      /\ load' = [m \in Loads |-> IF m = l THEN [load[m] EXCEPT !.phase = "serving"]
                                  ELSE IF m \in In("serving") THEN [load[m] EXCEPT !.phase = "retiring"]
                                  ELSE load[m]]
  BY DEF Serve
<1>2. ASSUME NEW m \in Loads
      PROVE  LoadOK(load'[m], state[m], pool[m], scoring[m], handlers[m])
  <2>1. LoadOK(load[m], state[m], pool[m], scoring[m], handlers[m]) /\ "phase" \in DOMAIN load[m]
    BY DEF LoadInv, LoadOK
  <2>2. CASE m = l
    <3>1. load'[m] = [load[m] EXCEPT !.phase = load'[m].phase] /\ load'[m].phase = "serving"
      BY <1>1, <2>1, <2>2
    <3> QED BY <1>1, <2>1, <2>2, <3>1, PhaseChange
  <2>3. CASE m # l /\ m \in In("serving")
    <3>1. load'[m] = [load[m] EXCEPT !.phase = load'[m].phase] /\ load'[m].phase = "retiring"
      BY <1>1, <2>1, <2>3
    <3>2. load[m].phase = "serving"
      BY <2>3 DEF In
    <3> QED BY <2>1, <3>1, <3>2, PhaseChange
  <2>4. CASE m # l /\ m \notin In("serving")
    BY <1>1, <2>1, <2>4
  <2> QED BY <2>2, <2>3, <2>4
<1>3. PerLoad(load)'
  BY <1>1 DEF PerLoad
<1>4. PerLoad(state)' /\ PerLoad(pool)' /\ PerLoad(scoring)' /\ PerLoad(handlers)'
  BY <1>1 DEF LoadInv, PerLoad
<1> QED BY <1>1, <1>2, <1>3, <1>4 DEF LoadInv

(* A failed load is over when no handler of it runs.                       *)
LEMMA AbandonKeeps ==
    ASSUME LoadInv, NEW l \in Loads, Abandon(l)
    PROVE  LoadInv'
<1> DEFINE ld == [load[l] EXCEPT !.phase = "refused"]
<1>1. /\ load' = [load EXCEPT ![l] = ld] /\ UNCHANGED <<state, pool, scoring, handlers>>
      /\ RunningIn(state[l]) = {}
  BY DEF Abandon, Running, RunningIn
<1>2. LoadOK(load[l], state[l], pool[l], scoring[l], handlers[l])
  BY DEF LoadInv
<1>3. ld.phase = "refused" /\ ld = [load[l] EXCEPT !.phase = ld.phase]
  BY <1>2 DEF LoadOK
<1> HIDE DEF ld
<1>4. LoadOK(ld, state[l], pool[l], scoring[l], handlers[l])
  BY <1>1, <1>2, <1>3, PhaseChange
<1>5. load'[l] = ld
  BY <1>1 DEF LoadInv, PerLoad
<1> QED BY <1>1, <1>4, <1>5, OneLoadChanges DEF LoadInv, PerLoad

(* Every step keeps the invariant.                                         *)
LEMMA NextLoadInv == LoadInv /\ [Next]_vars => LoadInv'
<1> SUFFICES ASSUME LoadInv, [Next]_vars PROVE LoadInv'
  OBVIOUS
<1>1. CASE UNCHANGED vars
  BY <1>1 DEF vars, LoadInv, PerLoad
<1>2. ASSUME NEW l \in Loads, NEW i \in DOMAIN state[l], Provision(l, i)
      PROVE  LoadInv'
  <2>1. PICK found : LET q == acquire(pool[l], Block(l, i), found) IN
          Rejected(l, i, q) \/ Provisioned(l, i, q)
    BY <1>2 DEF Provision
  <2> QED BY <1>2, <2>1, RejectedKeeps, ProvisionedKeeps DEF Provision
<1>3. ASSUME NEW l \in Loads, \/ \E c \in Configs[l] : Adapt(l, c)
                              \/ \E i \in DOMAIN state[l] : Cleanup(l, i)
                              \/ Serve(l) \/ Abandon(l)
      PROVE  LoadInv'
  BY <1>3, AdaptKeeps, CleanupKeeps, ServeKeeps, AbandonKeeps
<1> QED BY <1>1, <1>2, <1>3 DEF Next

(* Every load keeps its references, its goroutines and its registry.       *)
THEOREM Invariance == Spec => []LoadInv
BY InitLoadInv, NextLoadInv, PTL DEF Spec

(* No reader is closed under a handler, and none is kept for nobody: the   *)
(* pools of a load that serves, or is being cleaned up, count the uses of  *)
(* its handlers.                                                           *)
THEOREM PoolsMatch == Spec => []PoolMatchesHolders
<1>1. LoadInv => PoolMatchesHolders
  <2> SUFFICES ASSUME LoadInv, NEW l \in In("serving") \cup In("retiring")
               PROVE  /\ DOMAIN pool[l] = {Key[s] : s \in UNION {Named(Block(l, i)) : i \in Running(l)}}
                      /\ \A k \in DOMAIN pool[l] : pool[l][k].refs = Cardinality(Uses(l, k))
    BY DEF PoolMatchesHolders
  <2>1. l \in Loads /\ load[l].phase \notin {"failed", "refused"}
    BY DEF In
  <2>2. LoadOK(load[l], state[l], pool[l], scoring[l], handlers[l])
    BY <2>1 DEF LoadInv
  <2>3. Running(l) = RunningIn(state[l])
    BY DEF Running, RunningIn
  <2>4. \A k : Uses(l, k) = UsesIn(load[l].blocks, RunningIn(state[l]), k)
    BY <2>3 DEF Uses, UsesIn, Block
  <2>5. \A k : Refs(pool[l], k) = Cardinality(Uses(l, k))
    BY <2>1, <2>2, <2>4 DEF LoadOK, PoolOK
  <2>6. IsPool(pool[l]) /\ \A k : IsFiniteSet(Uses(l, k))
    <3>1. IsFiniteSet(RunningIn(state[l]))
      BY <2>2, StateFacts DEF LoadOK
    <3> QED BY <2>2, <2>4, <3>1, UsesFinite DEF LoadOK, PoolOK
  <2>7. \A k : k \in DOMAIN pool[l] <=> Uses(l, k) # {}
    BY <2>5, <2>6, RefsFacts, FS_EmptySet, FS_CardinalityType
  <2>8. \A k : Uses(l, k) # {} <=> \E i \in Running(l) : \E s \in Named(Block(l, i)) : Key[s] = k
    <3> SUFFICES ASSUME NEW k PROVE Uses(l, k) # {} <=> \E i \in Running(l) : \E s \in Named(Block(l, i)) : Key[s] = k
      OBVIOUS
    <3>1. ASSUME NEW u \in Uses(l, k)
          PROVE  \E i \in Running(l) : \E s \in Named(Block(l, i)) : Key[s] = k
      BY DEF Uses, Named
    <3>2. ASSUME NEW i \in Running(l), NEW x \in Settings, Block(l, i)[x] # None, Key[Block(l, i)[x]] = k
          PROVE  <<i, x>> \in Uses(l, k)
      BY <3>2 DEF Uses
    <3> QED BY <3>1, <3>2 DEF Named
  <2>9. DOMAIN pool[l] = {Key[s] : s \in UNION {Named(Block(l, i)) : i \in Running(l)}}
    BY <2>7, <2>8
  <2>10. \A k \in DOMAIN pool[l] : pool[l][k].refs = Refs(pool[l], k)
    BY DEF Refs
  <2> QED BY <2>5, <2>9, <2>10
<1> QED BY <1>1, Invariance, PTL

(* A load that is over has nothing open, running or registered.            *)
THEOREM NothingLeftOver == Spec => []NothingOutlivesLoad
<1>1. LoadInv => NothingOutlivesLoad
  <2> SUFFICES ASSUME LoadInv, NEW l \in In("refused") \cup {m \in In("retiring") : Running(m) = {}}
               PROVE  pool[l] = <<>> /\ scoring[l] = {} /\ handlers[l] = <<>>
    BY DEF NothingOutlivesLoad
  <2>1. l \in Loads /\ (load[l].phase = "refused" \/ RunningIn(state[l]) = {})
    BY DEF In, Running, RunningIn
  <2>2. LoadOK(load[l], state[l], pool[l], scoring[l], handlers[l])
    BY <2>1 DEF LoadInv
  <2>3. RunningIn(state[l]) = {}
    BY <2>1, <2>2 DEF LoadOK
  <2> QED BY <2>2, <2>3, NothingLeft
<1> QED BY <1>1, Invariance, PTL

(* The status API lists the handler last provisioned under every label.    *)
THEOREM StatusIsLast == Spec => []StatusListsLast
<1>1. LoadInv => StatusListsLast
  <2> SUFFICES ASSUME LoadInv, NEW l \in Loads
               PROVE  handleStatus(l).backends =
                        {i \in Running(l) : \A j \in DOMAIN state[l] :
                           Block(l, j).label = Block(l, i).label /\ state[l][j] \in {"running", "cleaned"} => j <= i}
    BY DEF StatusListsLast
  <2>1. RegistryOK(load[l].blocks, state[l], handlers[l])
    BY DEF LoadInv, LoadOK
  <2>2. Range(handlers[l]) = LastOf(load[l].blocks, state[l])
    BY <2>1 DEF RegistryOK, Range
  <2> QED BY <2>2 DEF handleStatus, snapshotHandlers, LastOf, Running, RunningIn, Block
<1> QED BY <1>1, Invariance, PTL

-----------------------------------------------------------------------------
(* Folds over the lines of a block.                                        *)

(* A nonempty set of naturals has a least member.                          *)
LEMMA Least ==
    ASSUME NEW S \in SUBSET Nat, S # {}
    PROVE  \E m \in S : \A k \in S : m <= k
<1>1. PICK m \in S : \A k \in S : ~(<<k, m>> \in OpToRel(<, Nat))
  BY NatLessThanWellFounded, WFMin
<1>2. \A k \in Nat : k < m => <<k, m>> \in OpToRel(<, Nat)
  BY DEF OpToRel
<1>3. \A k \in S : ~(k < m)
  BY <1>1, <1>2
<1> QED BY <1>3

(* The greatest member of a set of numbers.                                *)
LEMMA MaxIs ==
    ASSUME NEW s \in SUBSET Nat, NEW m \in s, \A y \in s : m >= y
    PROVE  Max(s) = m
<1>1. \A x \in s : (\A y \in s : x >= y) <=> x = m
  OBVIOUS
<1> QED BY <1>1 DEF Max

(* A nonempty set of numbers up to n has a greatest.                       *)
LEMMA MaxIsIn ==
    ASSUME NEW n \in Nat, NEW s \in SUBSET (1..n), s # {}
    PROVE  Max(s) \in 1..n
<1> DEFINE T == {k \in Nat : \E m \in s : m + k = n}
<1>1. PICK m \in s : TRUE
  OBVIOUS
<1>2. n - m \in T
  OBVIOUS
<1>3. PICK k \in T : \A j \in T : k <= j
  <2>1. T \subseteq Nat /\ T # {}
    BY <1>2
  <2> HIDE DEF T
  <2> QED BY <2>1, Least
<1>4. PICK x \in s : x + k = n
  BY <1>3
<1>5. \A y \in s : x >= y
  <2> SUFFICES ASSUME NEW y \in s, ~(x >= y) PROVE FALSE
    OBVIOUS
  <2>1. n - y \in T
    OBVIOUS
  <2>2. k <= n - y /\ k \in Nat
    BY <1>3, <2>1
  <2> QED BY <1>4, <2>2
<1>6. Max(s) = x
  BY <1>5, MaxIs
<1> QED BY <1>6

(* UnmarshalCaddyfile and parseScoringBlock read lines one by one. FoldLeft *)
(* folds over sets of positions: h[s] is what the lines at the positions in *)
(* s make of base.                                                         *)
Read(kind, acc, line) == IF kind = "block" THEN Line(acc, line) ELSE ScoringLine(acc, line)

Fold(kind, base, lines, n, h) ==
    h = [s \in SUBSET (1..n) |->
           IF s = {} THEN base ELSE Read(kind, h[s \ {Max(s)}], lines[Max(s)])]

(* There is such a function, so a fold satisfies its own recursion.        *)
LEMMA FoldExists ==
    ASSUME NEW kind, NEW base, NEW lines, NEW n \in Nat
    PROVE  \E h : Fold(kind, base, lines, n, h)
<1> DEFINE Without == {m \in Nat : ~\E h : Fold(kind, base, lines, m, h)}
<1> SUFFICES ASSUME Without # {} PROVE FALSE
  OBVIOUS
<1>1. PICK m \in Without : \A k \in Without : m <= k
  <2>1. Without \subseteq Nat
    OBVIOUS
  <2> HIDE DEF Without
  <2> QED BY <2>1, Least
<1>2. CASE m = 0
  <2> DEFINE h == [s \in SUBSET (1..0) |-> base]
  <2>1. \A s \in SUBSET (1..0) : s = {}
    OBVIOUS
  <2>2. h = [s \in SUBSET (1..0) |->
               IF s = {} THEN base ELSE Read(kind, h[s \ {Max(s)}], lines[Max(s)])]
    BY <2>1
  <2> HIDE DEF h
  <2> QED BY <1>2, <2>2 DEF Fold
<1>3. CASE m # 0
  <2>1. m - 1 \in Nat /\ m - 1 \notin Without
    BY <1>1, <1>3
  <2>2. PICK h : Fold(kind, base, lines, m - 1, h)
    BY <2>1
  <2> DEFINE Value(s) == IF m \in s THEN Read(kind, h[s \ {m}], lines[m]) ELSE h[s]
             g == [s \in SUBSET (1..m) |-> Value(s)]
  <2>3. ASSUME NEW s \in SUBSET (1..m)
        PROVE  g[s] = IF s = {} THEN base ELSE Read(kind, g[s \ {Max(s)}], lines[Max(s)])
    <3>1. CASE m \in s
      <4>1. Max(s) = m
        <5>1. \A y \in s : m >= y /\ y \in Int
          BY <2>1
        <5>2. \A x \in s : (\A y \in s : x >= y) <=> x = m
          BY <3>1, <5>1
        <5> QED BY <3>1, <5>2 DEF Max
      <4>2. g[s \ {m}] = h[s \ {m}]
        OBVIOUS
      <4> QED BY <3>1, <4>1, <4>2
    <3>2. CASE m \notin s
      <4>1. s \in SUBSET (1..(m - 1))
        BY <2>1, <3>2
      <4>2. h[s] = IF s = {} THEN base ELSE Read(kind, h[s \ {Max(s)}], lines[Max(s)])
        BY <2>2, <4>1 DEF Fold
      <4>3. g[s] = h[s] /\ g[s \ {Max(s)}] = h[s \ {Max(s)}]
        BY <3>2
      <4> QED BY <4>2, <4>3
    <3> QED BY <3>1, <3>2
  <2>4. g = [s \in SUBSET (1..m) |-> g[s]]
    OBVIOUS
  <2> HIDE DEF g
  <2>5. g = [s \in SUBSET (1..m) |->
               IF s = {} THEN base ELSE Read(kind, g[s \ {Max(s)}], lines[Max(s)])]
    BY <2>3, <2>4
  <2>6. Fold(kind, base, lines, m, g)
    BY <2>5 DEF Fold
  <2> QED BY <1>1, <2>6
<1> QED BY <1>2, <1>3

(* What holds of no position, and of a set if it holds of the set without  *)
(* its greatest, holds of them all.                                        *)
LEMMA PrefixInduction ==
    ASSUME NEW n \in Nat, NEW Good, {} \in Good,
           \A s \in SUBSET (1..n) : s # {} /\ s \ {Max(s)} \in Good => s \in Good
    PROVE  1..n \in Good
<1> DEFINE Missing == {m \in Nat : m <= n /\ 1..m \notin Good}
<1> SUFFICES ASSUME Missing # {} PROVE FALSE
  OBVIOUS
<1>1. PICK m \in Missing : \A k \in Missing : m <= k
  <2>1. Missing \subseteq Nat
    OBVIOUS
  <2> HIDE DEF Missing
  <2> QED BY <2>1, Least
<1>2. m # 0
  <2>1. 1..0 = {}
    OBVIOUS
  <2> QED BY <1>1, <2>1
<1>3. 1..(m - 1) \in Good /\ m \in Nat /\ m <= n
  BY <1>1, <1>2
<1>4. Max(1..m) = m
  <2>1. m \in 1..m /\ \A y \in 1..m : m >= y /\ y \in Int
    BY <1>2, <1>3
  <2> QED BY <2>1 DEF Max
<1>5. 1..m # {} /\ 1..m \in SUBSET (1..n)
  <2>1. 1 \in 1..m /\ \A i \in 1..m : i \in 1..n
    BY <1>2, <1>3
  <2> QED BY <2>1
<1>6. (1..m) \ {m} = 1..(m - 1)
  BY <1>2, <1>3
<1> QED BY <1>1, <1>3, <1>4, <1>5, <1>6


(* What a block is, and what its scoring lines are, while they are read:   *)
(* only dimensions that exist are enabled.                                 *)
IsOptions(o) ==
    /\ DOMAIN o = {"ok", "base", "enabled", "penalties", "min", "max", "divisors"}
    /\ o.enabled \subseteq Dimensions
EnablesKnown(b) == b.scoring = None \/ b.scoring.enabled \subseteq Dimensions
IsBlock(b) == DOMAIN b = DOMAIN NewBlock /\ EnablesKnown(b)
Shaped(kind, acc) == IF kind = "block" THEN IsBlock(acc) ELSE IsOptions(acc)

(* What every line keeps, a fold keeps.                                    *)
LEMMA FoldKeeps ==
    ASSUME NEW kind, NEW base, NEW lines, NEW n \in Nat, NEW h, Fold(kind, base, lines, n, h),
           Shaped(kind, base),
           \A acc : \A i \in 1..n : Shaped(kind, acc) => Shaped(kind, Read(kind, acc, lines[i]))
    PROVE  Shaped(kind, h[1..n])
<1> DEFINE Good == {s \in SUBSET (1..n) : Shaped(kind, h[s])}
<1>1. h[{}] = base
  BY DEF Fold
<1>2. ASSUME NEW s \in SUBSET (1..n), s # {}, s \ {Max(s)} \in Good
      PROVE  s \in Good
  <2>1. Max(s) \in 1..n
    BY <1>2, MaxIsIn
  <2>2. h[s] = Read(kind, h[s \ {Max(s)}], lines[Max(s)])
    BY <1>2 DEF Fold
  <2>3. Shaped(kind, h[s \ {Max(s)}])
    BY <1>2
  <2> QED BY <2>1, <2>2, <2>3
<1>3. {} \in Good
  BY <1>1
<1> HIDE DEF Good
<1>4. 1..n \in Good
  BY <1>2, <1>3, PrefixInduction
<1> QED BY <1>4 DEF Good

(* Whatever a line of a scoring sub-block says.                            *)
LEMMA ScoringLineKeeps ==
    ASSUME NEW o, IsOptions(o), NEW line
    PROVE  IsOptions(ScoringLine(o, line))
<1>1. \A f, v : f \in {"ok", "base", "penalties", "min", "max", "divisors"} => IsOptions([o EXCEPT ![f] = v])
  BY DEF IsOptions
<1>2. \A acc, v : IsOptions(acc) => /\ IsOptions([acc EXCEPT !.ok = v])
                                    /\ IsOptions([acc EXCEPT !.penalties = v])
  BY DEF IsOptions
<1>3. \A d \in Dimensions : IsOptions([o EXCEPT !.enabled = o.enabled \cup {d}])
  BY DEF IsOptions
<1>4. ASSUME NEW d \in Dimensions, NEW args
      PROVE  IsOptions(Penalty(o, d, args))
  BY <1>2, <1>3 DEF Penalty, Refuse
<1>5. IsOptions(Refuse(o))
  BY <1>2 DEF Refuse
<1>6. CASE line.key = "penalty" /\ line.args # <<>> /\ line.args[1] \in Dimensions
  <2>1. ScoringLine(o, line) = Penalty(o, line.args[1], Tail(line.args))
    BY <1>6 DEF ScoringLine
  <2> QED BY <1>4, <1>6, <2>1
<1>7. CASE ~(line.key = "penalty" /\ line.args # <<>> /\ line.args[1] \in Dimensions)
  <2>1. \/ \E v : ScoringLine(o, line) \in {[o EXCEPT !.base = v], [o EXCEPT !.min = v], [o EXCEPT !.max = v],
                                         [o EXCEPT !.divisors = v]}
        \/ ScoringLine(o, line) = Refuse(o)
    BY <1>7 DEF ScoringLine
  <2> QED BY <1>1, <1>5, <2>1
<1> QED BY <1>6, <1>7

(* So a scoring sub-block enables only dimensions that exist.              *)
LEMMA OptionsParse ==
    ASSUME NEW lines, IsLines(lines)
    PROVE  IsOptions(parseScoringBlock(lines))
<1> DEFINE n == Len(lines)
           base == [ok |-> TRUE, base |-> <<>>, enabled |-> {}, penalties |-> <<>>,
                    min |-> None, max |-> None, divisors |-> <<>>]
<1> DEFINE g == CHOOSE g : g = [s \in SUBSET (1..n) |->
           IF s = {} THEN base ELSE ScoringLine(g[s \ {Max(s)}], lines[Max(s)])]
<1>0. n \in Nat /\ DOMAIN lines = 1..n
  BY DEF IsLines
<1>5. IsOptions(base)
  BY DEF IsOptions
<1>7. parseScoringBlock(lines) = g[1..n]
  BY <1>0 DEF parseScoringBlock, FoldLeft, MapThenFoldSet
<1> HIDE DEF n, base
<1>1. PICK h : Fold("scoring", base, lines, n, h)
  BY <1>0, FoldExists
<1>2. h = [s \in SUBSET (1..n) |->
           IF s = {} THEN base ELSE ScoringLine(h[s \ {Max(s)}], lines[Max(s)])]
  BY <1>1 DEF Fold, Read
<1>3. g = [s \in SUBSET (1..n) |->
           IF s = {} THEN base ELSE ScoringLine(g[s \ {Max(s)}], lines[Max(s)])]
  BY <1>2
<1> HIDE DEF g
<1>4. Fold("scoring", base, lines, n, g)
  BY <1>3 DEF Fold, Read
<1>6. Shaped("scoring", g[1..n])
  <2>1. Shaped("scoring", base)
    BY <1>5 DEF Shaped
  <2>2. \A acc : \A i \in 1..n : Shaped("scoring", acc) => Shaped("scoring", Read("scoring", acc, lines[i]))
    BY ScoringLineKeeps DEF Shaped, Read
  <2> QED BY <1>0, <1>4, <2>1, <2>2, FoldKeeps
<1> QED BY <1>6, <1>7 DEF Shaped

(* Whatever a line of a block says, with what follows in its sub-block.    *)
LEMMA LineKeeps ==
    ASSUME NEW b, IsBlock(b), NEW line, IsLines(line.block)
    PROVE  IsBlock(Line(b, line))
<1>1. \A f, v : f \in {"ok", "label", "city", "asn", "jwks", "session"} => IsBlock([b EXCEPT ![f] = v])
  BY DEF IsBlock, EnablesKnown, NewBlock
<1>2. IsBlock(Refuse(b))
  BY <1>1 DEF Refuse
<1>3. IsBlock([b EXCEPT !.scoring = parseScoringBlock(line.block)])
  <2>1. parseScoringBlock(line.block).enabled \subseteq Dimensions
    BY OptionsParse DEF IsOptions
  <2> QED BY <2>1 DEF IsBlock, EnablesKnown, NewBlock
<1>4. \/ \E v : Line(b, line) \in {[b EXCEPT !.label = v], [b EXCEPT !.city = v], [b EXCEPT !.asn = v],
                                   [b EXCEPT !.jwks = v], [b EXCEPT !.session = v]}
      \/ Line(b, line) \in {b, Refuse(b), [b EXCEPT !.scoring = parseScoringBlock(line.block)]}
  BY DEF Line
<1> QED BY <1>1, <1>2, <1>3, <1>4

(* So a block does, whichever of its scoring sub-blocks is the last.       *)
LEMMA BlocksParse ==
    ASSUME NEW lines, IsLines(lines), \A i \in DOMAIN lines : IsLines(lines[i].block)
    PROVE  IsBlock(UnmarshalCaddyfile(lines))
<1> DEFINE n == Len(lines)
           g == CHOOSE g : g = [s \in SUBSET (1..n) |->
                  IF s = {} THEN NewBlock ELSE Line(g[s \ {Max(s)}], lines[Max(s)])]
<1>0. n \in Nat /\ DOMAIN lines = 1..n
  BY DEF IsLines
<1>7. UnmarshalCaddyfile(lines) = g[1..n]
  BY <1>0 DEF UnmarshalCaddyfile, FoldLeft, MapThenFoldSet
<1> HIDE DEF n
<1>1. PICK h : Fold("block", NewBlock, lines, n, h)
  BY <1>0, FoldExists
<1>2. h = [s \in SUBSET (1..n) |->
           IF s = {} THEN NewBlock ELSE Line(h[s \ {Max(s)}], lines[Max(s)])]
  BY <1>1 DEF Fold, Read
<1>3. g = [s \in SUBSET (1..n) |->
           IF s = {} THEN NewBlock ELSE Line(g[s \ {Max(s)}], lines[Max(s)])]
  BY <1>2
<1> HIDE DEF g
<1>4. Fold("block", NewBlock, lines, n, g)
  BY <1>3 DEF Fold, Read
<1>5. Shaped("block", NewBlock)
  BY DEF Shaped, IsBlock, EnablesKnown, NewBlock
<1>6. \A acc : \A i \in 1..n : Shaped("block", acc) => Shaped("block", Read("block", acc, lines[i]))
  BY <1>0, LineKeeps DEF Shaped, Read
<1>8. Shaped("block", g[1..n])
  BY <1>0, <1>4, <1>5, <1>6, FoldKeeps
<1> QED BY <1>7, <1>8 DEF Shaped

-----------------------------------------------------------------------------
(* Dimensions that count nobody.                                           *)

(* Every reader in the pools is of some kind.                              *)
KnowsFound(p) == IsPool(p) /\ \A k \in DOMAIN p : "found" \in DOMAIN p[k] /\ p[k].found \in Opens

(* What both pools hold they hold alike.                                   *)
SameFound(p, q) == \A k \in DOMAIN p \cap DOMAIN q : q[k].found = p[k].found

(* A use keeps what was found, and finds something for a new key.          *)
LEMMA UseFound ==
    ASSUME NEW p, KnowsFound(p), NEW s, NEW found,
           s # None /\ Key[s] \notin DOMAIN p => found[Key[s]] \in Opens
    PROVE  /\ KnowsFound(Use(p, s, found)) /\ SameFound(p, Use(p, s, found))
           /\ DOMAIN p \subseteq DOMAIN Use(p, s, found)
<1>1. CASE s = None
  BY <1>1 DEF Use, SameFound
<1>2. CASE s # None
  <2> DEFINE key == Key[s]
             q == LoadOrNew(p, key, found[key])
  <2>1. Use(p, s, found) = q
    BY <1>2 DEF Use
  <2>2. IsPool(q)
    BY <2>1, UseFacts DEF KnowsFound
  <2>3. key \notin DOMAIN p => found[key] \in Opens
    BY <1>2
  <2> HIDE DEF key
  <2>4. CASE key \in DOMAIN p
    <3>1. q = [p EXCEPT ![key] = [p[key] EXCEPT !.refs = p[key].refs + 1]]
      BY <2>4 DEF LoadOrNew
    <3> HIDE DEF q
    <3>2. DOMAIN q = DOMAIN p /\ \A k \in DOMAIN p \ {key} : q[k] = p[k]
      BY <3>1
    <3>3. q[key] = [p[key] EXCEPT !.refs = p[key].refs + 1]
      BY <2>4, <3>1
    <3>4. "found" \in DOMAIN q[key] /\ q[key].found = p[key].found
      BY <2>4, <3>3 DEF KnowsFound
    <3> QED BY <1>2, <2>1, <2>2, <2>4, <3>2, <3>4 DEF KnowsFound, SameFound, key
  <2>5. CASE key \notin DOMAIN p
    <3>1. q = [k \in DOMAIN p \cup {key} |-> IF k = key THEN [refs |-> 1, found |-> found[key]] ELSE p[k]]
      BY <2>5 DEF LoadOrNew, Put
    <3> HIDE DEF q
    <3> QED BY <1>2, <2>1, <2>2, <2>3, <2>5, <3>1 DEF KnowsFound, SameFound, key
  <2> QED BY <2>4, <2>5
<1> QED BY <1>1, <1>2

(* A release keeps what was found of what it leaves.                       *)
LEMMA ReleaseFound ==
    ASSUME NEW p, KnowsFound(p), NEW s
    PROVE  /\ KnowsFound(Release(p, s)) /\ SameFound(p, Release(p, s))
           /\ DOMAIN Release(p, s) \subseteq DOMAIN p
<1>1. CASE s = None
  BY <1>1 DEF Release, SameFound
<1>2. CASE s # None
  <2> DEFINE key == Key[s]
             q == Delete(p, key)
  <2>1. Release(p, s) = q
    BY <1>2 DEF Release
  <2>2. IsPool(q)
    BY <2>1, ReleaseFacts DEF KnowsFound
  <2> HIDE DEF key
  <2>3. CASE key \notin DOMAIN p
    BY <2>1, <2>3 DEF Delete, SameFound
  <2>4. CASE key \in DOMAIN p /\ p[key].refs = 1
    <3>1. q = [k \in DOMAIN p \ {key} |-> p[k]]
      BY <2>4 DEF Delete, Drop, Restrict
    <3> HIDE DEF q
    <3> QED BY <2>1, <2>2, <3>1 DEF KnowsFound, SameFound
  <2>5. CASE key \in DOMAIN p /\ p[key].refs # 1
    <3>1. q = [p EXCEPT ![key] = [p[key] EXCEPT !.refs = p[key].refs - 1]]
      BY <2>5 DEF Delete
    <3> HIDE DEF q
    <3>2. DOMAIN q = DOMAIN p /\ \A k \in DOMAIN p \ {key} : q[k] = p[k]
      BY <3>1
    <3>3. q[key] = [p[key] EXCEPT !.refs = p[key].refs - 1]
      BY <2>5, <3>1
    <3>4. "found" \in DOMAIN q[key] /\ q[key].found = p[key].found
      BY <2>5, <3>3 DEF KnowsFound
    <3> QED BY <2>1, <2>2, <2>5, <3>2, <3>4 DEF KnowsFound, SameFound
  <2> QED BY <2>3, <2>4, <2>5
<1> QED BY <1>1, <1>2

(* So do the uses of a block.                                              *)
LEMMA AcquireFound ==
    ASSUME NEW p, KnowsFound(p), NEW b, NEW found,
           \A s \in Named(b) : Key[s] \notin DOMAIN p => found[Key[s]] \in Opens
    PROVE  /\ KnowsFound(acquire(p, b, found)) /\ SameFound(p, acquire(p, b, found))
           /\ DOMAIN p \subseteq DOMAIN acquire(p, b, found)
<1> DEFINE s1 == b.city
           s2 == b.asn
           s3 == b.jwks
           p1 == Use(p, s1, found)
           p2 == Use(p1, s2, found)
           p3 == Use(p2, s3, found)
<1>1. /\ s1 # None /\ Key[s1] \notin DOMAIN p => found[Key[s1]] \in Opens
      /\ s2 # None /\ Key[s2] \notin DOMAIN p => found[Key[s2]] \in Opens
      /\ s3 # None /\ Key[s3] \notin DOMAIN p => found[Key[s3]] \in Opens
  BY DEF Named, Settings
<1>5. acquire(p, b, found) = p3
  BY DEF acquire
<1> HIDE DEF s1, s2, s3
<1>2. KnowsFound(p1) /\ SameFound(p, p1) /\ DOMAIN p \subseteq DOMAIN p1
  BY <1>1, UseFound
<1> HIDE DEF p1
<1>3. KnowsFound(p2) /\ SameFound(p1, p2) /\ DOMAIN p1 \subseteq DOMAIN p2
  BY <1>1, <1>2, UseFound
<1> HIDE DEF p2
<1>4. KnowsFound(p3) /\ SameFound(p2, p3) /\ DOMAIN p2 \subseteq DOMAIN p3
  BY <1>1, <1>2, <1>3, UseFound
<1> HIDE DEF p3
<1> QED BY <1>2, <1>3, <1>4, <1>5 DEF SameFound

(* So do its releases.                                                     *)
LEMMA ReleaseAcquiredFound ==
    ASSUME NEW p, KnowsFound(p), NEW b
    PROVE  /\ KnowsFound(releaseAcquired(p, b)) /\ SameFound(p, releaseAcquired(p, b))
<1> DEFINE p1 == Release(p, b.city)
           p2 == Release(p1, b.asn)
           p3 == Release(p2, b.jwks)
<1>1. KnowsFound(p1) /\ SameFound(p, p1) /\ DOMAIN p1 \subseteq DOMAIN p
  BY ReleaseFound
<1> HIDE DEF p1
<1>2. KnowsFound(p2) /\ SameFound(p1, p2) /\ DOMAIN p2 \subseteq DOMAIN p1
  BY <1>1, ReleaseFound
<1> HIDE DEF p2
<1>3. KnowsFound(p3) /\ SameFound(p2, p3) /\ DOMAIN p3 \subseteq DOMAIN p2
  BY <1>2, ReleaseFound
<1> HIDE DEF p3
<1>4. releaseAcquired(p, b) = p3
  BY DEF releaseAcquired, p1, p2, p3
<1> QED BY <1>1, <1>2, <1>3, <1>4 DEF SameFound

-----------------------------------------------------------------------------
(* What Provision insists on is what makes some request count, unless what *)
(* opened is unfit.                                                        *)
LEMMA SilentUnfit ==
    ASSUME NEW b, EnablesKnown(b), NEW p,
           ~Unmet(b, Usable(p, b)), NEW found, found = FoundBy(p, b),
           \A s \in Named(b) : Found(p, s) \in Opens,
           NEW d \in Silent(b, found)
    PROVE  Unfit(d, b, found)
<1> DEFINE dims == resolveScoringConfig(b.scoring).dims
<1>1. /\ d \in DOMAIN dims \/ (d = "country" /\ \E e \in DOMAIN dims : dims[e].exempt # {})
      /\ \A q \in RequestKinds : dimensionKey(d, classify(b, found, q)) = None
  BY DEF Silent
<1>2. d \in Dimensions
  <2>1. DOMAIN dims \subseteq Dimensions
    BY DEF resolveScoringConfig, EnablesKnown
  <2> QED BY <1>1, <2>1 DEF Dimensions
<1> DEFINE v4 == [ip |-> "v4", token |-> "forged", cookie |-> "valid"]
           v6 == [ip |-> "v6", token |-> "forged", cookie |-> "valid"]
           known == [ip |-> "v4", token |-> "researcher", cookie |-> "absent"]
<1>3. v4 \in RequestKinds /\ v6 \in RequestKinds /\ known \in RequestKinds
  BY DEF RequestKinds, UserClasses, validClaimedUserClasses
<1>4. None \notin {"v4", "v6", "forged", "asn", "city", "jwks", "sub", "session", "researcher", "broken",
                  "unreachable"}
  BY NoneAssumption DEF UserClasses, validClaimedUserClasses
<1>5. \A s \in Usable(p, b) : s # None /\ Found(p, s) \notin {"broken", None}
  <2>1. None \notin Opens
    BY <1>4 DEF Opens, openGeoReader, openJWKSVerifier
  <2>2. \A s \in Usable(p, b) : s \in Named(b) /\ Found(p, s) # "broken"
    BY DEF Usable
  <2>3. None \notin Named(b)
    BY DEF Named
  <2> QED BY <2>1, <2>2, <2>3
<1>6. d \notin {"ip", "ipv4_subnet", "ipv6_subnet"}
  <2>1. /\ dimensionKey("ip", classify(b, found, v4)) = "v4"
        /\ dimensionKey("ipv4_subnet", classify(b, found, v4)) = "v4"
        /\ dimensionKey("ipv6_subnet", classify(b, found, v6)) = "v6"
    BY DEF dimensionKey, classify, bucketIPv4, bucketIPv6
  <2> QED BY <1>1, <1>3, <1>4, <2>1
<1>7. CASE d = "asn"
  <2>1. b.asn \in Usable(p, b)
    BY <1>1, <1>7 DEF Unmet
  <2>2. found.asn = Found(p, b.asn) /\ found.asn \notin {"broken", None}
    BY <1>5, <2>1 DEF FoundBy
  <2>3. ASSUME found.asn = "asn" PROVE FALSE
    <3>1. dimensionKey("asn", classify(b, found, v4)) = "asn"
      BY <1>4, <2>3 DEF dimensionKey, classify, lookup
    <3> QED BY <1>1, <1>3, <1>4, <1>7, <3>1
  <2> QED BY <1>7, <2>2, <2>3 DEF Unfit
<1>8. CASE d = "country"
  <2>1. b.city \in Usable(p, b)
    BY <1>1, <1>8 DEF Unmet
  <2>2. found.city = Found(p, b.city) /\ found.city \notin {"broken", None}
    BY <1>5, <2>1 DEF FoundBy
  <2>3. ASSUME found.city = "city" PROVE FALSE
    <3>1. dimensionKey("country", classify(b, found, v4)) = "city"
      BY <1>4, <2>3 DEF dimensionKey, classify, lookup
    <3> QED BY <1>1, <1>3, <1>4, <1>8, <3>1
  <2> QED BY <1>8, <2>2, <2>3 DEF Unfit
<1>9. CASE d = "user"
  <2>1. ~Checks(b.session)
    <3> SUFFICES ASSUME Checks(b.session) PROVE FALSE
      OBVIOUS
    <3>1. authenticate(found.jwks, v4).class \in {"anonymous", "unknown"}
      BY <1>4 DEF authenticate
    <3>2. applySession(authenticate(found.jwks, v4), b.session, v4).user = "session"
      BY <3>1 DEF applySession, validClaimedUserClasses
    <3>3. dimensionKey("user", classify(b, found, v4)) = "session"
      BY <3>2 DEF dimensionKey, classify
    <3> QED BY <1>1, <1>3, <1>4, <1>9, <3>3
  <2>2. b.jwks \in Usable(p, b)
    BY <1>1, <1>9, <2>1 DEF Unmet
  <2>3. found.jwks = Found(p, b.jwks) /\ found.jwks \notin {"broken", None}
    BY <1>5, <2>2 DEF FoundBy
  <2>4. ASSUME found.jwks = "jwks" PROVE FALSE
    <3>1. authenticate(found.jwks, known) = [class |-> "researcher", user |-> "sub"]
      BY <1>4, <2>4 DEF authenticate, validClaimedUserClasses
    <3>2. dimensionKey("user", classify(b, found, known)) = "sub"
      BY <3>1 DEF dimensionKey, classify, applySession
    <3> QED BY <1>1, <1>3, <1>4, <1>9, <3>2
  <2> QED BY <1>9, <2>1, <2>3, <2>4 DEF Unfit
<1> QED BY <1>2, <1>6, <1>7, <1>8, <1>9 DEF Dimensions

(* The key of a setting of a handler that runs is in the pools.            *)
LEMMA KeysHeld ==
    ASSUME NEW ld, NEW st, NEW p, NEW sc, NEW h, LoadOK(ld, st, p, sc, h), ld.phase # "failed",
           NEW i \in RunningIn(st), NEW s \in Named(ld.blocks[i])
    PROVE  Key[s] \in DOMAIN p
<1> DEFINE U == UsesIn(ld.blocks, RunningIn(st), Key[s])
<1>1. ld.phase # "refused"
  BY DEF LoadOK
<1>2. IsPool(p) /\ Refs(p, Key[s]) = Cardinality(U)
  BY <1>1 DEF LoadOK, PoolOK
<1>3. IsFiniteSet(U) /\ Cardinality(U) \in Nat
  BY StateFacts, UsesFinite DEF LoadOK
<1>4. PICK x \in Settings : s = ld.blocks[i][x] /\ s # None
  BY DEF Named
<1>5. <<i, x>> \in U
  BY <1>4 DEF UsesIn
<1> HIDE DEF U
<1>6. Cardinality(U) # 0
  BY <1>3, <1>5, FS_EmptySet
<1> QED BY <1>2, <1>3, <1>6, RefsFacts

(* What a block can use depends on what the pools hold for it alone.       *)
LEMMA UsableSame ==
    ASSUME NEW p, NEW q, SameFound(p, q), NEW b,
           \A s \in Named(b) : Key[s] \in DOMAIN p /\ Key[s] \in DOMAIN q
    PROVE  Usable(q, b) = Usable(p, b)
<1>1. \A s \in Named(b) : Found(q, s) = Found(p, s)
  BY DEF Found, SameFound
<1> QED BY <1>1 DEF Usable

(* A load's blocks enable dimensions that exist, and until it fails its    *)
(* running handlers have what Provision insists on.                        *)
PurposeOK(ld, st, p) ==
    /\ KnowsFound(p)
    /\ \A i \in DOMAIN st : EnablesKnown(ld.blocks[i])
    /\ ld.phase # "failed" => \A i \in RunningIn(st) : ~Unmet(ld.blocks[i], Usable(p, ld.blocks[i]))
PurposeInv == \A l \in Loads : PurposeOK(load[l], state[l], pool[l])

(* At first there are no blocks.                                           *)
LEMMA InitPurposeInv == Init => PurposeInv
<1> SUFFICES ASSUME Init, NEW l \in Loads PROVE PurposeOK(load[l], state[l], pool[l])
  BY DEF PurposeInv
<1>1. state[l] = <<>> /\ pool[l] = <<>>
  BY DEF Init
<1>2. DOMAIN state[l] = {} /\ DOMAIN pool[l] = {} /\ pool[l] = [k \in DOMAIN pool[l] |-> pool[l][k]]
  BY <1>1
<1> QED BY <1>2 DEF PurposeOK, KnowsFound, IsPool, RunningIn

(* What the pools hold for a handler that goes on running does not change. *)
LEMMA PoolChanges ==
    ASSUME NEW ld, NEW st, NEW p, NEW sc, NEW h, LoadOK(ld, st, p, sc, h), PurposeOK(ld, st, p),
           ld.phase # "failed",
           NEW st2, NEW q, NEW sc2, NEW h2, LoadOK(ld, st2, q, sc2, h2), KnowsFound(q), SameFound(p, q),
           NEW i \in RunningIn(st), i \in RunningIn(st2)
    PROVE  ~Unmet(ld.blocks[i], Usable(q, ld.blocks[i]))
<1>1. Usable(q, ld.blocks[i]) = Usable(p, ld.blocks[i])
  <2>1. \A s \in Named(ld.blocks[i]) : Key[s] \in DOMAIN p /\ Key[s] \in DOMAIN q
    BY KeysHeld
  <2> QED BY <2>1, UsableSame
<1> QED BY <1>1 DEF PurposeOK

(* A load that is adapted has the blocks that its lines parse to.          *)
LEMMA AdaptPurpose ==
    ASSUME LoadInv, PurposeInv, NEW l \in Loads, NEW c \in Configs[l], Adapt(l, c), NEW m \in Loads
    PROVE  PurposeOK(load'[m], state'[m], pool'[m])
<1>1. CASE m # l
  BY <1>1 DEF Adapt, PurposeInv, LoadInv, PerLoad
<1>2. CASE m = l
  <2> DEFINE blocks == [i \in DOMAIN c |-> UnmarshalCaddyfile(c[i])]
  <2>1. load'[l].blocks = blocks /\ state'[l] = [i \in DOMAIN c |-> "new"] /\ pool'[l] = pool[l]
    BY DEF Adapt, LoadInv, PerLoad
  <2>2. ASSUME NEW i \in DOMAIN c
        PROVE  EnablesKnown(blocks[i])
    <3>1. IsLines(c[i]) /\ \A j \in DOMAIN c[i] : IsLines(c[i][j].block)
      BY ConfigLoadAssumption DEF Loads
    <3>2. IsBlock(UnmarshalCaddyfile(c[i]))
      BY <3>1, BlocksParse
    <3> QED BY <3>2 DEF IsBlock, EnablesKnown
  <2> HIDE DEF blocks
  <2> QED BY <1>2, <2>1, <2>2 DEF PurposeOK, PurposeInv, RunningIn
<1> QED BY <1>1, <1>2

(* A handler runs when its validation found nothing unmet, and its readers *)
(* do not change those of the others.                                      *)
LEMMA ProvisionPurpose ==
    ASSUME LoadInv, LoadInv', PurposeInv, NEW l \in Loads, NEW i \in DOMAIN state[l], Provision(l, i),
           NEW m \in Loads
    PROVE  PurposeOK(load'[m], state'[m], pool'[m])
<1> DEFINE b == Block(l, i)
           new == {Key[s] : s \in Named(b)} \ DOMAIN pool[l]
<1>1. PICK found \in [new -> Opens] :
        LET q == acquire(pool[l], b, found) IN
        IF Unmet(b, Usable(q, b)) THEN Rejected(l, i, q) ELSE Provisioned(l, i, q)
  BY DEF Provision
<1> DEFINE q == acquire(pool[l], b, found)
<1>2. KnowsFound(pool[l]) /\ LoadOK(load[l], state[l], pool[l], scoring[l], handlers[l])
      /\ PurposeOK(load[l], state[l], pool[l]) /\ load[l].phase = "provisioning"
  BY DEF PurposeInv, PurposeOK, LoadInv, Provision
<1>3. KnowsFound(q) /\ SameFound(pool[l], q)
  <2>1. \A s \in Named(b) : Key[s] \notin DOMAIN pool[l] => found[Key[s]] \in Opens
    OBVIOUS
  <2> HIDE DEF b, new
  <2> QED BY <1>2, <2>1, AcquireFound
<1>4. b = load[l].blocks[i]
  BY DEF Block
<1> HIDE DEF q, b, new
<1>5. CASE m # l
  BY <1>1, <1>5 DEF Rejected, Provisioned, PurposeInv, LoadInv, PerLoad, q
<1>6. CASE m = l /\ Unmet(b, Usable(q, b))
  <2>1. Rejected(l, i, q)
    BY <1>1, <1>6 DEF q
  <2>2. KnowsFound(releaseAcquired(q, b)) /\ KnowsFound(releaseAcquired(releaseAcquired(q, b), b))
    BY <1>3, ReleaseAcquiredFound
  <2>3. pool'[l] \in {releaseAcquired(q, b), releaseAcquired(releaseAcquired(q, b), b)}
    BY <1>4, <2>1 DEF Rejected, Block, LoadInv, PerLoad
  <2>4. load'[l].phase = "failed" /\ load'[l].blocks = load[l].blocks /\ DOMAIN state'[l] = DOMAIN state[l]
    BY <1>2, <2>1 DEF Rejected, LoadInv, PerLoad, LoadOK
  <2> QED BY <1>2, <1>6, <2>2, <2>3, <2>4 DEF PurposeOK
<1>7. CASE m = l /\ ~Unmet(b, Usable(q, b))
  <2>1. Provisioned(l, i, q)
    BY <1>1, <1>7 DEF q
  <2>2. /\ load'[l] = load[l] /\ pool'[l] = q /\ DOMAIN state'[l] = DOMAIN state[l]
        /\ RunningIn(state'[l]) \subseteq RunningIn(state[l]) \cup {i}
    BY <1>2, <2>1 DEF Provisioned, LoadInv, PerLoad, RunningIn
  <2>3. LoadOK(load[l], state'[l], q, scoring'[l], handlers'[l])
    BY <2>2 DEF LoadInv
  <2>4. ASSUME NEW j \in RunningIn(state'[l])
        PROVE  ~Unmet(load[l].blocks[j], Usable(q, load[l].blocks[j]))
    <3>1. CASE j = i
      BY <1>4, <1>7, <3>1
    <3>2. CASE j # i
      <4>1. j \in RunningIn(state[l]) /\ load[l].phase # "failed"
        BY <1>2, <2>2, <3>2
      <4> QED BY <1>2, <1>3, <2>3, <4>1, PoolChanges
    <3> QED BY <3>1, <3>2
  <2> QED BY <1>2, <1>3, <1>7, <2>2, <2>4 DEF PurposeOK
<1> QED BY <1>5, <1>6, <1>7

(* A handler that is cleaned up takes no reader from the others.           *)
LEMMA CleanupPurpose ==
    ASSUME LoadInv, LoadInv', PurposeInv, NEW l \in Loads, NEW i \in DOMAIN state[l], Cleanup(l, i),
           NEW m \in Loads
    PROVE  PurposeOK(load'[m], state'[m], pool'[m])
<1> DEFINE q == releaseAcquired(pool[l], Block(l, i))
<1>1. LoadOK(load[l], state[l], pool[l], scoring[l], handlers[l]) /\ PurposeOK(load[l], state[l], pool[l])
  BY DEF PurposeInv, LoadInv
<1>2. KnowsFound(q) /\ SameFound(pool[l], q)
  BY <1>1, ReleaseAcquiredFound DEF PurposeOK
<1>3. /\ load'[l] = load[l] /\ pool'[l] = q /\ DOMAIN state'[l] = DOMAIN state[l]
      /\ RunningIn(state'[l]) \subseteq RunningIn(state[l])
  BY <1>1 DEF Cleanup, LoadInv, PerLoad, RunningIn
<1> HIDE DEF q
<1>4. LoadOK(load[l], state'[l], q, scoring'[l], handlers'[l])
  BY <1>3 DEF LoadInv
<1>5. CASE m # l
  BY <1>5 DEF Cleanup, PurposeInv, LoadInv, PerLoad
<1>6. load[l].phase # "failed" =>
        \A j \in RunningIn(state'[l]) : ~Unmet(load[l].blocks[j], Usable(q, load[l].blocks[j]))
  BY <1>1, <1>2, <1>3, <1>4, PoolChanges
<1>7. CASE m = l
  BY <1>1, <1>2, <1>3, <1>6, <1>7 DEF PurposeOK
<1> QED BY <1>5, <1>7

(* Every step keeps the invariant.                                         *)
LEMMA NextPurposeInv == LoadInv /\ PurposeInv /\ [Next]_vars => PurposeInv'
<1> SUFFICES ASSUME LoadInv, PurposeInv, [Next]_vars, NEW m \in Loads
             PROVE  PurposeOK(load'[m], state'[m], pool'[m])
  BY DEF PurposeInv
<1>1. LoadInv'
  BY NextLoadInv
<1>2. CASE UNCHANGED vars
  BY <1>2 DEF vars, PurposeInv
<1>3. ASSUME NEW l \in Loads, Serve(l) \/ Abandon(l)
      PROVE  PurposeOK(load'[m], state'[m], pool'[m])
  <2>1. state'[m] = state[m] /\ pool'[m] = pool[m] /\ load'[m].blocks = load[m].blocks
        /\ (load'[m].phase # "failed" => load[m].phase # "failed" \/ RunningIn(state[m]) = {})
    <3>1. "phase" \in DOMAIN load[m] /\ "blocks" \in DOMAIN load[m] /\ load = [x \in Loads |-> load[x]]
      BY DEF LoadInv, LoadOK, PerLoad
    <3>2. CASE Serve(l)
      BY <3>1, <3>2 DEF Serve, In
    <3>3. CASE Abandon(l)
      BY <3>1, <3>3 DEF Abandon, Running, RunningIn
    <3> QED BY <1>3, <3>2, <3>3
  <2> QED BY <2>1 DEF PurposeInv, PurposeOK
<1>4. ASSUME NEW l \in Loads, \/ \E c \in Configs[l] : Adapt(l, c)
                              \/ \E i \in DOMAIN state[l] : Provision(l, i) \/ Cleanup(l, i)
      PROVE  PurposeOK(load'[m], state'[m], pool'[m])
  BY <1>1, <1>4, AdaptPurpose, ProvisionPurpose, CleanupPurpose
<1> QED BY <1>2, <1>3, <1>4 DEF Next

(* For every Caddyfile, whatever lines enabled a dimension, whatever other *)
(* handlers share its readers and whenever they let go of them: a          *)
(* dimension of a handler that runs is silent only where the resource it   *)
(* needs did open and is unfit (fairness/module.go, Provision).            *)
THEOREM DimensionsServe == Spec => []SilentOnlyIfUnfit
<1>1. LoadInv /\ PurposeInv => SilentOnlyIfUnfit
  <2> SUFFICES ASSUME LoadInv, PurposeInv, NEW l \in Loads, NEW i \in Running(l),
                      load[l].phase # "failed",
                      NEW d \in Silent(Block(l, i), FoundBy(pool[l], Block(l, i)))
               PROVE  Unfit(d, Block(l, i), FoundBy(pool[l], Block(l, i)))
    BY DEF SilentOnlyIfUnfit
  <2> DEFINE b == Block(l, i)
             p == pool[l]
  <2>1. i \in RunningIn(state[l]) /\ i \in DOMAIN state[l] /\ b = load[l].blocks[i]
    BY DEF Running, RunningIn, Block
  <2>2. LoadOK(load[l], state[l], pool[l], scoring[l], handlers[l]) /\ PurposeOK(load[l], state[l], pool[l])
    BY DEF LoadInv, PurposeInv
  <2>3. EnablesKnown(b) /\ ~Unmet(b, Usable(p, b))
    BY <2>1, <2>2 DEF PurposeOK
  <2>4. \A s \in Named(b) : Found(p, s) \in Opens
    <3>1. \A s \in Named(b) : Key[s] \in DOMAIN p /\ s # None
      BY <2>1, <2>2, KeysHeld DEF Named
    <3> QED BY <2>2, <3>1 DEF PurposeOK, KnowsFound, Found
  <2>5. d \in Silent(b, FoundBy(p, b))
    OBVIOUS
  <2> HIDE DEF b, p
  <2>6. Unfit(d, b, FoundBy(p, b))
    BY <2>3, <2>4, <2>5, SilentUnfit
  <2> QED BY <2>6 DEF b, p
<1> QED BY <1>1, InitPurposeInv, NextPurposeInv, Invariance, PTL DEF Spec
=============================================================================
