---------------------------- MODULE ScoringProofs ----------------------------
(* Proofs about Scoring, for every set of requests, clients, dimensions and *)
(* penalties, and every interleaving of the requests with the two loops.   *)
EXTENDS Scoring, FiniteSetTheorems, TLAPS

Entry == [age : Nat, ewma : Nat, pending : Nat]
Loop == [alive : BOOLEAN, due : NoTick..MaxLag, todo : SUBSET Dims, lag : 0..MaxLag]
Counting == [step : {"count"}, client : Clients, lag : 0..MaxLag, todo : SUBSET Dims,
             charged : {{}}, penalty : {0}]

(* What this proof needs of the types: a request that no longer counts     *)
(* matters by its step alone.                                              *)
TypeInv ==
    /\ DOMAIN entries \subseteq Entities
    /\ entries \in [DOMAIN entries -> Entry]
    /\ serving = [r \in Requests |-> serving[r]]
    /\ \A r \in Requests : /\ "step" \in DOMAIN serving[r]
                           /\ serving[r].step = "count" =>
                                /\ serving[r] \in Counting
                                /\ serving[r].todo \subseteq DOMAIN serving[r].client.keys
    /\ loops \in [{"tick", "gc"} -> Loop]
    /\ sent \in [Entities -> Nat]

(* The loops live until stop is called.                                    *)
AliveInv == life = "running" => \A l \in {"tick", "gc"} : loops[l].alive

(* What waits for the next fold was seen since the last instant of the     *)
(* tick loop, give or take the lag of the request that saw it; in the pass *)
(* itself this holds of the dimensions the loop has not come to.           *)
FreshInv ==
    life = "running" =>
      \A e \in DOMAIN entries : entries[e].pending > 0 =>
        \/ entries[e].age <= MaxLag + loops["tick"].due + 1
        \/ e[1] \in loops["tick"].todo /\ entries[e].age <= 2 * MaxLag + 1

ScoringInv == TypeInv /\ AliveInv /\ FreshInv /\ EveryRequestCounted

(* The constants of scoring, as the proofs use them.                       *)
LEMMA ConstantFacts ==
    /\ MaxLag \in Nat /\ IdleTTL \in Nat \ {0} /\ Scale \in Nat \ {0} /\ AlphaInverse \in Nat \ {0}
    /\ Oldest \in Nat
    /\ \A e \in Entities : e[1] \in Dims
    /\ \A c \in Clients : \A d \in DOMAIN c.keys : d \in Dims /\ dimensionKey(d, c) \in Entities
                                                  /\ dimensionKey(d, c)[1] = d
BY ScoringAssumption DEF Oldest, Entities, dimensionKey

(* A rate that is blended with a count stays a rate.                       *)
LEMMA BlendNat == \A p, w \in Nat : blend(p, w) \in Nat
<1> SUFFICES ASSUME NEW p \in Nat, NEW w \in Nat PROVE blend(p, w) \in Nat
  OBVIOUS
<1>1. p * Scale \in Nat /\ (AlphaInverse - 1) * w \in Nat
  BY ConstantFacts
<1>2. \A n \in Nat : n \div AlphaInverse \in Nat
  BY ConstantFacts
<1> QED BY <1>1, <1>2 DEF blend

(* It grows with the requests and with what it was.                        *)
LEMMA BlendGrows ==
    ASSUME NEW p \in Int, NEW q \in Int, p <= q, NEW v \in Nat, NEW w \in Nat, v <= w
    PROVE  blend(p, v) <= blend(q, w)
<1>1. p * Scale <= q * Scale /\ p * Scale \in Int /\ q * Scale \in Int
  BY ConstantFacts
<1>2. /\ (AlphaInverse - 1) * v <= (AlphaInverse - 1) * w
      /\ (AlphaInverse - 1) * v \in Int /\ (AlphaInverse - 1) * w \in Int
  BY ConstantFacts
<1>3. \A m, n \in Int : m <= n => m \div AlphaInverse <= n \div AlphaInverse
  <2> SUFFICES ASSUME NEW m \in Int, NEW n \in Int, m <= n
               PROVE  m \div AlphaInverse <= n \div AlphaInverse
    OBVIOUS
  <2> DEFINE i == m \div AlphaInverse
             j == n \div AlphaInverse
  <2>1. /\ i \in Int /\ j \in Int
        /\ AlphaInverse * i <= m /\ n < AlphaInverse * (j + 1)
    BY ConstantFacts
  <2> HIDE DEF i, j
  <2>2. AlphaInverse * i < AlphaInverse * (j + 1)
    BY <2>1, ConstantFacts
  <2>3. i < j + 1
    BY <2>1, <2>2, ConstantFacts
  <2> QED BY <2>1, <2>3 DEF i, j
<1> QED BY <1>1, <1>2, <1>3 DEF blend

(* Scoring starts without an entry and without a request.                  *)
LEMMA InitScoringInv == Init => ScoringInv
<1> SUFFICES ASSUME Init PROVE ScoringInv
  OBVIOUS
<1> USE ConstantFacts DEF Init
<1>1. DOMAIN entries = {}
  OBVIOUS
<1>2. TypeInv
  <2>1. entries \in [DOMAIN entries -> Entry]
    BY <1>1
  <2>2. serving = [r \in Requests |-> serving[r]]
        /\ \A r \in Requests : "step" \in DOMAIN serving[r] /\ serving[r].step # "count"
    BY DEF Idle
  <2>3. loops \in [{"tick", "gc"} -> Loop]
    <3>1. Stopped \in Loop
      BY DEF Stopped, Loop, NoTick
    <3>2. \A x \in Loop : [x EXCEPT !.alive = TRUE] \in Loop
      BY DEF Loop
    <3> QED BY <3>1, <3>2
  <2>4. sent \in [Entities -> Nat]
    OBVIOUS
  <2> QED BY <1>1, <2>1, <2>2, <2>3, <2>4 DEF TypeInv
<1>3. AliveInv
  BY DEF AliveInv, Stopped
<1>4. FreshInv /\ EveryRequestCounted
  BY <1>1 DEF FreshInv, EveryRequestCounted, Seen
<1> QED BY <1>2, <1>3, <1>4 DEF ScoringInv

(* A step that touches neither entries, loops nor counts.                  *)
LEMMA ServingKeeps ==
    ASSUME ScoringInv, UNCHANGED <<entries, loops, life, sent>>, TypeInv'
    PROVE  ScoringInv'
BY DEF ScoringInv, AliveInv, FreshInv, EveryRequestCounted, Seen

(* A request is received: nothing is counted yet.                          *)
LEMMA ReceiveKeeps ==
    ASSUME ScoringInv, NEW r \in Requests, NEW c \in Clients, Receive(r, c)
    PROVE  ScoringInv'
<1> DEFINE new == [step |-> "count", client |-> c, lag |-> 0,
                   todo |-> DOMAIN c.keys, charged |-> {}, penalty |-> 0]
<1>1. new \in Counting /\ new.todo \subseteq DOMAIN new.client.keys /\ "step" \in DOMAIN new
  BY ConstantFacts DEF Counting
<1>2. serving' = [serving EXCEPT ![r] = new] /\ UNCHANGED <<entries, loops, life, sent>>
  BY DEF Receive, history
<1> HIDE DEF new
<1>3. TypeInv'
  BY <1>1, <1>2 DEF ScoringInv, TypeInv
<1> QED BY <1>2, <1>3, ServingKeeps

(* Scoring reads the entries and the answer ends the request.              *)
LEMMA ScoreKeeps ==
    ASSUME ScoringInv, NEW r \in Requests,
           \/ Tracked(r) \/ Respond(r)
           \/ \E d \in Dims : Charge(r, d)
           \/ \E present \in SUBSET DOMAIN Divisors : HandOff(r, present)
    PROVE  ScoringInv'
<1>1. UNCHANGED <<entries, loops, life, sent>>
  BY DEF Tracked, Respond, Charge, HandOff, history
<1>2. /\ serving' = [serving EXCEPT ![r] = serving'[r]]
      /\ "step" \in DOMAIN serving'[r] /\ serving'[r].step # "count"
  <2> USE DEF ScoringInv, TypeInv
  <2>1. CASE Tracked(r)
    BY <2>1 DEF Tracked, Counting
  <2>2. CASE Respond(r)
    BY <2>2 DEF Respond, Idle
  <2>3. ASSUME NEW d \in Dims, Charge(r, d)
        PROVE  /\ serving' = [serving EXCEPT ![r] = serving'[r]]
               /\ "step" \in DOMAIN serving'[r] /\ serving'[r].step # "count"
    BY <2>3 DEF Charge
  <2>4. ASSUME NEW present \in SUBSET DOMAIN Divisors, HandOff(r, present)
        PROVE  /\ serving' = [serving EXCEPT ![r] = serving'[r]]
               /\ "step" \in DOMAIN serving'[r] /\ serving'[r].step # "count"
    BY <2>4 DEF HandOff
  <2> QED BY <2>1, <2>2, <2>3, <2>4
<1>3. \A q \in Requests \ {r} : serving'[q] = serving[q]
  BY <1>2 DEF ScoringInv, TypeInv
<1>4. TypeInv'
  BY <1>1, <1>2, <1>3 DEF ScoringInv, TypeInv
<1> QED BY <1>1, <1>4, ServingKeeps

(* One request more is counted, and its entity has been seen MaxLag ago at *)
(* the earliest.                                                           *)
LEMMA TrackKeeps ==
    ASSUME ScoringInv, NEW r \in Requests, NEW d \in Dims, track(r, d)
    PROVE  ScoringInv'
<1> DEFINE e == dimensionKey(d, serving[r].client)
           new == Counted(e, serving[r].lag)
<1> USE ConstantFacts
<1>1. /\ serving[r] \in Counting /\ d \in serving[r].todo /\ serving[r].client \in Clients
      /\ serving[r].lag \in 0..MaxLag /\ e \in Entities
  BY DEF track, ScoringInv, TypeInv, Counting
<1>2. Seen(e) \in Entry
  BY DEF ScoringInv, TypeInv, Seen, Entry
<1>3. /\ entries' = [x \in DOMAIN entries \cup {e} |-> IF x = e THEN new ELSE entries[x]]
      /\ serving' = [serving EXCEPT ![r].todo = @ \ {d}]
      /\ sent' = [sent EXCEPT ![e] = @ + 1]
      /\ UNCHANGED <<loops, life>>
  BY DEF track
<1>4. /\ new \in Entry
      /\ new.age \in 0..MaxLag /\ new.pending = Seen(e).pending + 1
  <2>1. serving[r].lag \in Nat /\ Seen(e).pending + 1 \in Nat
    BY <1>1, <1>2 DEF Entry
  <2>2. new = [Seen(e) EXCEPT !.age = serving[r].lag, !.pending = Seen(e).pending + 1]
    BY DEF Counted
  <2> HIDE DEF new, e
  <2>3. new \in Entry /\ new.age = serving[r].lag /\ new.pending = Seen(e).pending + 1
    <3> SUFFICES ASSUME NEW s, s = Seen(e), NEW a, a = serving[r].lag, NEW p, p = Seen(e).pending + 1
                 PROVE  new \in Entry /\ new.age = a /\ new.pending = p
      OBVIOUS
    <3>1. s \in Entry /\ a \in Nat /\ p \in Nat
      BY <1>2, <2>1
    <3>2. new = [s EXCEPT !.age = a, !.pending = p]
      BY <2>2
    <3> QED BY <3>1, <3>2 DEF Entry
  <2> QED BY <1>1, <2>3
<1> HIDE DEF e, new
<1>5. TypeInv'
  <2>1. serving' = [q \in Requests |-> serving'[q]] /\ \A q \in Requests :
          /\ "step" \in DOMAIN serving'[q]
          /\ serving'[q].step = "count" =>
               serving'[q] \in Counting /\ serving'[q].todo \subseteq DOMAIN serving'[q].client.keys
    BY <1>1, <1>3 DEF ScoringInv, TypeInv, Counting
  <2>2. entries' \in [DOMAIN entries' -> Entry]
        /\ DOMAIN entries' \subseteq Entities
    BY <1>1, <1>3, <1>4 DEF ScoringInv, TypeInv
  <2>3. sent' \in [Entities -> Nat]
    BY <1>1, <1>3 DEF ScoringInv, TypeInv
  <2> QED BY <1>3, <2>1, <2>2, <2>3 DEF ScoringInv, TypeInv
<1>6. AliveInv'
  BY <1>3 DEF ScoringInv, AliveInv
<1>7. FreshInv'
  <2>1. loops["tick"].due \in NoTick..MaxLag
    BY DEF ScoringInv, TypeInv, Loop
  <2>2. new.age <= MaxLag + loops["tick"].due + 1
    BY <1>4, <2>1 DEF NoTick
  <2> QED BY <1>3, <2>2 DEF ScoringInv, FreshInv
<1>8. EveryRequestCounted'
  <2> SUFFICES ASSUME life = "running", NEW x \in Entities PROVE Seen(x)'.pending = sent'[x]
    BY <1>3 DEF EveryRequestCounted
  <2>1. Seen(x).pending = sent[x]
    BY DEF ScoringInv, EveryRequestCounted
  <2>2. CASE x = e
    BY <1>1, <1>3, <1>4, <2>1, <2>2 DEF Seen, ScoringInv, TypeInv
  <2>3. CASE x # e
    BY <1>3, <2>1, <2>3 DEF Seen, ScoringInv, TypeInv
  <2> QED BY <2>2, <2>3
<1> QED BY <1>5, <1>6, <1>7, <1>8 DEF ScoringInv

(* A pass starts and a loop exits without touching an entry.               *)
LEMMA LoopsKeep ==
    ASSUME ScoringInv, NEW l \in {"tick", "gc"}, StartPass(l) \/ LoopExit(l)
    PROVE  ScoringInv'
<1> USE ConstantFacts
<1>1. CASE StartPass(l)
  <2>1. /\ loops' = [loops EXCEPT ![l].todo = Dims, ![l].due = NoTick,
                                  ![l].lag = IF l = "gc" THEN loops[l].due ELSE 0]
        /\ loops[l].due # NoTick /\ UNCHANGED <<entries, serving, life, sent>>
    BY <1>1 DEF StartPass, history
  <2>2. loops' \in [{"tick", "gc"} -> Loop] /\ \A k \in {"tick", "gc"} : loops'[k].alive = loops[k].alive
    BY <2>1 DEF ScoringInv, TypeInv, Loop, NoTick
  <2>3. TypeInv' /\ AliveInv' /\ EveryRequestCounted'
    BY <2>1, <2>2 DEF ScoringInv, TypeInv, AliveInv, EveryRequestCounted, Seen
  <2>4. FreshInv'
    <3> SUFFICES ASSUME life = "running", NEW e \in DOMAIN entries, entries[e].pending > 0
                 PROVE  \/ entries[e].age <= MaxLag + loops'["tick"].due + 1
                        \/ e[1] \in loops'["tick"].todo /\ entries[e].age <= 2 * MaxLag + 1
      BY <2>1 DEF FreshInv
    <3>1. /\ e \in Entities /\ entries[e].age \in Nat /\ loops["tick"].due \in NoTick..MaxLag
          /\ \/ entries[e].age <= MaxLag + loops["tick"].due + 1
             \/ e[1] \in loops["tick"].todo /\ entries[e].age <= 2 * MaxLag + 1
      BY DEF ScoringInv, TypeInv, FreshInv, Loop, Entry
    <3>2. CASE l = "tick"
      <4>1. loops'["tick"].todo = Dims
        BY <2>1, <3>2 DEF ScoringInv, TypeInv, Loop
      <4> QED BY <3>1, <4>1 DEF NoTick
    <3>3. CASE l # "tick"
      <4>1. loops'["tick"] = loops["tick"]
        BY <2>1, <3>3 DEF ScoringInv, TypeInv, Loop
      <4> QED BY <3>1, <4>1
    <3> QED BY <3>2, <3>3
  <2> QED BY <2>3, <2>4 DEF ScoringInv
<1>2. CASE LoopExit(l)
  <2>1. life # "running" /\ loops' = [loops EXCEPT ![l] = Stopped]
        /\ UNCHANGED <<entries, serving, life, sent>>
    BY <1>2 DEF LoopExit, history
  <2>2. TypeInv'
    BY <2>1 DEF ScoringInv, TypeInv, Loop, Stopped, NoTick
  <2> QED BY <2>1, <2>2 DEF ScoringInv, AliveInv, FreshInv, EveryRequestCounted
<1> QED BY <1>1, <1>2

(* The rest of a pass: one dimension less to come to.                      *)
LEMMA PassRestType ==
    ASSUME NEW loop \in Loop, NEW d \in Dims
    PROVE  /\ PassRest(loop, d) \in Loop
           /\ PassRest(loop, d).alive = loop.alive /\ PassRest(loop, d).due = loop.due
           /\ PassRest(loop, d).todo = loop.todo \ {d}
<1>1. \A t \in SUBSET Dims, g \in 0..MaxLag :
        LET x == [loop EXCEPT !.todo = t, !.lag = g]
        IN  x \in Loop /\ x.alive = loop.alive /\ x.due = loop.due /\ x.todo = t
  BY DEF Loop
<1>2. loop.todo \ {d} \in SUBSET Dims
      /\ (IF loop.todo = {d} THEN 0 ELSE loop.lag) \in 0..MaxLag
  BY ConstantFacts DEF Loop
<1> DEFINE rest == [loop EXCEPT !.todo = loop.todo \ {d},
                                       !.lag = IF loop.todo = {d} THEN 0 ELSE loop.lag]
<1>3. PassRest(loop, d) = rest
  BY DEF PassRest
<1>4. rest \in Loop /\ rest.alive = loop.alive /\ rest.due = loop.due /\ rest.todo = loop.todo \ {d}
  BY <1>1, <1>2
<1> QED BY <1>3, <1>4

(* A tick folds the counts of its dimension and leaves the ages alone.     *)
LEMMA TickKeeps ==
    ASSUME ScoringInv, NEW d \in Dims, tick(d)
    PROVE  ScoringInv'
<1> USE ConstantFacts
<1> DEFINE loop == PassRest(loops["tick"], d)
<1>1. /\ loops' = [loops EXCEPT !["tick"] = loop]
      /\ entries' = [e \in DOMAIN entries |->
           IF e \in InDim(d) THEN Folded(entries[e]) ELSE entries[e]]
      /\ sent' = [e \in Entities |-> IF e \in InDim(d) THEN 0 ELSE sent[e]]
      /\ UNCHANGED <<serving, life>>
  BY DEF tick
<1>2. loop \in Loop /\ loop.alive = loops["tick"].alive /\ loop.due = loops["tick"].due
      /\ loop.todo = loops["tick"].todo \ {d}
  BY PassRestType DEF ScoringInv, TypeInv
<1> HIDE DEF loop
<1>3. \A e \in DOMAIN entries : /\ Folded(entries[e]) \in Entry
                                /\ Folded(entries[e]).pending = 0
  <2> SUFFICES ASSUME NEW e \in DOMAIN entries
               PROVE  /\ Folded(entries[e]) \in Entry
                      /\ Folded(entries[e]).pending = 0
    OBVIOUS
  <2>1. entries[e] \in Entry
    BY DEF ScoringInv, TypeInv
  <2>2. ewma(entries[e]) \in Nat
    BY <2>1, BlendNat DEF ewma, Entry
  <2>3. \A s \in Entry, w \in Nat : LET t == [s EXCEPT !.pending = 0, !.ewma = w]
                                   IN  t \in Entry /\ t.pending = 0
    BY DEF Entry
  <2> QED BY <2>1, <2>2, <2>3 DEF Folded
<1>4. TypeInv'
  BY <1>1, <1>2, <1>3 DEF ScoringInv, TypeInv
<1>5. AliveInv'
  BY <1>1, <1>2 DEF ScoringInv, AliveInv, TypeInv
<1>6. FreshInv'
  <2> SUFFICES ASSUME life = "running", NEW e \in DOMAIN entries, entries'[e].pending > 0
               PROVE  \/ entries'[e].age <= MaxLag + loops'["tick"].due + 1
                      \/ e[1] \in loops'["tick"].todo /\ entries'[e].age <= 2 * MaxLag + 1
    BY <1>1 DEF FreshInv
  <2>1. e \notin InDim(d) /\ entries'[e] = entries[e]
    BY <1>1, <1>3
  <2>2. e[1] # d
    BY <2>1 DEF InDim, ScoringInv, TypeInv
  <2>3. loops'["tick"].due = loops["tick"].due /\ loops'["tick"].todo = loops["tick"].todo \ {d}
    BY <1>1, <1>2 DEF ScoringInv, TypeInv
  <2> QED BY <2>1, <2>2, <2>3 DEF ScoringInv, FreshInv
<1>7. EveryRequestCounted'
  <2> SUFFICES ASSUME life = "running", NEW e \in Entities PROVE Seen(e)'.pending = sent'[e]
    BY <1>1 DEF EveryRequestCounted
  <2>1. Seen(e).pending = sent[e]
    BY DEF ScoringInv, EveryRequestCounted
  <2>2. CASE e \in InDim(d)
    BY <1>1, <1>3, <2>2 DEF Seen
  <2>3. CASE e \notin InDim(d)
    BY <1>1, <2>1, <2>3 DEF Seen
  <2> QED BY <2>2, <2>3
<1> QED BY <1>4, <1>5, <1>6, <1>7 DEF ScoringInv

(* gc deletes what is older than IdleTTL, and what waits for a fold is not *)
(* that old: here, and only here, the bound on the lag is needed.          *)
LEMMA GcKeeps ==
    ASSUME IdleTTL > 2 * MaxLag, ScoringInv, NEW d \in Dims, gc(d)
    PROVE  ScoringInv'
<1> USE ConstantFacts
<1> DEFINE loop == PassRest(loops["gc"], d)
           gone(e) == e \in InDim(d) /\ Reclaimable(e, loops["gc"].lag)
<1>1. /\ loops' = [loops EXCEPT !["gc"] = loop]
      /\ entries' = [e \in {x \in DOMAIN entries : ~gone(x)} |-> entries[e]]
      /\ UNCHANGED <<serving, life, sent>>
  BY DEF gc, Restrict, history
<1>2. loop \in Loop /\ loop.alive = loops["gc"].alive
  BY PassRestType DEF ScoringInv, TypeInv
<1> HIDE DEF loop
<1>3. ASSUME NEW e \in DOMAIN entries, gone(e), life = "running"
      PROVE  entries[e].pending = 0
  <2>1. /\ entries[e].age \in Nat /\ entries[e].pending \in Nat
        /\ loops["tick"].due \in NoTick..MaxLag /\ loops["gc"].lag \in 0..MaxLag
    BY DEF ScoringInv, TypeInv, Loop, Entry
  <2>2. entries[e].age > 2 * MaxLag + 1
    BY <1>3, <2>1 DEF Reclaimable
  <2>3. ~(entries[e].age <= MaxLag + loops["tick"].due + 1)
    BY <2>1, <2>2 DEF NoTick
  <2> QED BY <1>3, <2>1, <2>2, <2>3 DEF ScoringInv, FreshInv
<1> HIDE DEF gone
<1>4. TypeInv'
  BY <1>1, <1>2 DEF ScoringInv, TypeInv
<1>5. AliveInv'
  BY <1>1, <1>2 DEF ScoringInv, AliveInv, TypeInv
<1>6. FreshInv'
  BY <1>1 DEF ScoringInv, FreshInv, TypeInv
<1>7. EveryRequestCounted'
  <2> SUFFICES ASSUME life = "running", NEW e \in Entities PROVE Seen(e)'.pending = sent[e]
    BY <1>1 DEF EveryRequestCounted
  <2>1. Seen(e).pending = sent[e]
    BY DEF ScoringInv, EveryRequestCounted
  <2>2. CASE e \in DOMAIN entries /\ gone(e)
    BY <1>1, <1>3, <2>1, <2>2 DEF Seen
  <2>3. CASE ~(e \in DOMAIN entries /\ gone(e))
    BY <1>1, <2>1, <2>3 DEF Seen
  <2> QED BY <2>2, <2>3
<1> QED BY <1>4, <1>5, <1>6, <1>7 DEF ScoringInv

(* A unit passes: the tick loop is sent its instant, or acts on it late.   *)
LEMMA ElapseKeeps ==
    ASSUME ScoringInv, Elapse
    PROVE  ScoringInv'
<1> USE ConstantFacts
<1> DEFINE Older(e) == [entries[e] EXCEPT !.age = Lesser(@ + 1, Oldest)]
           rings(l) == l = "tick" \/ untilSweep = 1
<1>1. /\ \A r \in Requests : serving[r].step = "count" => serving[r].lag < MaxLag
      /\ \A l \in {"tick", "gc"} : loops[l].due < MaxLag /\ loops[l].todo = {}
      /\ entries' = [e \in DOMAIN entries |-> Older(e)]
      /\ serving' = [r \in Requests |->
           IF serving[r].step = "count" THEN [serving[r] EXCEPT !.lag = @ + 1] ELSE serving[r]]
      /\ loops' = [l \in {"tick", "gc"} |-> Ring(loops[l], rings(l))]
      /\ UNCHANGED <<life, sent>>
  BY DEF Elapse, ScoringInv, TypeInv, history
<1>2. \A e \in DOMAIN entries :
        /\ Older(e) \in Entry
        /\ Older(e).age <= entries[e].age + 1 /\ Older(e).pending = entries[e].pending
  <2> SUFFICES ASSUME NEW e \in DOMAIN entries
               PROVE  /\ Older(e) \in Entry
                      /\ Older(e).age <= entries[e].age + 1 /\ Older(e).pending = entries[e].pending
    OBVIOUS
  <2>1. entries[e] \in Entry /\ Lesser(entries[e].age + 1, Oldest) \in Nat
        /\ Lesser(entries[e].age + 1, Oldest) <= entries[e].age + 1
    BY DEF ScoringInv, TypeInv, Lesser, Entry
  <2>2. \A s \in Entry, a \in Nat : LET t == [s EXCEPT !.age = a]
                                   IN  t \in Entry /\ t.age = a /\ t.pending = s.pending
    BY DEF Entry
  <2> QED BY <2>1, <2>2
<1>3. \A l \in {"tick", "gc"} :
        /\ Ring(loops[l], rings(l)) \in Loop /\ Ring(loops[l], rings(l)).alive = loops[l].alive
        /\ loops[l].due # NoTick => Ring(loops[l], rings(l)).due = loops[l].due + 1
  <2> SUFFICES ASSUME NEW l \in {"tick", "gc"}, NEW b \in BOOLEAN
               PROVE  /\ Ring(loops[l], b) \in Loop /\ Ring(loops[l], b).alive = loops[l].alive
                      /\ loops[l].due # NoTick => Ring(loops[l], b).due = loops[l].due + 1
    OBVIOUS
  <2>1. loops[l] \in Loop /\ loops[l].due < MaxLag
    BY <1>1 DEF ScoringInv, TypeInv
  <2> QED BY <2>1 DEF Ring, Loop, NoTick
<1>4. life = "running" /\ loops["tick"].due = NoTick => Ring(loops["tick"], rings("tick")).due = 0
  BY DEF Ring, ScoringInv, AliveInv, TypeInv, Loop
<1> HIDE DEF Older, rings
<1>5. TypeInv'
  <2>1. \A r \in Requests :
          /\ "step" \in DOMAIN serving'[r]
          /\ serving'[r].step = "count" =>
               serving'[r] \in Counting /\ serving'[r].todo \subseteq DOMAIN serving'[r].client.keys
    <3> SUFFICES ASSUME NEW r \in Requests
                 PROVE  /\ "step" \in DOMAIN serving'[r]
                        /\ serving'[r].step = "count" =>
                             /\ serving'[r] \in Counting
                             /\ serving'[r].todo \subseteq DOMAIN serving'[r].client.keys
      OBVIOUS
    <3>1. CASE serving[r].step = "count"
      BY <1>1, <3>1 DEF ScoringInv, TypeInv, Counting
    <3>2. CASE serving[r].step # "count"
      BY <1>1, <3>2 DEF ScoringInv, TypeInv
    <3> QED BY <3>1, <3>2
  <2> QED BY <1>1, <1>2, <1>3, <2>1 DEF ScoringInv, TypeInv
<1>6. AliveInv'
  BY <1>1, <1>3 DEF ScoringInv, AliveInv
<1>7. FreshInv'
  <2> SUFFICES ASSUME life = "running", NEW e \in DOMAIN entries, entries[e].pending > 0
               PROVE  Older(e).age <= MaxLag + Ring(loops["tick"], rings("tick")).due + 1
    BY <1>1, <1>2 DEF FreshInv
  <2>1. loops["tick"].due \in NoTick..MaxLag /\ entries[e].age \in Nat /\ Older(e).age \in Nat
    BY <1>2 DEF ScoringInv, TypeInv, Loop, Entry
  <2>2. entries[e].age <= MaxLag + loops["tick"].due + 1
    BY <1>1 DEF ScoringInv, FreshInv
  <2>3. Ring(loops["tick"], rings("tick")).due = loops["tick"].due + 1
    BY <1>3, <1>4 DEF NoTick
  <2> QED BY <1>2, <2>1, <2>2, <2>3 DEF NoTick
<1>8. EveryRequestCounted'
  <2> SUFFICES ASSUME life = "running", NEW e \in Entities PROVE Seen(e)'.pending = sent[e]
    BY <1>1 DEF EveryRequestCounted
  <2>1. Seen(e).pending = sent[e]
    BY DEF ScoringInv, EveryRequestCounted
  <2> QED BY <1>1, <1>2, <2>1 DEF Seen
<1> QED BY <1>5, <1>6, <1>7, <1>8 DEF ScoringInv

(* Every step keeps the invariant.                                         *)
LEMMA NextScoringInv ==
    ASSUME IdleTTL > 2 * MaxLag
    PROVE  ScoringInv /\ [Next]_vars => ScoringInv'
<1> SUFFICES ASSUME ScoringInv, [Next]_vars PROVE ScoringInv'
  OBVIOUS
<1>1. CASE UNCHANGED <<entries, serving, loops, sent>> /\ (life' = "running" => life = "running")
  BY <1>1 DEF ScoringInv, TypeInv, AliveInv, FreshInv, EveryRequestCounted, Seen
<1>2. CASE Stop \/ StopReturn \/ UNCHANGED vars
  BY <1>1, <1>2 DEF Stop, StopReturn, vars, history
<1>3. ASSUME NEW r \in Requests, Request(r) \/ Respond(r) \/ \E c \in Clients : Receive(r, c)
      PROVE  ScoringInv'
  BY <1>3, ReceiveKeeps, ScoreKeeps, TrackKeeps DEF Request
<1>4. ASSUME NEW l \in {"tick", "gc"}, Background(l) \/ LoopExit(l)
      PROVE  ScoringInv'
  BY <1>4, LoopsKeep, TickKeeps, GcKeeps DEF Background
<1>5. DOMAIN loops = {"tick", "gc"}
  BY DEF ScoringInv, TypeInv
<1> QED BY <1>2, <1>3, <1>4, <1>5, ElapseKeeps DEF Next

(* Until stop both loops run, what waits to be folded was seen recently,   *)
(* and the counts are complete.                                            *)
THEOREM Invariance ==
    ASSUME IdleTTL > 2 * MaxLag
    PROVE  Spec => []ScoringInv
BY InitScoringInv, NextScoringInv, PTL DEF Spec

(* Until stop, what the next tick will fold into an entity's rate is what  *)
(* was tracked since the last one (scoring.go: track, tick, gc): gc        *)
(* deletes no entry with a count that waits to be folded. It supposes that *)
(* goroutines lag by less than half of idle_entry_ttl; an entry counted    *)
(* just before a late pass could otherwise be old enough to be deleted.    *)
THEOREM RequestsCounted ==
    ASSUME IdleTTL > 2 * MaxLag
    PROVE  Spec => []EveryRequestCounted
<1>1. ScoringInv => EveryRequestCounted
  BY DEF ScoringInv
<1> QED BY <1>1, Invariance, PTL

-----------------------------------------------------------------------------
(* What is charged. The history says how often an entity was counted, the  *)
(* requests that are to count it bounded by MaxPending.                    *)

HistoryInv == quiet \in [Entities -> 0..QuietTicks] /\ busy \in [Entities -> 0..BusyTicks]

CountInv ==
    \A e \in Entities : /\ Seen(e).pending <= sent[e]
                         /\ sent[e] + Cardinality(Awaiting(e)) <= MaxPending

(* What is left to read are dimensions the client's country is not exempt  *)
(* from.                                                                   *)
ScoreInv ==
    \A r \in Requests : serving[r].step = "score" =>
      /\ {"client", "todo", "charged", "penalty"} \subseteq DOMAIN serving[r]
      /\ serving[r].client \in Clients
      /\ \A d \in serving[r].todo :
           d \in DOMAIN serving[r].client.keys /\ ~Exempt(d, serving[r].client)

RateInv == ScoringInv /\ HistoryInv /\ CountInv /\ ScoreInv

(* An entry of dimension d and the given age is at most b older than the   *)
(* last instant of the tick loop, or the pass has still to come to it.     *)
Within(age, loop, d, b) ==
    age <= b + loop.due + 1 \/ (d \in loop.todo /\ age <= b + MaxLag + 1)

(* A rate is at most what so many quiet ticks leave of it.                 *)
CoolInv(cool) == \A e \in Entities : Seen(e).ewma <= cool[e[1]][quiet[e]]

(* Until stop, an entity that was busy at its last tick is tracked and was *)
(* seen MaxLag before the tick loop came to it at the earliest, and its    *)
(* rate has climbed.                                                       *)
ClimbInv(climb) ==
    life = "running" =>
      \A e \in Entities :
        /\ climb[e[1]][busy[e]] <= Seen(e).ewma
        /\ busy[e] > 0 => /\ e \in DOMAIN entries
                          /\ Within(entries[e].age, loops["tick"], e[1], 2 * MaxLag + 1)

(* Until stop, a rate has faded over all but the first of the ticks since  *)
(* its entity was last seen, and these come MaxLag + 1 apart at most.      *)
Bound(n) == 2 * MaxLag + 1 + n * (MaxLag + 1)
FadedBy(n, age, loop, d) == n = IdleTTL \/ Within(age, loop, d, Bound(n))
FadeInv(fade) ==
    life = "running" =>
      \A e \in DOMAIN entries : \E n \in 0..IdleTTL :
        /\ entries[e].ewma <= fade[e[1]][n]
        /\ FadedBy(n, entries[e].age, loops["tick"], e[1])
-----------------------------------------------------------------------------
(* What a step does to one entity: a tick folds its count, gc drops it, or *)
(* its rate and its history stay and it ages no faster than the tick loop. *)

Folds(e) ==
    /\ UNCHANGED life /\ e[1] \in loops["tick"].todo /\ loops'["tick"].due = loops["tick"].due
    /\ e \in DOMAIN entries' <=> e \in DOMAIN entries
    /\ e \in DOMAIN entries => entries'[e].age = entries[e].age
    /\ Seen(e)'.ewma = blend(Seen(e).pending, Seen(e).ewma)
    /\ quiet'[e] = IF sent[e] < PenaltyFor[e[1]].soft THEN Lesser(quiet[e] + 1, QuietTicks) ELSE 0
    /\ busy'[e] = IF sent[e] > PenaltyFor[e[1]].soft THEN Lesser(busy[e] + 1, BusyTicks) ELSE 0

Drops(e) ==
    /\ UNCHANGED life /\ quiet'[e] = quiet[e] /\ busy'[e] = busy[e]
    /\ e \in DOMAIN entries /\ e \notin DOMAIN entries' /\ Reclaimable(e, loops["gc"].lag)

Keeps(e) ==
    /\ quiet'[e] = quiet[e] /\ busy'[e] = busy[e] /\ Seen(e)'.ewma = Seen(e).ewma
    /\ e \in DOMAIN entries => e \in DOMAIN entries'
    /\ life' = "running" =>
         /\ life = "running"
         /\ e \in DOMAIN entries => \A b \in Nat :
              b >= MaxLag /\ Within(entries[e].age, loops["tick"], e[1], b) =>
                Within(entries'[e].age, loops'["tick"], e[1], b)

(* The state of one entity and of the tick loop, as the lemmas use it.     *)
LEMMA EntityFacts ==
    ASSUME ScoringInv, NEW e \in Entities
    PROVE  /\ Seen(e) \in Entry /\ Seen(e).ewma \in Nat /\ Seen(e).pending \in Nat
           /\ e \in DOMAIN entries => entries[e] = Seen(e) /\ entries[e].age \in Nat
           /\ loops["tick"].due \in -1..MaxLag /\ loops["gc"].lag \in 0..MaxLag
           /\ loops["tick"].todo \in SUBSET Dims /\ e[1] \in Dims /\ sent[e] \in Nat
BY ConstantFacts DEF ScoringInv, TypeInv, Seen, Entry, Loop, NoTick

(* Nothing happens to the entries, nor to the tick loop.                   *)
LEMMA NothingKeeps ==
    ASSUME NEW e \in Entities, UNCHANGED <<entries, quiet, busy>>,
           life' = "running" => life = "running" /\ loops'["tick"] = loops["tick"]
    PROVE  Keeps(e)
BY DEF Keeps, Seen

(* A step of a request, which may count it.                                *)
LEMMA RequestEffect ==
    ASSUME ScoringInv, NEW e \in Entities, NEW r \in Requests,
           Request(r) \/ Respond(r) \/ \E c \in Clients : Receive(r, c)
    PROVE  Keeps(e)
<1>1. ASSUME NEW d \in Dims, track(r, d)
      PROVE  Keeps(e)
  <2> DEFINE x == dimensionKey(d, serving[r].client)
             new == Counted(x, serving[r].lag)
  <2>1. /\ entries' = [y \in DOMAIN entries \cup {x} |-> IF y = x THEN new ELSE entries[y]]
        /\ UNCHANGED <<loops, life, quiet, busy>>
    BY <1>1 DEF track
  <2>2. serving[r].lag \in 0..MaxLag /\ x \in Entities
    BY <1>1, ConstantFacts DEF track, ScoringInv, TypeInv, Counting
  <2>3. new.age = serving[r].lag /\ new.ewma = Seen(x).ewma
    <3>1. Seen(x) \in Entry
      BY <2>2, EntityFacts
    <3>2. \A a, p : \A s \in Entry : LET n == [s EXCEPT !.age = a, !.pending = p]
                                 IN  n.age = a /\ n.ewma = s.ewma
      BY DEF Entry
    <3>3. new = [Seen(x) EXCEPT !.age = serving[r].lag, !.pending = Seen(x).pending + 1]
      BY <3>1 DEF Counted, Entry
    <3> QED BY <3>1, <3>2, <3>3
  <2> HIDE DEF x, new
  <2>4. Seen(e)'.ewma = Seen(e).ewma
    BY <2>1, <2>3 DEF Seen
  <2>5. ASSUME NEW b \in Nat, b >= MaxLag, e \in DOMAIN entries,
               Within(entries[e].age, loops["tick"], e[1], b)
        PROVE  Within(entries'[e].age, loops'["tick"], e[1], b)
    <3>1. CASE e = x
      BY <2>1, <2>2, <2>3, <2>5, <3>1, EntityFacts, ConstantFacts DEF Within
    <3>2. CASE e # x
      BY <2>1, <2>5, <3>2
    <3> QED BY <3>1, <3>2
  <2> QED BY <2>1, <2>4, <2>5 DEF Keeps
<1>2. CASE \/ Tracked(r) \/ Respond(r) \/ \E d \in Dims : Charge(r, d)
           \/ \E present \in SUBSET DOMAIN Divisors : HandOff(r, present)
           \/ \E c \in Clients : Receive(r, c)
  BY <1>2, NothingKeeps DEF Tracked, Respond, Charge, HandOff, Receive, history
<1> QED BY <1>1, <1>2 DEF Request

(* The pass of the tick loop over one dimension.                           *)
LEMMA TickEffect ==
    ASSUME ScoringInv, NEW e \in Entities, NEW d \in Dims, tick(d)
    PROVE  Folds(e) \/ Keeps(e)
<1> DEFINE loop == PassRest(loops["tick"], d)
<1>1. /\ d \in loops["tick"].todo
      /\ loops' = [loops EXCEPT !["tick"] = loop]
      /\ entries' = [x \in DOMAIN entries |->
           IF x \in InDim(d) THEN Folded(entries[x]) ELSE entries[x]]
      /\ UNCHANGED life
  BY DEF tick
<1>2. loop.due = loops["tick"].due /\ loop.todo = loops["tick"].todo \ {d}
      /\ loops'["tick"] = loop
  BY <1>1, PassRestType DEF ScoringInv, TypeInv
<1> HIDE DEF loop
<1>3. CASE e \in InDim(d)
  <2>1. e[1] = d
    BY <1>3 DEF InDim
  <2>2. /\ quiet'[e] = IF sent[e] < PenaltyFor[d].soft THEN Lesser(quiet[e] + 1, QuietTicks) ELSE 0
        /\ busy'[e] = IF sent[e] > PenaltyFor[d].soft THEN Lesser(busy[e] + 1, BusyTicks) ELSE 0
    BY <1>3 DEF tick
  <2>3. ASSUME e \in DOMAIN entries
        PROVE  /\ entries'[e].age = entries[e].age
               /\ entries'[e].ewma = blend(entries[e].pending, entries[e].ewma)
    <3>1. entries[e] \in Entry
      BY <2>3 DEF ScoringInv, TypeInv
    <3>2. \A w : \A s \in Entry : LET n == [s EXCEPT !.pending = 0, !.ewma = w]
                              IN  n.age = s.age /\ n.ewma = w
      BY DEF Entry
    <3>3. Folded(entries[e]).age = entries[e].age /\ Folded(entries[e]).ewma = ewma(entries[e])
      BY <3>1, <3>2 DEF Folded
    <3> QED BY <1>1, <1>3, <2>3, <3>3 DEF ewma
  <2>4. Seen(e)'.ewma = blend(Seen(e).pending, Seen(e).ewma)
    <3>1. CASE e \in DOMAIN entries
      BY <1>1, <2>3, <3>1 DEF Seen
    <3>2. CASE e \notin DOMAIN entries
      <4>1. 0 * Scale + (AlphaInverse - 1) * 0 = 0 /\ 0 \div AlphaInverse = 0
        BY ConstantFacts
      <4> QED BY <1>1, <3>2, <4>1 DEF Seen, blend
    <3> QED BY <3>1, <3>2
  <2> QED BY <1>1, <1>2, <2>1, <2>2, <2>3, <2>4 DEF Folds
<1>4. CASE e \notin InDim(d)
  <2>1. e[1] # d /\ quiet'[e] = quiet[e] /\ busy'[e] = busy[e]
    BY <1>4 DEF InDim, tick
  <2>2. e \in DOMAIN entries => entries'[e] = entries[e]
    BY <1>1, <1>4
  <2>3. Seen(e)'.ewma = Seen(e).ewma
    BY <1>1, <2>2 DEF Seen
  <2> QED BY <1>1, <1>2, <2>1, <2>2, <2>3 DEF Keeps, Within
<1> QED BY <1>3, <1>4

(* The sweep over one dimension.                                           *)
LEMMA GcEffect ==
    ASSUME ScoringInv, NEW e \in Entities, NEW d \in Dims, gc(d)
    PROVE  Drops(e) \/ Keeps(e)
<1> DEFINE gone(x) == x \in InDim(d) /\ Reclaimable(x, loops["gc"].lag)
<1>1. /\ entries' = [x \in {y \in DOMAIN entries : ~gone(y)} |-> entries[x]]
      /\ loops' = [loops EXCEPT !["gc"] = PassRest(@, d)]
      /\ UNCHANGED <<life, quiet, busy>>
  BY DEF gc, Restrict, history
<1>2. loops'["tick"] = loops["tick"]
  BY <1>1 DEF ScoringInv, TypeInv
<1>3. CASE e \in DOMAIN entries /\ gone(e)
  BY <1>1, <1>3 DEF Drops
<1>4. CASE ~(e \in DOMAIN entries /\ gone(e))
  BY <1>1, <1>2, <1>4 DEF Keeps, Seen
<1> QED BY <1>3, <1>4

(* A loop starts a pass or exits.                                          *)
LEMMA LoopEffect ==
    ASSUME ScoringInv, NEW e \in Entities, NEW l \in {"tick", "gc"}, StartPass(l) \/ LoopExit(l)
    PROVE  Keeps(e)
<1>1. CASE LoopExit(l)
  BY <1>1, NothingKeeps DEF LoopExit, history
<1>2. CASE StartPass(l) /\ l = "gc"
  <2>1. loops'["tick"] = loops["tick"]
    BY <1>2 DEF StartPass, ScoringInv, TypeInv
  <2> QED BY <1>2, <2>1, NothingKeeps DEF StartPass, history
<1>3. CASE StartPass(l) /\ l = "tick"
  <2>1. loops'["tick"].todo = Dims /\ UNCHANGED <<entries, life, quiet, busy>>
    BY <1>3 DEF StartPass, ScoringInv, TypeInv, Loop, history
  <2>2. ASSUME NEW b \in Nat, e \in DOMAIN entries,
               Within(entries[e].age, loops["tick"], e[1], b)
        PROVE  Within(entries'[e].age, loops'["tick"], e[1], b)
    BY <2>1, <2>2, EntityFacts, ConstantFacts DEF Within
  <2> QED BY <2>1, <2>2 DEF Keeps, Seen
<1> QED BY <1>1, <1>2, <1>3

(* A unit passes: entries age by it, and so does the tick loop's instant.  *)
LEMMA ElapseEffect ==
    ASSUME ScoringInv, NEW e \in Entities, Elapse
    PROVE  Keeps(e)
<1> DEFINE older == [entries[e] EXCEPT !.age = Lesser(@ + 1, Oldest)]
<1>1. /\ loops["tick"].todo = {}
      /\ DOMAIN entries' = DOMAIN entries
      /\ e \in DOMAIN entries => entries'[e] = older
      /\ loops'["tick"] = Ring(loops["tick"], TRUE)
      /\ UNCHANGED <<life, quiet, busy>>
  BY DEF Elapse, ScoringInv, TypeInv, history
<1>2. e \in DOMAIN entries =>
        /\ older.age \in Nat /\ older.age <= entries[e].age + 1 /\ older.ewma = entries[e].ewma
  <2> SUFFICES ASSUME e \in DOMAIN entries
               PROVE  /\ older.age \in Nat /\ older.age <= entries[e].age + 1
                      /\ older.ewma = entries[e].ewma
    OBVIOUS
  <2>1. entries[e] \in Entry /\ entries[e].age \in Nat
    BY EntityFacts
  <2>2. Lesser(entries[e].age + 1, Oldest) \in Nat
        /\ Lesser(entries[e].age + 1, Oldest) <= entries[e].age + 1
    BY <2>1, ConstantFacts DEF Lesser
  <2>3. \A a : \A s \in Entry : LET n == [s EXCEPT !.age = a] IN n.age = a /\ n.ewma = s.ewma
    BY DEF Entry
  <2> QED BY <2>1, <2>2, <2>3
<1>3. life = "running" => loops'["tick"].due = loops["tick"].due + 1
  BY <1>1 DEF Ring, ScoringInv, AliveInv, TypeInv, Loop, NoTick
<1> HIDE DEF older
<1>4. Seen(e)'.ewma = Seen(e).ewma
  BY <1>1, <1>2 DEF Seen
<1>5. ASSUME NEW b \in Nat, e \in DOMAIN entries, life = "running",
             Within(entries[e].age, loops["tick"], e[1], b)
      PROVE  Within(entries'[e].age, loops'["tick"], e[1], b)
  <2>1. entries[e].age <= b + loops["tick"].due + 1
    BY <1>1, <1>5 DEF Within
  <2>2. older.age <= b + loops'["tick"].due + 1
    BY <1>2, <1>3, <1>5, <2>1, EntityFacts
  <2> QED BY <1>1, <1>5, <2>2 DEF Within
<1> QED BY <1>1, <1>4, <1>5 DEF Keeps

(* Every step does one of the three to an entity.                          *)
LEMMA EntityStep ==
    ASSUME ScoringInv, NEW e \in Entities, [Next]_vars
    PROVE  Folds(e) \/ Drops(e) \/ Keeps(e)
<1>1. CASE Stop \/ StopReturn \/ UNCHANGED vars
  BY <1>1, NothingKeeps DEF Stop, StopReturn, vars, history
<1>2. ASSUME NEW l \in {"tick", "gc"}, Background(l) \/ LoopExit(l)
      PROVE  Folds(e) \/ Drops(e) \/ Keeps(e)
  BY <1>2, LoopEffect, TickEffect, GcEffect DEF Background
<1>3. DOMAIN loops = {"tick", "gc"}
  BY DEF ScoringInv, TypeInv
<1> QED BY <1>1, <1>2, <1>3, RequestEffect, ElapseEffect DEF Next

-----------------------------------------------------------------------------
(* The invariant of requests, counts and history.                          *)

(* The requests that are to count an entity are finitely many.             *)
LEMMA AwaitingFinite ==
    ASSUME NEW T \in SUBSET Requests
    PROVE  IsFiniteSet(T) /\ Cardinality(T) \in Nat
BY ScoringAssumption, FS_Subset, FS_CardinalityType

(* Scoring starts with quiet entities and nobody to count.                 *)
LEMMA InitRateInv == Init => RateInv
<1> SUFFICES ASSUME Init PROVE RateInv
  OBVIOUS
<1>1. HistoryInv /\ ScoreInv
  BY ScoringAssumption DEF Init, HistoryInv, ScoreInv, Idle
<1>2. ASSUME NEW e \in Entities
      PROVE  Seen(e).pending <= sent[e] /\ sent[e] + Cardinality(Awaiting(e)) <= MaxPending
  <2>1. Awaiting(e) = {}
    BY DEF Awaiting, Init, Idle
  <2>2. Seen(e).pending = 0 /\ sent[e] = 0
    BY DEF Init, Seen
  <2> QED BY <2>1, <2>2, FS_EmptySet, ScoringAssumption
<1> QED BY <1>1, <1>2, InitScoringInv DEF RateInv, CountInv

(* The history of an entity changes in a tick only.                        *)
LEMMA NextHistoryInv ==
    ASSUME RateInv, [Next]_vars
    PROVE  HistoryInv'
<1>1. ASSUME NEW e \in Entities
      PROVE  quiet'[e] \in 0..QuietTicks /\ busy'[e] \in 0..BusyTicks
  BY EntityStep, ScoringAssumption DEF RateInv, HistoryInv, Folds, Drops, Keeps, Lesser
<1>2. quiet' = [e \in Entities |-> quiet'[e]] /\ busy' = [e \in Entities |-> busy'[e]]
  <2>1. CASE UNCHANGED <<quiet, busy>>
    BY <2>1 DEF RateInv, HistoryInv
  <2>2. ASSUME NEW d \in Dims, tick(d)
        PROVE  quiet' = [e \in Entities |-> quiet'[e]] /\ busy' = [e \in Entities |-> busy'[e]]
    BY <2>2 DEF tick
  <2>3. UNCHANGED <<quiet, busy>> \/ \E d \in Dims : tick(d)
    <3>1. \A r \in Requests :
            Request(r) \/ Respond(r) \/ (\E c \in Clients : Receive(r, c)) => UNCHANGED <<quiet, busy>>
      <4> SUFFICES ASSUME NEW r \in Requests
                   PROVE  Request(r) \/ Respond(r) \/ (\E c \in Clients : Receive(r, c))
                            => UNCHANGED <<quiet, busy>>
        OBVIOUS
      <4>1. \A d \in Dims : (track(r, d) => UNCHANGED <<quiet, busy>>)
        BY DEF track, history
      <4>2. \A d \in Dims : (Charge(r, d) => UNCHANGED <<quiet, busy>>)
        BY DEF Charge, history
      <4>3. Tracked(r) \/ Respond(r) => UNCHANGED <<quiet, busy>>
        BY DEF Tracked, Respond, history
      <4>4. \A present \in SUBSET DOMAIN Divisors : (HandOff(r, present) => UNCHANGED <<quiet, busy>>)
        BY DEF HandOff, history
      <4>5. \A c \in Clients : (Receive(r, c) => UNCHANGED <<quiet, busy>>)
        BY DEF Receive, history
      <4> QED BY <4>1, <4>2, <4>3, <4>4, <4>5 DEF Request
    <3>2. \A l \in DOMAIN loops :
            Background(l) \/ LoopExit(l) => UNCHANGED <<quiet, busy>> \/ \E d \in Dims : tick(d)
      BY DEF Background, StartPass, gc, LoopExit, history
    <3>3. Stop \/ StopReturn \/ Elapse \/ UNCHANGED vars => UNCHANGED <<quiet, busy>>
      BY DEF Stop, StopReturn, Elapse, vars, history
    <3> QED BY <3>1, <3>2, <3>3 DEF Next
  <2> QED BY <2>1, <2>2, <2>3
<1> QED BY <1>1, <1>2 DEF HistoryInv

(* A request reads dimensions it is not exempt from, each once.            *)
LEMMA NextScoreInv ==
    ASSUME RateInv, [Next]_vars
    PROVE  ScoreInv'
<1> DEFINE OK(q) == q.step = "score" =>
             /\ {"client", "todo", "charged", "penalty"} \subseteq DOMAIN q /\ q.client \in Clients
             /\ \A d \in q.todo : d \in DOMAIN q.client.keys /\ ~Exempt(d, q.client)
<1>1. \A q \in Requests : OK(serving[q])
  BY DEF RateInv, ScoreInv
<1>2. serving = [q \in Requests |-> serving[q]] /\ \A q \in Requests : "step" \in DOMAIN serving[q]
      /\ (serving[q].step = "count" => serving[q] \in Counting)
  BY DEF RateInv, ScoringInv, TypeInv
<1>3. ASSUME NEW r \in Requests, Request(r) \/ Respond(r) \/ \E c \in Clients : Receive(r, c)
      PROVE  \A q \in Requests : OK(serving'[q])
  <2>1. serving' = [serving EXCEPT ![r] = serving'[r]]
    BY <1>2, <1>3 DEF Request, Respond, Receive, track, Tracked, Charge, HandOff
  <2>2. OK(serving'[r])
    <3>1. ASSUME NEW d \in Dims, track(r, d) PROVE OK(serving'[r])
      BY <1>2, <3>1 DEF track, Counting
    <3>2. ASSUME NEW d \in Dims, Charge(r, d) PROVE OK(serving'[r])
      <4> DEFINE p == serving[r].penalty + penaltyContribution(PenaltyFor[d],
                        entryEWMARPS(dimensionKey(d, serving[r].client)))
                 x == IF penaltyContribution(PenaltyFor[d],
                           entryEWMARPS(dimensionKey(d, serving[r].client))) = 0
                      THEN serving[r].charged ELSE serving[r].charged \cup {d}
      <4>1. serving[r].step = "score" /\ OK(serving[r])
        BY <1>1, <3>2 DEF Charge
      <4>2. serving'[r] = [serving[r] EXCEPT !.todo = serving[r].todo \ {d},
                                             !.penalty = p, !.charged = x]
        BY <1>2, <3>2, <4>1 DEF Charge
      <4> HIDE DEF p, x
      <4>3. /\ DOMAIN serving'[r] = DOMAIN serving[r] /\ serving'[r].client = serving[r].client
            /\ serving'[r].todo = serving[r].todo \ {d}
        BY <4>1, <4>2
      <4> QED BY <4>1, <4>3
    <3>3. CASE Tracked(r)
      <4>1. serving[r] \in Counting
        BY <1>2, <3>3 DEF Tracked
      <4> DEFINE c == serving[r].client
                 t == {d \in DOMAIN c.keys : ~Exempt(d, c)}
      <4>2. serving'[r] = [serving[r] EXCEPT !.step = "score", !.todo = t]
        BY <1>2, <3>3 DEF Tracked
      <4>3. /\ DOMAIN serving'[r] = DOMAIN serving[r] /\ serving'[r].client = serving[r].client
            /\ serving'[r].todo = t
        BY <4>1, <4>2 DEF Counting
      <4> QED BY <4>1, <4>3 DEF Counting
    <3>4. CASE Respond(r) \/ (\E present \in SUBSET DOMAIN Divisors : HandOff(r, present))
               \/ \E c \in Clients : Receive(r, c)
      BY <1>2, <3>4 DEF Respond, HandOff, Receive, Idle
    <3> QED BY <1>3, <3>1, <3>2, <3>3, <3>4 DEF Request
  <2> QED BY <1>1, <1>2, <2>1, <2>2
<1>4. CASE Elapse
  <2> SUFFICES ASSUME NEW q \in Requests PROVE OK(serving'[q])
    BY DEF ScoreInv
  <2>1. CASE serving[q].step = "count"
    <3>1. serving'[q] = [serving[q] EXCEPT !.lag = serving[q].lag + 1]
      BY <1>4, <2>1 DEF Elapse
    <3>2. serving'[q].step = "count"
      BY <1>2, <2>1, <3>1 DEF Counting
    <3> QED BY <3>2
  <2>2. CASE serving[q].step # "count"
    BY <1>1, <1>4, <2>2 DEF Elapse
  <2> QED BY <2>1, <2>2
<1>5. CASE UNCHANGED serving
  BY <1>1, <1>5 DEF ScoreInv
<1>6. \/ UNCHANGED serving \/ Elapse
      \/ \E r \in Requests : Request(r) \/ Respond(r) \/ \E c \in Clients : Receive(r, c)
  BY DEF Next, vars, Background, StartPass, gc, tick, Stop, LoopExit, StopReturn
<1> QED BY <1>3, <1>4, <1>5, <1>6 DEF ScoreInv

(* Of an entity no more is pending than was sent, and no more is on its    *)
(* way than may be.                                                        *)
CountOK(e) == Seen(e).pending <= sent[e] /\ sent[e] + Cardinality(Awaiting(e)) <= MaxPending

(* A step after which no more is sent, pending or on its way.              *)
LEMMA FewerAwait ==
    ASSUME RateInv, NEW e \in Entities, Awaiting(e)' \subseteq Awaiting(e),
           sent'[e] \in Nat, sent'[e] <= sent[e], Seen(e)'.pending <= sent'[e]
    PROVE  CountOK(e)'
<1>1. Awaiting(e) \in SUBSET Requests /\ Awaiting(e)' \in SUBSET Requests
  BY DEF Awaiting
<1>2. IsFiniteSet(Awaiting(e)) /\ Cardinality(Awaiting(e)) \in Nat
      /\ Cardinality(Awaiting(e)') \in Nat
  BY <1>1, AwaitingFinite
<1>3. Cardinality(Awaiting(e)') <= Cardinality(Awaiting(e))
  BY <1>2, FS_Subset
<1>4. sent[e] \in Nat /\ sent[e] + Cardinality(Awaiting(e)) <= MaxPending /\ MaxPending \in Nat
  BY ScoringAssumption DEF RateInv, ScoringInv, TypeInv, CountInv
<1> QED BY <1>2, <1>3, <1>4 DEF CountOK

(* A request that is received is awaited by its entities.                  *)
LEMMA ReceiveCounts ==
    ASSUME RateInv, NEW r \in Requests, NEW c \in Clients, Receive(r, c), NEW e \in Entities
    PROVE  CountOK(e)'
<1> DEFINE new == [step |-> "count", client |-> c, lag |-> 0,
                   todo |-> DOMAIN c.keys, charged |-> {}, penalty |-> 0]
<1>1. /\ serving[r].step = "idle" /\ serving' = [serving EXCEPT ![r] = new]
      /\ UNCHANGED <<entries, sent>>
  BY DEF Receive, Idle, history
<1>2. serving = [q \in Requests |-> serving[q]]
  BY DEF RateInv, ScoringInv, TypeInv
<1>3. /\ sent'[e] = sent[e] /\ sent[e] \in Nat /\ Seen(e)' = Seen(e)
      /\ Seen(e).pending <= sent[e]
  BY <1>1 DEF RateInv, ScoringInv, TypeInv, CountInv, Seen
<1>4. Awaiting(e)' \subseteq Awaiting(e) \cup {r}
  BY <1>1, <1>2 DEF Awaiting
<1>5. CASE r \in Awaiting(e)'
  <2>1. PICK d \in DOMAIN c.keys : e = dimensionKey(d, c)
    BY <1>1, <1>2, <1>5 DEF Awaiting
  <2>2. sent[e] + Cardinality(Awaiting(e)) < MaxPending
    BY <2>1 DEF Receive
  <2>3. Awaiting(e) \in SUBSET Requests /\ Awaiting(e)' \in SUBSET Requests
        /\ Awaiting(e) \cup {r} \in SUBSET Requests /\ r \notin Awaiting(e)
    BY <1>1 DEF Awaiting
  <2>4. IsFiniteSet(Awaiting(e)) /\ IsFiniteSet(Awaiting(e) \cup {r})
        /\ Cardinality(Awaiting(e)) \in Nat /\ Cardinality(Awaiting(e)') \in Nat
        /\ Cardinality(Awaiting(e) \cup {r}) \in Nat
    BY <2>3, AwaitingFinite
  <2>5. Cardinality(Awaiting(e) \cup {r}) = Cardinality(Awaiting(e)) + 1
    BY <2>3, <2>4, FS_AddElement
  <2>6. Cardinality(Awaiting(e)') <= Cardinality(Awaiting(e) \cup {r})
    BY <1>4, <2>4, FS_Subset
  <2>7. MaxPending \in Nat
    BY ScoringAssumption
  <2> QED BY <1>3, <2>2, <2>4, <2>5, <2>6, <2>7 DEF CountOK
<1>6. CASE r \notin Awaiting(e)'
  BY <1>3, <1>4, <1>6, FewerAwait
<1> QED BY <1>5, <1>6

(* A request that is counted is awaited no longer.                         *)
LEMMA TrackCounts ==
    ASSUME RateInv, NEW r \in Requests, NEW d \in Dims, track(r, d), NEW e \in Entities
    PROVE  CountOK(e)'
<1> DEFINE x == dimensionKey(d, serving[r].client)
           new == Counted(x, serving[r].lag)
<1>1. /\ serving[r].step = "count" /\ d \in serving[r].todo
      /\ entries' = [y \in DOMAIN entries \cup {x} |-> IF y = x THEN new ELSE entries[y]]
      /\ serving' = [serving EXCEPT ![r].todo = @ \ {d}]
      /\ sent' = [sent EXCEPT ![x] = @ + 1]
  BY DEF track
<1>2. /\ serving = [q \in Requests |-> serving[q]] /\ serving[r] \in Counting
      /\ sent \in [Entities -> Nat]
      /\ sent[e] + Cardinality(Awaiting(e)) <= MaxPending /\ Seen(e).pending <= sent[e]
      /\ Seen(e) \in Entry /\ Seen(e).pending \in Nat
  BY <1>1, EntityFacts DEF RateInv, ScoringInv, TypeInv, CountInv
<1>3. serving'[r] = [serving[r] EXCEPT !.todo = serving[r].todo \ {d}]
      /\ \A q \in Requests \ {r} : serving'[q] = serving[q]
  BY <1>1, <1>2
<1>4. /\ serving'[r].step = "count" /\ serving'[r].client = serving[r].client
      /\ serving'[r].todo = serving[r].todo \ {d}
  BY <1>1, <1>2, <1>3 DEF Counting
<1>5. CASE e = x
  <2>1. r \in Awaiting(e) /\ Awaiting(e)' \subseteq Awaiting(e) \ {r}
    <3>1. r \in Awaiting(e)
      BY <1>1, <1>5 DEF Awaiting
    <3>2. Awaiting(e)' \subseteq Awaiting(e)
      BY <1>1, <1>3, <1>4 DEF Awaiting
    <3>3. r \notin Awaiting(e)'
      BY <1>4, <1>5 DEF Awaiting, dimensionKey
    <3> QED BY <3>1, <3>2, <3>3
  <2>2. Awaiting(e) \in SUBSET Requests /\ Awaiting(e)' \in SUBSET Requests
        /\ Awaiting(e) \ {r} \in SUBSET Requests
    BY DEF Awaiting
  <2>3. IsFiniteSet(Awaiting(e)) /\ IsFiniteSet(Awaiting(e) \ {r})
        /\ Cardinality(Awaiting(e)) \in Nat /\ Cardinality(Awaiting(e)') \in Nat
        /\ Cardinality(Awaiting(e) \ {r}) \in Nat
    BY <2>2, AwaitingFinite
  <2>4. Cardinality(Awaiting(e) \ {r}) = Cardinality(Awaiting(e)) - 1
    BY <2>1, <2>3, FS_RemoveElement
  <2>5. Cardinality(Awaiting(e)') <= Cardinality(Awaiting(e) \ {r})
    BY <2>1, <2>3, FS_Subset
  <2>6. sent'[e] = sent[e] + 1 /\ sent[e] \in Nat /\ MaxPending \in Nat
    BY <1>1, <1>2, <1>5, ScoringAssumption
  <2>7. Seen(e)'.pending = Seen(e).pending + 1
    <3>1. \A a, p : \A s \in Entry : [s EXCEPT !.age = a, !.pending = p].pending = p
      BY DEF Entry
    <3>2. new = [Seen(e) EXCEPT !.age = serving[r].lag, !.pending = Seen(e).pending + 1]
      BY <1>2, <1>5 DEF Counted, Entry
    <3> HIDE DEF new
    <3>3. new.pending = Seen(e).pending + 1
      BY <1>2, <3>1, <3>2
    <3> QED BY <1>1, <1>5, <3>3 DEF Seen
  <2> QED BY <1>2, <2>3, <2>4, <2>5, <2>6, <2>7 DEF CountOK
<1>6. CASE e # x
  <2> HIDE DEF x, new
  <2>1. Awaiting(e)' \subseteq Awaiting(e)
    BY <1>1, <1>3, <1>4 DEF Awaiting
  <2>2. sent'[e] = sent[e] /\ sent[e] \in Nat
    BY <1>1, <1>2, <1>6
  <2>3. Seen(e)' = Seen(e)
    BY <1>1, <1>6 DEF Seen
  <2> QED BY <1>2, <2>1, <2>2, <2>3, FewerAwait
<1> QED BY <1>5, <1>6

(* A tick starts the count afresh, gc takes from it what waits for it.     *)
LEMMA PassCounts ==
    ASSUME RateInv, NEW d \in Dims, tick(d) \/ gc(d), NEW e \in Entities
    PROVE  CountOK(e)'
<1>1. Awaiting(e)' = Awaiting(e) /\ sent[e] \in Nat /\ Seen(e).pending <= sent[e]
      /\ Seen(e).pending \in Nat
  <2>1. serving' = serving
    BY DEF tick, gc
  <2>2. Awaiting(e)' = Awaiting(e)
    BY <2>1 DEF Awaiting
  <2>3. CountOK(e)
    BY DEF RateInv, CountInv, CountOK
  <2>4. sent[e] \in Nat /\ Seen(e).pending \in Nat
    BY EntityFacts DEF RateInv
  <2> QED BY <2>2, <2>3, <2>4 DEF CountOK
<1>2. CASE gc(d)
  <2>1. sent'[e] = sent[e] /\ (Seen(e)' = Seen(e) \/ Seen(e)'.pending = 0)
    BY <1>2 DEF gc, Restrict, history, Seen
  <2> QED BY <1>1, <2>1, FewerAwait
<1>3. CASE tick(d)
  <2>1. /\ entries' = [x \in DOMAIN entries |->
             IF x \in InDim(d) THEN Folded(entries[x]) ELSE entries[x]]
        /\ sent'[e] = IF e \in InDim(d) THEN 0 ELSE sent[e]
    BY <1>3 DEF tick
  <2>2. CASE e \in InDim(d)
    <3>1. ASSUME e \in DOMAIN entries
          PROVE  Folded(entries[e]).pending = 0
      <4>1. entries[e] \in Entry
        BY <3>1 DEF RateInv, ScoringInv, TypeInv
      <4>2. \A w : \A s \in Entry : [s EXCEPT !.pending = 0, !.ewma = w].pending = 0
        BY DEF Entry
      <4> QED BY <4>1, <4>2 DEF Folded
    <3>2. Seen(e)'.pending = 0
      BY <2>1, <2>2, <3>1 DEF Seen
    <3> QED BY <1>1, <2>1, <2>2, <3>2, FewerAwait
  <2>3. CASE e \notin InDim(d)
    <3>1. Seen(e)' = Seen(e)
      BY <2>1, <2>3 DEF Seen
    <3> QED BY <1>1, <2>1, <2>3, <3>1, FewerAwait
  <2> QED BY <2>2, <2>3
<1> QED BY <1>2, <1>3

(* The other steps count nothing.                                          *)
LEMMA OthersCount ==
    ASSUME RateInv, NEW e \in Entities, UNCHANGED sent,
           Seen(e)' = Seen(e) \/ Elapse,
           \A q \in Requests : serving'[q].step = "count" =>
             /\ serving[q].step = "count"
             /\ serving'[q].client = serving[q].client /\ serving'[q].todo = serving[q].todo
    PROVE  CountOK(e)'
<1>1. Awaiting(e)' \subseteq Awaiting(e)
  BY DEF Awaiting
<1>2. sent[e] \in Nat /\ Seen(e).pending <= sent[e]
  BY EntityFacts DEF RateInv, CountInv
<1>3. Seen(e)'.pending = Seen(e).pending
  <2>1. ASSUME Elapse, e \in DOMAIN entries
        PROVE  Seen(e)'.pending = Seen(e).pending
    <3>1. entries[e] \in Entry
      BY <2>1 DEF RateInv, ScoringInv, TypeInv
    <3>2. \A a : \A s \in Entry : [s EXCEPT !.age = a].pending = s.pending
      BY DEF Entry
    <3>3. entries'[e] = [entries[e] EXCEPT !.age = Lesser(entries[e].age + 1, Oldest)]
          /\ e \in DOMAIN entries'
      BY <2>1, <3>1 DEF Elapse, Entry
    <3>4. entries'[e].pending = entries[e].pending
      BY <3>1, <3>2, <3>3
    <3> QED BY <2>1, <3>3, <3>4 DEF Seen
  <2>2. ASSUME Elapse, e \notin DOMAIN entries
        PROVE  Seen(e)' = Seen(e)
    BY <2>2 DEF Elapse, Seen
  <2> QED BY <2>1, <2>2
<1> QED BY <1>1, <1>2, <1>3, FewerAwait

(* Every step keeps the counts in proportion.                              *)
LEMMA NextCountInv ==
    ASSUME RateInv, [Next]_vars
    PROVE  CountInv'
<1> SUFFICES ASSUME NEW e \in Entities PROVE CountOK(e)'
  BY DEF CountInv, CountOK
<1> DEFINE Same(q) == serving'[q].step = "count" =>
             /\ serving[q].step = "count"
             /\ serving'[q].client = serving[q].client /\ serving'[q].todo = serving[q].todo
<1>1. serving = [q \in Requests |-> serving[q]] /\ \A q \in Requests : "step" \in DOMAIN serving[q]
      /\ (serving[q].step = "count" => serving[q] \in Counting)
  BY DEF RateInv, ScoringInv, TypeInv
<1>2. ASSUME NEW r \in Requests,
             \/ Tracked(r) \/ Respond(r)
             \/ \E d \in Dims : Charge(r, d)
             \/ \E present \in SUBSET DOMAIN Divisors : HandOff(r, present)
      PROVE  CountOK(e)'
  <2>1. UNCHANGED <<entries, sent>>
    BY <1>2 DEF Tracked, Respond, Charge, HandOff, history
  <2>2. \A q \in Requests \ {r} : serving'[q] = serving[q]
    BY <1>1, <1>2 DEF Tracked, Respond, Charge, HandOff
  <2>3. serving'[r].step # "count"
    <3>1. ASSUME NEW d \in Dims, Charge(r, d) PROVE serving'[r].step # "count"
      BY <1>1, <3>1 DEF Charge
    <3>2. CASE Tracked(r)
      BY <1>1, <3>2 DEF Tracked, Counting
    <3>3. CASE Respond(r) \/ \E present \in SUBSET DOMAIN Divisors : HandOff(r, present)
      BY <1>1, <3>3 DEF Respond, HandOff, Idle
    <3> QED BY <1>2, <3>1, <3>2, <3>3
  <2> QED BY <2>1, <2>2, <2>3, OthersCount DEF Seen
<1>3. CASE Elapse
  <2>1. ASSUME NEW q \in Requests PROVE Same(q)
    <3>1. CASE serving[q].step = "count"
      <4>1. serving'[q] = [serving[q] EXCEPT !.lag = serving[q].lag + 1]
        BY <1>1, <1>3, <3>1 DEF Elapse
      <4> QED BY <1>1, <3>1, <4>1 DEF Counting
    <3>2. CASE serving[q].step # "count"
      BY <1>3, <3>2 DEF Elapse
    <3> QED BY <3>1, <3>2
  <2>2. UNCHANGED sent
    BY <1>3 DEF Elapse, history
  <2> QED BY <1>3, <2>1, <2>2, OthersCount
<1>4. CASE UNCHANGED <<entries, serving, sent>>
  BY <1>4, OthersCount DEF Seen
<1>5. \/ \E r \in Requests, c \in Clients : Receive(r, c)
      \/ \E r \in Requests, d \in Dims : track(r, d)
      \/ \E d \in Dims : tick(d) \/ gc(d)
      \/ \E r \in Requests : \/ Tracked(r) \/ Respond(r)
                             \/ \E d \in Dims : Charge(r, d)
                             \/ \E present \in SUBSET DOMAIN Divisors : HandOff(r, present)
      \/ Elapse \/ UNCHANGED <<entries, serving, sent>>
  BY DEF Next, vars, Request, Background, StartPass, Stop, LoopExit, StopReturn, history
<1> QED BY <1>2, <1>3, <1>4, <1>5, ReceiveCounts, TrackCounts, PassCounts

(* The parts of the invariant hold together.                               *)
LEMMA NextRateInv ==
    ASSUME IdleTTL > 2 * MaxLag
    PROVE  RateInv /\ [Next]_vars => RateInv'
BY NextScoringInv, NextHistoryInv, NextScoreInv, NextCountInv DEF RateInv

(* Counts, history and what is left to charge hold in every state.         *)
THEOREM RateInvariance ==
    ASSUME IdleTTL > 2 * MaxLag
    PROVE  Spec => []RateInv
BY InitRateInv, NextRateInv, PTL DEF Spec

-----------------------------------------------------------------------------
(* Rates: how they cool, climb and fade, tick by tick.                     *)

(* At a fold no more is pending than may be sent in a tick, and until stop *)
(* exactly what was sent.                                                  *)
LEMMA FoldFacts ==
    ASSUME RateInv, NEW e \in Entities
    PROVE  /\ MaxPending \in Nat /\ Seen(e).pending \in Nat /\ Seen(e).ewma \in Nat
           /\ Seen(e).pending <= sent[e] /\ sent[e] <= MaxPending /\ sent[e] \in Nat
           /\ life = "running" => Seen(e).pending = sent[e]
           /\ quiet[e] \in 0..QuietTicks /\ busy[e] \in 0..BusyTicks /\ e[1] \in Dims
           /\ PenaltyFor[e[1]].soft \in Int /\ PenaltyFor[e[1]].hard \in Int
<1>1. Awaiting(e) \in SUBSET Requests
  BY DEF Awaiting
<1>2. Cardinality(Awaiting(e)) \in Nat
  BY <1>1, AwaitingFinite
<1>3. e[1] \in Dims /\ PenaltyFor[e[1]].soft \in Int /\ PenaltyFor[e[1]].hard \in Int
  BY ConstantFacts, ScoringAssumption
<1> QED BY <1>2, <1>3, EntityFacts, ScoringAssumption
        DEF RateInv, CountInv, HistoryInv, ScoringInv, EveryRequestCounted

(* A rate up to Free costs nothing.                                        *)
LEMMA FreeCostsNothing ==
    ASSUME NEW d \in Dims, NEW w \in Nat, w <= Free(d)
    PROVE  penaltyContribution(PenaltyFor[d], w) = 0
<1> DEFINE s == PenaltyFor[d].soft
           h == PenaltyFor[d].hard
<1>1. s \in Int /\ h \in Int /\ Scale \in Nat
  BY ScoringAssumption
<1> HIDE DEF s, h
<1>2. s <= h => s * Scale <= h * Scale
  BY <1>1
<1>3. h <= s => h * Scale <= s * Scale
  BY <1>1
<1>4. /\ s * Scale \in Int /\ h * Scale \in Int
      /\ (s < h /\ Free(d) = s * Scale) \/ (h <= s /\ Free(d) = h * Scale)
  BY <1>1 DEF Free, Lesser, s, h
<1>5. w <= s * Scale /\ w <= h * Scale
  BY <1>1, <1>2, <1>3, <1>4
<1> QED BY <1>4, <1>5 DEF penaltyContribution, s, h

(* A rate above soft costs something.                                       *)
LEMMA AboveSoftCosts ==
    ASSUME NEW d \in Dims, NEW w \in Nat, w > PenaltyFor[d].soft * Scale,
           PenaltyFor[d].softPenalty # 0, PenaltyFor[d].hardPenalty # 0
    PROVE  penaltyContribution(PenaltyFor[d], w) # 0
<1> DEFINE s == PenaltyFor[d].soft * Scale
           h == PenaltyFor[d].hard * Scale
<1>1. s \in Int /\ h \in Int
  BY ScoringAssumption
<1> QED BY <1>1 DEF penaltyContribution

(* The next place in a sequence of bounds, saturating at its end.          *)
LEMMA NextPlace ==
    ASSUME NEW m \in Nat, NEW n \in 0..m
    PROVE  Lesser(n + 1, m) \in 0..m /\ (Lesser(n + 1, m) = n + 1 \/ Lesser(n + 1, m) = m)
BY DEF Lesser

(* A quiet tick takes a rate to the next bound, any other to the first.    *)
LEMMA CoolStep ==
    ASSUME NEW cool, \A d \in Dims : Cools(d, cool[d]),
           RateInv, CoolInv(cool), [Next]_vars
    PROVE  CoolInv(cool)'
<1> SUFFICES ASSUME NEW e \in Entities
             PROVE  Seen(e)'.ewma <= cool[e[1]][quiet'[e]]
  BY DEF CoolInv
<1> DEFINE f == cool[e[1]]
           n == quiet[e]
           w == Seen(e).ewma
           p == Seen(e).pending
           s == PenaltyFor[e[1]].soft
<1>1. /\ f \in [0..QuietTicks -> Nat] /\ n \in 0..QuietTicks /\ QuietTicks \in Nat
      /\ blend(MaxPending, f[n]) <= f[0] /\ blend(s - 1, f[n]) <= f[Lesser(n + 1, QuietTicks)]
      /\ s \in Int /\ p \in Nat /\ w \in Nat /\ MaxPending \in Nat
      /\ p <= sent[e] /\ sent[e] \in Nat /\ sent[e] <= MaxPending
      /\ w <= f[n]
  BY FoldFacts, ScoringAssumption DEF Cools, CoolInv
<1>2. CASE Folds(e)
  <2>1. Seen(e)'.ewma = blend(p, w)
        /\ quiet'[e] = IF sent[e] < s THEN Lesser(n + 1, QuietTicks) ELSE 0
    BY <1>2 DEF Folds
  <2> HIDE DEF f, n, w, p, s
  <2>2. f[n] \in Nat /\ f[0] \in Nat
        /\ Lesser(n + 1, QuietTicks) \in 0..QuietTicks /\ f[Lesser(n + 1, QuietTicks)] \in Nat
    BY <1>1, NextPlace
  <2>3. blend(p, w) \in Nat /\ blend(MaxPending, f[n]) \in Nat
    BY <1>1, <2>2, BlendNat
  <2>4. blend(p, w) <= blend(MaxPending, f[n])
    <3>1. p \in Nat /\ MaxPending \in Nat /\ w \in Nat /\ f[n] \in Nat
      BY <1>1, <2>2
    <3>2. p <= MaxPending /\ w <= f[n]
      BY <1>1, <3>1
    <3> QED BY <3>1, <3>2, BlendGrows
  <2>5. CASE sent[e] < s
    <3>1. p <= s - 1 /\ s - 1 \in Int /\ s - 1 \in Nat
      BY <1>1, <2>5
    <3>2. w <= f[n] /\ w \in Nat /\ f[n] \in Nat /\ p \in Int
      BY <1>1, <2>2
    <3>3. blend(p, w) <= blend(s - 1, f[n])
      BY <3>1, <3>2, BlendGrows
    <3>4. blend(s - 1, f[n]) \in Nat
      BY <3>1, <3>2, BlendNat
    <3>5. blend(p, w) <= f[Lesser(n + 1, QuietTicks)]
      BY <1>1, <2>2, <2>3, <3>3, <3>4
    <3> QED BY <2>1, <2>5, <3>5 DEF f
  <2>6. CASE ~(sent[e] < s)
    <3>1. blend(p, w) <= f[0]
      BY <1>1, <2>2, <2>3, <2>4
    <3> QED BY <2>1, <2>6, <3>1 DEF f
  <2> QED BY <2>5, <2>6
<1>3. CASE Drops(e)
  <2>1. Seen(e)'.ewma = 0 /\ quiet'[e] = n
    BY <1>3 DEF Drops, Seen
  <2> QED BY <1>1, <2>1
<1>4. CASE Keeps(e)
  BY <1>1, <1>4 DEF Keeps
<1> QED BY <1>2, <1>3, <1>4, EntityStep DEF RateInv

(* What a fold does to the bound on an entry's age.                        *)
LEMMA FoldedWithin ==
    ASSUME RateInv, NEW e \in Entities, e \in DOMAIN entries, Folds(e), NEW b \in Nat,
           Within(entries[e].age, loops["tick"], e[1], b)
    PROVE  Within(entries'[e].age, loops'["tick"], e[1], b + MaxLag + 1)
<1>1. /\ entries'[e].age = entries[e].age /\ entries[e].age \in Nat /\ MaxLag \in Nat
      /\ loops'["tick"].due = loops["tick"].due /\ loops["tick"].due \in -1..MaxLag
  BY EntityFacts, ConstantFacts DEF Folds, RateInv
<1> QED BY <1>1 DEF Within

(* An entry that has something to fold was seen a short time ago.          *)
LEMMA PendingIsFresh ==
    ASSUME RateInv, life = "running", NEW e \in DOMAIN entries, entries[e].pending > 0
    PROVE  Within(entries[e].age, loops["tick"], e[1], MaxLag)
BY ConstantFacts DEF RateInv, ScoringInv, FreshInv, Within

(* What gc deletes is older than a bound allows.                           *)
LEMMA DroppedIsOld ==
    ASSUME RateInv, NEW e \in Entities, Drops(e), NEW b \in Nat,
           Within(entries[e].age, loops["tick"], e[1], b)
    PROVE  b + MaxLag + 1 > IdleTTL
<1>1. /\ entries[e].age - loops["gc"].lag > IdleTTL /\ IdleTTL \in Nat /\ MaxLag \in Nat
      /\ loops["gc"].lag \in 0..MaxLag /\ entries[e].age \in Nat
      /\ loops["tick"].due \in -1..MaxLag
  BY EntityFacts, ConstantFacts DEF Drops, Reclaimable, RateInv
<1> QED BY <1>1 DEF Within

(* A busy tick takes a rate up to the next bound, and gc comes too early   *)
(* for an entity whose last tick was busy.                                 *)
LEMMA ClimbStep ==
    ASSUME IdleTTL >= 3 * MaxLag + 2, NEW climb, \A d \in Dims : Climbs(d, climb[d]),
           RateInv, ClimbInv(climb), [Next]_vars
    PROVE  ClimbInv(climb)'
<1> SUFFICES ASSUME life' = "running", NEW e \in Entities
             PROVE  /\ climb[e[1]][busy'[e]] <= Seen(e)'.ewma
                    /\ busy'[e] > 0 =>
                         /\ e \in DOMAIN entries'
                         /\ Within(entries'[e].age, loops'["tick"], e[1], 2 * MaxLag + 1)
  BY DEF ClimbInv
<1> DEFINE f == climb[e[1]]
           n == busy[e]
           w == Seen(e).ewma
           p == Seen(e).pending
           s == PenaltyFor[e[1]].soft
<1>1. /\ f \in [0..BusyTicks -> Nat] /\ f[0] = 0 /\ n \in 0..BusyTicks /\ BusyTicks \in Nat
      /\ f[Lesser(n + 1, BusyTicks)] <= blend(s + 1, f[n]) /\ s \in Nat
      /\ p \in Nat /\ w \in Nat
  <2>1. n \in 0..BusyTicks /\ BusyTicks \in Nat /\ p \in Nat /\ w \in Nat /\ e[1] \in Dims
    BY FoldFacts, ScoringAssumption
  <2>2. Climbs(e[1], f) /\ s \in Int
    BY <2>1, FoldFacts
  <2> HIDE DEF f, n, w, p
  <2> QED BY <2>1, <2>2 DEF Climbs
<1>2. life = "running" =>
        /\ f[n] <= w /\ p = sent[e]
        /\ n > 0 => e \in DOMAIN entries /\ Within(entries[e].age, loops["tick"], e[1], 2 * MaxLag + 1)
  BY FoldFacts DEF ClimbInv
<1>3. MaxLag \in Nat /\ IdleTTL \in Nat /\ 2 * MaxLag + 1 \in Nat
  BY ConstantFacts
<1>4. CASE Folds(e)
  <2>1. /\ life = "running" /\ Seen(e)'.ewma = blend(p, w)
        /\ busy'[e] = IF sent[e] > s THEN Lesser(n + 1, BusyTicks) ELSE 0
        /\ e \in DOMAIN entries' <=> e \in DOMAIN entries
    BY <1>4 DEF Folds
  <2>2. CASE sent[e] > s
    <3>1. p >= s + 1 /\ p > 0
      BY <1>1, <1>2, <2>1, <2>2
    <3>2. e \in DOMAIN entries /\ entries[e].pending > 0
      BY <3>1 DEF Seen
    <3>3. Within(entries'[e].age, loops'["tick"], e[1], MaxLag + MaxLag + 1)
      BY <1>3, <1>4, <2>1, <3>2, PendingIsFresh, FoldedWithin
    <3>4. MaxLag + MaxLag + 1 = 2 * MaxLag + 1
      BY <1>3
    <3>5. Within(entries'[e].age, loops'["tick"], e[1], 2 * MaxLag + 1)
      BY <3>3, <3>4
    <3> HIDE DEF f, n, w, p, s
    <3>6. f[n] \in Nat /\ f[n] <= w /\ Lesser(n + 1, BusyTicks) \in 0..BusyTicks
          /\ f[Lesser(n + 1, BusyTicks)] \in Nat
      BY <1>1, <1>2, <2>1, NextPlace
    <3>7. s + 1 \in Nat /\ s + 1 <= p
      BY <1>1, <3>1
    <3>8. p \in Nat /\ w \in Nat /\ s + 1 \in Int /\ p \in Int
      BY <1>1
    <3>9. blend(s + 1, f[n]) <= blend(p, w)
      BY <3>6, <3>7, <3>8, BlendGrows
    <3>10. blend(s + 1, f[n]) \in Nat /\ blend(p, w) \in Nat
      BY <3>6, <3>7, <3>8, BlendNat
    <3>11. f[Lesser(n + 1, BusyTicks)] <= blend(p, w)
      BY <1>1, <3>6, <3>9, <3>10
    <3>12. busy'[e] = Lesser(n + 1, BusyTicks) /\ Seen(e)'.ewma = blend(p, w)
      BY <2>1, <2>2
    <3>13. climb[e[1]][busy'[e]] <= Seen(e)'.ewma
      BY <3>11, <3>12 DEF f
    <3>14. e \in DOMAIN entries'
      BY <1>4, <3>2 DEF Folds
    <3> QED BY <3>5, <3>13, <3>14
  <2>3. CASE ~(sent[e] > s)
    <3>1. busy'[e] = 0 /\ Seen(e)'.ewma = blend(p, w)
      BY <2>1, <2>3
    <3>2. blend(p, w) \in Nat
      BY <1>1, BlendNat
    <3>3. climb[e[1]][0] = 0
      BY <1>1
    <3> QED BY <3>1, <3>2, <3>3
  <2> QED BY <2>2, <2>3
<1>5. CASE Drops(e)
  <2>1. /\ life = "running" /\ busy'[e] = n /\ Seen(e)'.ewma = 0
    BY <1>5 DEF Drops, Seen
  <2>2. n = 0
    <3> SUFFICES ASSUME n > 0 PROVE FALSE
      BY <1>1
    <3>1. (2 * MaxLag + 1) + MaxLag + 1 > IdleTTL
      BY <1>2, <1>3, <1>5, <2>1, DroppedIsOld
    <3> QED BY <1>3, <3>1
  <2> QED BY <1>1, <2>1, <2>2
<1>6. CASE Keeps(e)
  <2>1. /\ life = "running" /\ busy'[e] = n /\ Seen(e)'.ewma = w
        /\ e \in DOMAIN entries => e \in DOMAIN entries'
    BY <1>6 DEF Keeps
  <2>2. 2 * MaxLag + 1 >= MaxLag
    BY <1>3
  <2>3. e \in DOMAIN entries /\ Within(entries[e].age, loops["tick"], e[1], 2 * MaxLag + 1) =>
          Within(entries'[e].age, loops'["tick"], e[1], 2 * MaxLag + 1)
    BY <1>3, <1>6, <2>2 DEF Keeps
  <2> QED BY <1>2, <2>1, <2>3
<1> QED BY <1>4, <1>5, <1>6, EntityStep DEF RateInv

(* What one tick more adds to the bound on an entry's age.                 *)
LEMMA BoundFacts ==
    ASSUME NEW n \in Nat
    PROVE  /\ Bound(n) \in Nat /\ Bound(n) >= MaxLag /\ Bound(n + 1) = Bound(n) + MaxLag + 1
           /\ 2 * MaxLag + 1 + (n + 1) * (MaxLag + 1) = Bound(n) + MaxLag + 1
           /\ Bound(0) = MaxLag + MaxLag + 1
<1>1. MaxLag \in Nat /\ n * (MaxLag + 1) \in Nat /\ (n + 1) * (MaxLag + 1) = n * (MaxLag + 1) + MaxLag + 1
  BY ConstantFacts
<1>2. 0 * (MaxLag + 1) = 0
  BY <1>1
<1> QED BY <1>1, <1>2 DEF Bound

(* What the invariant says of one entity.                                  *)
FadedOK(f, n, w, age, loop, d) ==
    n \in 0..IdleTTL /\ w <= f[n] /\ (n = IdleTTL \/ Within(age, loop, d, Bound(n)))

(* A tick without requests fades a rate by one bound more, and one that    *)
(* counts some starts over.                                                *)
LEMMA FadeStep ==
    ASSUME NEW fade, \A d \in Dims : Fades(d, fade[d]),
           RateInv, RateInv', FadeInv(fade), [Next]_vars
    PROVE  FadeInv(fade)'
<1> SUFFICES ASSUME life' = "running", NEW e \in DOMAIN entries'
             PROVE  \E m : FadedOK(fade[e[1]], m, entries'[e].ewma, entries'[e].age,
                                   loops'["tick"], e[1])
  BY DEF FadeInv, FadedOK, FadedBy, Bound
<1>1. e \in Entities
  BY DEF RateInv, ScoringInv, TypeInv
<1> DEFINE f == fade[e[1]]
           w == Seen(e).ewma
           p == Seen(e).pending
<1>2. f \in [0..IdleTTL -> Nat] /\ IdleTTL \in Nat /\ w \in Nat /\ p \in Nat /\ p <= MaxPending
      /\ MaxPending \in Nat
      /\ \A n \in 0..IdleTTL : blend(MaxPending, f[n]) <= f[0] /\ blend(0, f[n]) <= f[Lesser(n + 1, IdleTTL)]
  <2>1. e[1] \in Dims /\ Fades(e[1], f)
    BY <1>1, FoldFacts
  <2>2. w \in Nat /\ p \in Nat /\ p <= MaxPending /\ MaxPending \in Nat /\ IdleTTL \in Nat
    <3>1. p \in Nat /\ p <= sent[e] /\ sent[e] <= MaxPending /\ sent[e] \in Nat
          /\ MaxPending \in Nat /\ w \in Nat
      BY <1>1, FoldFacts
    <3> HIDE DEF p, w
    <3> QED BY <3>1, ConstantFacts
  <2> HIDE DEF f, w, p
  <2> QED BY <2>1, <2>2 DEF Fades
<1>3. entries'[e].ewma = Seen(e)'.ewma
  BY DEF Seen
<1>4. CASE e \notin DOMAIN entries
  <2>1. Keeps(e)
    BY <1>1, <1>4, EntityStep DEF RateInv, Folds, Drops
  <2>2. entries'[e].ewma = 0 /\ f[IdleTTL] \in Nat /\ IdleTTL \in 0..IdleTTL
    BY <1>2, <1>3, <1>4, <2>1 DEF Keeps, Seen
  <2> QED BY <2>2 DEF FadedOK
<1>5. CASE e \in DOMAIN entries
  <2>1. life = "running"
    BY <1>1, EntityStep DEF RateInv, Folds, Drops, Keeps
  <2>2. entries[e].ewma = w /\ entries[e].pending = p
    BY <1>5 DEF Seen
  <2>3. PICK n : FadedOK(f, n, w, entries[e].age, loops["tick"], e[1])
    BY <1>5, <2>1, <2>2 DEF FadeInv, FadedOK, FadedBy, Bound
  <2>4. n \in 0..IdleTTL /\ n \in Nat /\ w <= f[n] /\ f[n] \in Nat /\ f[0] \in Nat
        /\ blend(MaxPending, f[n]) <= f[0] /\ blend(0, f[n]) <= f[Lesser(n + 1, IdleTTL)]
    BY <1>2, <2>3 DEF FadedOK
  <2>5. CASE Folds(e)
    <3>1. entries'[e].ewma = blend(p, w) /\ blend(p, w) \in Nat
      BY <1>2, <1>3, <2>5, BlendNat DEF Folds
    <3>2. CASE p > 0
      <4>1. Within(entries'[e].age, loops'["tick"], e[1], MaxLag + MaxLag + 1)
        BY <1>1, <1>5, <2>1, <2>2, <2>5, <3>2, PendingIsFresh, FoldedWithin, ConstantFacts
      <4>2. Within(entries'[e].age, loops'["tick"], e[1], Bound(0)) /\ 0 \in 0..IdleTTL
        BY <1>2, <4>1, BoundFacts
      <4>3. blend(p, w) <= blend(MaxPending, f[n]) /\ blend(MaxPending, f[n]) \in Nat
        <5> HIDE DEF f, w, p
        <5>1. p \in Int /\ MaxPending \in Int /\ p <= MaxPending /\ w \in Nat /\ f[n] \in Nat /\ w <= f[n]
          BY <1>2, <2>4
        <5>2. blend(p, w) <= blend(MaxPending, f[n])
          BY <5>1, BlendGrows
        <5> QED BY <1>2, <5>1, <5>2, BlendNat
      <4>4. blend(p, w) <= f[0]
        BY <2>4, <3>1, <4>3
      <4> QED BY <3>1, <4>2, <4>4 DEF FadedOK
    <3>3. CASE p = 0
      <4> DEFINE m == Lesser(n + 1, IdleTTL)
      <4>1. m \in 0..IdleTTL /\ (m = n + 1 \/ m = IdleTTL) /\ f[m] \in Nat
            /\ (m # IdleTTL => n # IdleTTL)
        <5>1. m \in 0..IdleTTL /\ (m = n + 1 \/ m = IdleTTL) /\ (m # IdleTTL => n # IdleTTL)
          BY <1>2, <2>4 DEF Lesser
        <5> HIDE DEF m, f
        <5> QED BY <1>2, <5>1
      <4>2. blend(0, w) <= blend(0, f[n]) /\ blend(0, f[n]) \in Nat
        <5> HIDE DEF f, w, p
        <5> QED BY <1>2, <2>4, BlendGrows, BlendNat
      <4>3. blend(p, w) <= f[m]
        BY <2>4, <3>1, <3>3, <4>1, <4>2
      <4>4. CASE m = IdleTTL
        BY <3>1, <4>1, <4>3, <4>4 DEF FadedOK
      <4>5. CASE m # IdleTTL
        <5>1. Within(entries[e].age, loops["tick"], e[1], Bound(n)) /\ m = n + 1
          BY <2>3, <4>1, <4>5 DEF FadedOK
        <5>2. Within(entries'[e].age, loops'["tick"], e[1], Bound(n) + MaxLag + 1)
          BY <1>1, <1>5, <2>4, <2>5, <5>1, FoldedWithin, BoundFacts
        <5>3. Within(entries'[e].age, loops'["tick"], e[1], Bound(m))
          BY <2>4, <5>1, <5>2, BoundFacts
        <5> QED BY <3>1, <4>1, <4>3, <5>3 DEF FadedOK
      <4> QED BY <4>4, <4>5
    <3> QED BY <1>2, <3>2, <3>3
  <2>6. CASE Drops(e)
    BY <2>6 DEF Drops
  <2>7. CASE Keeps(e)
    <3>1. entries'[e].ewma = w
      BY <1>3, <2>7 DEF Keeps
    <3>2. Within(entries[e].age, loops["tick"], e[1], Bound(n)) =>
            Within(entries'[e].age, loops'["tick"], e[1], Bound(n))
      BY <1>5, <2>4, <2>7, BoundFacts DEF Keeps
    <3> QED BY <2>3, <3>1, <3>2 DEF FadedOK
  <2> QED BY <1>1, <2>5, <2>6, <2>7, EntityStep DEF RateInv
<1> QED BY <1>4, <1>5

-----------------------------------------------------------------------------
(* The three properties.                                                   *)

(* A rate is read for a charge: of the entity of that dimension and the    *)
(* request's client.                                                       *)
LEMMA ChargeReads ==
    ASSUME RateInv, NEW r \in Requests, NEW d \in Dims, Charge(r, d)
    PROVE  LET c == serving[r].client
               e == dimensionKey(d, c)
               penalty == penaltyContribution(PenaltyFor[d], Seen(e).ewma)
           IN  /\ e \in Entities /\ e[1] = d /\ c.country \notin PenaltyFor[d].exempt
               /\ serving'[r].charged = IF penalty = 0 THEN serving[r].charged
                                        ELSE serving[r].charged \cup {d}
               /\ serving'[r].todo = serving[r].todo \ {d}
               /\ \A q \in Requests \ {r} : serving'[q] = serving[q]
<1> DEFINE c == serving[r].client
           e == dimensionKey(d, c)
           penalty == penaltyContribution(PenaltyFor[d], Seen(e).ewma)
           rest == serving[r].todo \ {d}
           sum == serving[r].penalty + penalty
           all == IF penalty = 0 THEN serving[r].charged ELSE serving[r].charged \cup {d}
<1>1. /\ d \in DOMAIN c.keys /\ ~Exempt(d, c) /\ c \in Clients
      /\ {"client", "todo", "charged", "penalty"} \subseteq DOMAIN serving[r]
  BY DEF RateInv, ScoreInv, Charge
<1>2. e \in Entities /\ e[1] = d
  BY <1>1, ConstantFacts
<1>3. entryEWMARPS(e) = Seen(e).ewma
  BY DEF entryEWMARPS, Seen
<1>4. serving = [q \in Requests |-> serving[q]]
  BY DEF RateInv, ScoringInv, TypeInv
<1>5. serving'[r] = [serving[r] EXCEPT !.todo = rest, !.penalty = sum, !.charged = all]
      /\ \A q \in Requests \ {r} : serving'[q] = serving[q]
  BY <1>3, <1>4 DEF Charge
<1> HIDE DEF rest, sum, all
<1>6. serving'[r].todo = rest /\ serving'[r].charged = all
  BY <1>1, <1>5
<1> QED BY <1>1, <1>2, <1>5, <1>6 DEF Exempt, rest, all, sum

(* Only a request that reads a rate has its charges changed by a step.     *)
LEMMA OnlyChargeCharges ==
    ASSUME RateInv, [Next]_vars, NEW r \in Requests, serving'[r].step = "score"
    PROVE  \/ \E d \in Dims : Charge(r, d) /\ serving[r].step = "score"
           \/ serving'[r] = serving[r]
           \/ serving[r].step # "score" /\ serving'[r].charged = {}
<1>1. serving = [q \in Requests |-> serving[q]] /\ "step" \in DOMAIN serving[r]
      /\ (serving[r].step = "count" => serving[r] \in Counting)
  BY DEF RateInv, ScoringInv, TypeInv
<1>2. CASE Tracked(r)
  <2> DEFINE t == {d \in DOMAIN serving[r].client.keys : ~Exempt(d, serving[r].client)}
  <2>1. serving'[r] = [serving[r] EXCEPT !.step = "score", !.todo = t]
    BY <1>1, <1>2 DEF Tracked
  <2> HIDE DEF t
  <2>2. serving'[r].charged = {}
    BY <1>1, <1>2, <2>1 DEF Tracked, Counting
  <2> QED BY <1>2, <2>2 DEF Tracked
<1>3. ASSUME NEW d \in Dims, track(r, d) PROVE FALSE
  BY <1>1, <1>3 DEF track, Counting
<1>4. CASE Elapse
  <2>1. CASE serving[r].step = "count"
    <3>1. serving'[r] = [serving[r] EXCEPT !.lag = serving[r].lag + 1]
      BY <1>1, <1>4, <2>1 DEF Elapse
    <3> QED BY <1>1, <2>1, <3>1 DEF Counting
  <2>2. CASE serving[r].step # "count"
    BY <1>4, <2>2 DEF Elapse
  <2> QED BY <2>1, <2>2
<1>5. CASE Respond(r) \/ (\E present \in SUBSET DOMAIN Divisors : HandOff(r, present))
           \/ \E c \in Clients : Receive(r, c)
  BY <1>1, <1>5 DEF Respond, HandOff, Receive, Idle
<1>6. ASSUME NEW q \in Requests, q # r, Request(q) \/ Respond(q) \/ \E c \in Clients : Receive(q, c)
      PROVE  serving'[r] = serving[r]
  BY <1>1, <1>6 DEF Request, Respond, Receive, track, Tracked, Charge, HandOff
<1>7. ASSUME NEW d \in Dims, Charge(r, d) PROVE serving[r].step = "score"
  BY <1>7 DEF Charge
<1>8. \/ UNCHANGED serving \/ Elapse
      \/ \E q \in Requests : Request(q) \/ Respond(q) \/ \E c \in Clients : Receive(q, c)
  BY DEF Next, vars, Background, StartPass, gc, tick, Stop, LoopExit, StopReturn
<1> QED BY <1>2, <1>3, <1>4, <1>5, <1>6, <1>7, <1>8 DEF Request

(* A client pays for recent traffic of an entity it shares, and only where *)
(* its country is not exempt (scoring.go: tick, computeScoreBreakdown): a  *)
(* rate decays below every threshold in QuietTicks ticks, whatever it was  *)
(* and whether or not its entry was deleted meanwhile.                     *)
THEOREM ChargesAreJustified ==
    ASSUME IdleTTL > 2 * MaxLag, NEW cool, \A d \in Dims : Cools(d, cool[d])
    PROVE  Spec => ChargesJustified
<1> DEFINE Justified == \A r \in Requests, d \in Dims :
             /\ serving'[r].step = "score" /\ d \in serving'[r].charged
             /\ ~(serving[r].step = "score" /\ d \in serving[r].charged)
             => /\ serving[r].client.country \notin PenaltyFor[d].exempt
                /\ quiet[dimensionKey(d, serving[r].client)] < QuietTicks
<1>1. Init => CoolInv(cool)
  <2> SUFFICES ASSUME Init, NEW e \in Entities PROVE Seen(e).ewma <= cool[e[1]][quiet[e]]
    BY DEF CoolInv
  <2>1. Seen(e).ewma = 0 /\ quiet[e] = QuietTicks
    BY DEF Init, Seen
  <2>2. cool[e[1]][QuietTicks] \in Nat
    BY ConstantFacts, ScoringAssumption DEF Cools
  <2> QED BY <2>1, <2>2
<1>2. RateInv /\ CoolInv(cool) /\ [Next]_vars => CoolInv(cool)'
  BY CoolStep
<1>3. RateInv /\ CoolInv(cool) /\ [Next]_vars => [Justified]_serving
  <2> SUFFICES ASSUME RateInv, CoolInv(cool), [Next]_vars, NEW r \in Requests, NEW d \in Dims,
                      serving'[r].step = "score", d \in serving'[r].charged,
                      ~(serving[r].step = "score" /\ d \in serving[r].charged)
               PROVE  /\ serving[r].client.country \notin PenaltyFor[d].exempt
                      /\ quiet[dimensionKey(d, serving[r].client)] < QuietTicks
    OBVIOUS
  <2> DEFINE e == dimensionKey(d, serving[r].client)
  <2>1. PICK x \in Dims : Charge(r, x) /\ serving[r].step = "score"
    BY OnlyChargeCharges
  <2>2. d = x /\ penaltyContribution(PenaltyFor[d], Seen(e).ewma) # 0
        /\ e \in Entities /\ e[1] = d /\ serving[r].client.country \notin PenaltyFor[d].exempt
    <3>1. LET penalty == penaltyContribution(PenaltyFor[x],
                           Seen(dimensionKey(x, serving[r].client)).ewma)
          IN  serving'[r].charged = IF penalty = 0 THEN serving[r].charged
                                    ELSE serving[r].charged \cup {x}
      BY <2>1, ChargeReads
    <3>2. d \notin serving[r].charged
      BY <2>1
    <3>3. d = x
      BY <3>1, <3>2
    <3>4. penaltyContribution(PenaltyFor[d], Seen(e).ewma) # 0
      BY <3>1, <3>2, <3>3
    <3> QED BY <2>1, <3>3, <3>4, ChargeReads
  <2>3. quiet[e] \in 0..QuietTicks /\ Seen(e).ewma \in Nat /\ QuietTicks \in Nat
    BY <2>2, FoldFacts, ScoringAssumption
  <2>4. ~(Seen(e).ewma <= Free(d))
    BY <2>2, <2>3, FreeCostsNothing
  <2>5. quiet[e] # QuietTicks
    <3> SUFFICES ASSUME quiet[e] = QuietTicks PROVE FALSE
      OBVIOUS
    <3>1. Seen(e).ewma <= cool[d][QuietTicks]
      BY <2>2 DEF CoolInv
    <3>2. cool[d][QuietTicks] \in Nat /\ cool[d][QuietTicks] <= Free(d)
      BY <2>3 DEF Cools
    <3>3. Free(d) \in Int
      BY ScoringAssumption DEF Free, Lesser
    <3> QED BY <2>3, <2>4, <3>1, <3>2, <3>3
  <2> QED BY <2>2, <2>3, <2>5
<1> QED BY <1>1, <1>2, <1>3, RateInvariance, PTL DEF Spec, ChargesJustified

(* Sustained load costs (scoring.go: tick, computeScoreBreakdown): until   *)
(* stop, a request of an entity that was above its soft threshold for      *)
(* BusyTicks ticks is charged, in whatever order its count, the tick and   *)
(* the read take the lock, and gc takes no such entity away.               *)
THEOREM LoadCosts ==
    ASSUME IdleTTL >= 3 * MaxLag + 2, NEW climb, \A d \in Dims : Climbs(d, climb[d])
    PROVE  Spec => SustainedLoadCosts
<1> DEFINE Costs == \A r \in Requests, d \in Dims :
             /\ serving[r].step = "score" /\ d \in serving[r].todo
             /\ serving'[r].step = "score" /\ d \notin serving'[r].todo
             /\ busy[dimensionKey(d, serving[r].client)] >= BusyTicks /\ life = "running"
             => d \in serving'[r].charged
<1>1. IdleTTL > 2 * MaxLag
  BY ConstantFacts
<1>2. Init => ClimbInv(climb)
  BY ConstantFacts DEF Init, ClimbInv, Seen, Climbs
<1>3. RateInv /\ ClimbInv(climb) /\ [Next]_vars => ClimbInv(climb)'
  BY ClimbStep
<1>4. RateInv /\ ClimbInv(climb) /\ [Next]_vars => [Costs]_serving
  <2> SUFFICES ASSUME RateInv, ClimbInv(climb), [Next]_vars, NEW r \in Requests, NEW d \in Dims,
                      serving[r].step = "score", d \in serving[r].todo,
                      serving'[r].step = "score", d \notin serving'[r].todo,
                      busy[dimensionKey(d, serving[r].client)] >= BusyTicks, life = "running"
               PROVE  d \in serving'[r].charged
    OBVIOUS
  <2> DEFINE e == dimensionKey(d, serving[r].client)
  <2>1. PICK x \in Dims : Charge(r, x)
    BY OnlyChargeCharges
  <2>2. d = x /\ e \in Entities /\ e[1] = d
        /\ serving'[r].charged =
             IF penaltyContribution(PenaltyFor[d], Seen(e).ewma) = 0 THEN serving[r].charged
             ELSE serving[r].charged \cup {d}
    BY <2>1, ChargeReads
  <2>3. /\ busy[e] = BusyTicks /\ Seen(e).ewma \in Nat /\ PenaltyFor[d].soft \in Int
        /\ climb[d][BusyTicks] <= Seen(e).ewma
    <3>1. busy[e] \in 0..BusyTicks /\ BusyTicks \in Nat
      BY <2>2, FoldFacts, ScoringAssumption
    <3> QED BY <2>2, <3>1, FoldFacts DEF ClimbInv
  <2>4. /\ climb[d][BusyTicks] \in Nat /\ climb[d][BusyTicks] > PenaltyFor[d].soft * Scale
        /\ PenaltyFor[d].softPenalty # 0 /\ PenaltyFor[d].hardPenalty # 0
    <3>1. Climbs(d, climb[d]) /\ BusyTicks \in 0..BusyTicks
      BY ScoringAssumption
    <3> QED BY <3>1 DEF Climbs
  <2>5. PenaltyFor[d].soft * Scale \in Int
    BY <2>3, ConstantFacts
  <2>6. Seen(e).ewma > PenaltyFor[d].soft * Scale
    BY <2>3, <2>4, <2>5
  <2> QED BY <2>2, <2>3, <2>4, <2>6, AboveSoftCosts
<1> QED BY <1>1, <1>2, <1>3, <1>4, RateInvariance, PTL DEF Spec, SustainedLoadCosts

(* Until stop, gc forgives nobody (scoring.go: gc against track and tick): *)
(* an entity it deletes has faded so far that it was not being penalised,  *)
(* however late the ticks came and however many of them were dropped.      *)
THEOREM NobodyForgiven ==
    ASSUME IdleTTL > 2 * MaxLag, NEW fade, \A d \in Dims : Fades(d, fade[d])
    PROVE  Spec => GcForgivesNobody
<1> DEFINE Forgiven == \A e \in DOMAIN entries \ DOMAIN entries' :
             life = "running" => penaltyContribution(PenaltyFor[e[1]], entries[e].ewma) = 0
<1>1. Init => FadeInv(fade)
  BY DEF Init, FadeInv
<1>2. RateInv /\ FadeInv(fade) /\ [Next]_vars => FadeInv(fade)'
  BY FadeStep, NextRateInv
<1>3. RateInv /\ FadeInv(fade) /\ [Next]_vars => [Forgiven]_entries
  <2> SUFFICES ASSUME RateInv, FadeInv(fade), [Next]_vars,
                      NEW e \in DOMAIN entries \ DOMAIN entries', life = "running"
               PROVE  penaltyContribution(PenaltyFor[e[1]], entries[e].ewma) = 0
    OBVIOUS
  <2>1. e \in Entities /\ e[1] \in Dims /\ entries[e].ewma = Seen(e).ewma /\ Seen(e).ewma \in Nat
    <3>1. e \in Entities
      BY DEF RateInv, ScoringInv, TypeInv
    <3> QED BY <3>1, FoldFacts DEF Seen
  <2>2. Drops(e)
    BY <2>1, EntityStep DEF RateInv, Folds, Keeps
  <2>3. PICK n \in 0..IdleTTL : entries[e].ewma <= fade[e[1]][n]
                                /\ FadedBy(n, entries[e].age, loops["tick"], e[1])
    BY DEF FadeInv
  <2>4. n \in Nat /\ IdleTTL \in Nat /\ MaxLag \in Nat
    BY <2>3, ConstantFacts
  <2>5. 2 * MaxLag + 1 + (n + 1) * (MaxLag + 1) > IdleTTL
    <3>1. CASE n = IdleTTL
      <4>1. (n + 1) * (MaxLag + 1) = n * MaxLag + n + MaxLag + 1 /\ n * MaxLag \in Nat
        BY <2>4
      <4> QED BY <2>4, <3>1, <4>1
    <3>2. CASE n # IdleTTL
      <4>1. Within(entries[e].age, loops["tick"], e[1], Bound(n))
        BY <2>3, <3>2 DEF FadedBy, Bound
      <4> QED BY <2>1, <2>2, <2>4, <4>1, DroppedIsOld, BoundFacts
    <3> QED BY <3>1, <3>2
  <2>6. fade[e[1]][n] <= Free(e[1]) /\ fade[e[1]][n] \in Nat
    BY <2>1, <2>3, <2>5 DEF Fades
  <2>7. Free(e[1]) \in Int
    BY <2>1, ScoringAssumption DEF Free, Lesser
  <2>8. Seen(e).ewma <= Free(e[1])
    BY <2>1, <2>3, <2>6, <2>7
  <2> QED BY <2>1, <2>8, FreeCostsNothing
<1> QED BY <1>1, <1>2, <1>3, RateInvariance, PTL DEF Spec, GcForgivesNobody

-----------------------------------------------------------------------------
(* The end: what stop waits for.                                           *)

Passing == [alive : BOOLEAN, due : Int, todo : SUBSET Dims, lag : Int]

(* A goroutine that has left is in no pass, and once stop has returned     *)
(* both have left.                                                         *)
StillInv ==
    /\ loops \in [{"tick", "gc"} -> Passing]
    /\ \A l \in {"tick", "gc"} : loops[l].alive \/ loops[l].todo = {}
    /\ life = "stopped" => \A l \in {"tick", "gc"} : ~loops[l].alive

(* The rest of a pass is of the same goroutine.                            *)
LEMMA PassingRest ==
    ASSUME NEW loop \in Passing, NEW d \in Dims
    PROVE  /\ PassRest(loop, d) \in Passing
           /\ PassRest(loop, d).alive = loop.alive /\ PassRest(loop, d).todo = loop.todo \ {d}
<1>1. \A t \in SUBSET Dims, g \in Int :
        LET x == [loop EXCEPT !.todo = t, !.lag = g]
        IN  x \in Passing /\ x.alive = loop.alive /\ x.todo = t
  BY DEF Passing
<1>2. loop.todo \ {d} \in SUBSET Dims /\ (IF loop.todo = {d} THEN 0 ELSE loop.lag) \in Int
  BY DEF Passing
<1> DEFINE rest == [loop EXCEPT !.todo = loop.todo \ {d},
                                !.lag = IF loop.todo = {d} THEN 0 ELSE loop.lag]
<1>3. PassRest(loop, d) = rest
  BY DEF PassRest
<1>4. rest \in Passing /\ rest.alive = loop.alive /\ rest.todo = loop.todo \ {d}
  BY <1>1, <1>2
<1> QED BY <1>3, <1>4

(* Every step keeps it.                                                    *)
LEMMA NextStillInv == StillInv /\ [Next]_vars => StillInv'
<1> SUFFICES ASSUME StillInv, [Next]_vars PROVE StillInv'
  OBVIOUS
<1> USE DEF StillInv
<1>1. CASE UNCHANGED <<loops, life>>
  BY <1>1
<1>2. ASSUME NEW r \in Requests, Request(r) \/ Respond(r) \/ \E c \in Clients : Receive(r, c)
      PROVE  UNCHANGED <<loops, life>>
  BY <1>2 DEF Request, track, Tracked, Charge, HandOff, Respond, Receive
<1>3. ASSUME NEW l \in {"tick", "gc"}, StartPass(l)
      PROVE  StillInv'
  BY <1>3 DEF StartPass, Passing, NoTick
<1>4. ASSUME NEW l \in {"tick", "gc"}, NEW d \in Dims, d \in loops[l].todo,
             loops' = [loops EXCEPT ![l] = PassRest(@, d)], UNCHANGED life
      PROVE  StillInv'
  <2>1. loops[l] \in Passing
    OBVIOUS
  <2>2. loops' = [loops EXCEPT ![l] = PassRest(loops[l], d)]
    BY <1>4
  <2> QED BY <1>4, <2>1, <2>2, PassingRest
<1>5. ASSUME NEW l \in {"tick", "gc"}, Background(l)
      PROVE  StillInv'
  BY <1>3, <1>4, <1>5 DEF Background, tick, gc, history
<1>6. ASSUME NEW l \in {"tick", "gc"}, LoopExit(l)
      PROVE  StillInv'
  <2>1. loops' = [loops EXCEPT ![l] = Stopped] /\ UNCHANGED life
    BY <1>6 DEF LoopExit
  <2>2. /\ Stopped \in Passing
        /\ Stopped.alive = FALSE /\ Stopped.todo = {}
    BY DEF Stopped, Passing, NoTick
  <2> QED BY <2>1, <2>2
<1>7. CASE Stop \/ StopReturn
  BY <1>7 DEF Stop, StopReturn
<1>8. CASE Elapse
  <2>1. \A l \in {"tick", "gc"}, rings \in BOOLEAN :
          /\ Ring(loops[l], rings) \in Passing
          /\ Ring(loops[l], rings).alive = loops[l].alive /\ Ring(loops[l], rings).todo = loops[l].todo
    BY DEF Ring, Passing, NoTick
  <2> QED BY <1>8, <2>1 DEF Elapse
<1>9. DOMAIN loops = {"tick", "gc"}
  OBVIOUS
<1> QED BY <1>1, <1>2, <1>5, <1>6, <1>7, <1>8, <1>9 DEF Next, vars

(* Once stop has returned only requests touch the entries (scoring.go:     *)
(* stop, runTickLoop, runGCLoop): both goroutines have left, each after    *)
(* the pass it was in.                                                     *)
THEOREM StopIsFinal == Spec => StoppedIsStill
<1>1. Init => StillInv
  <2>1. Stopped \in Passing
    BY DEF Stopped, Passing, NoTick
  <2>2. \A x \in Passing : [x EXCEPT !.alive = TRUE] \in Passing /\ [x EXCEPT !.alive = TRUE].alive
    BY DEF Passing
  <2> QED BY <2>1, <2>2 DEF Init, StillInv
<1>2. StillInv /\ [Next]_vars =>
        [life = "stopped" => \E r \in Requests, d \in Dims : track(r, d)]_entries
  <2> SUFFICES ASSUME StillInv, Next, life = "stopped", entries' # entries
               PROVE  \E r \in Requests, d \in Dims : track(r, d)
    BY DEF vars
  <2>1. ASSUME NEW l \in {"tick", "gc"}, Background(l) \/ LoopExit(l)
        PROVE  UNCHANGED entries
    BY <2>1 DEF StillInv, Background, StartPass, tick, gc, LoopExit
  <2>2. ASSUME NEW r \in Requests, Request(r) \/ Respond(r) \/ \E c \in Clients : Receive(r, c)
        PROVE  UNCHANGED entries \/ \E d \in Dims : track(r, d)
    BY <2>2 DEF Request, Tracked, Charge, HandOff, Respond, Receive
  <2>3. DOMAIN loops = {"tick", "gc"}
    BY DEF StillInv
  <2> QED BY <2>1, <2>2, <2>3 DEF Next, Stop, StopReturn, Elapse
<1> QED BY <1>1, <1>2, NextStillInv, PTL DEF Spec, StoppedIsStill
=============================================================================
