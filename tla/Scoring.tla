------------------------------ MODULE Scoring ------------------------------
(* The fairness scores (fairness/scoring.go): ServeHTTP counts a request   *)
(* under each of its dimensions and reads the rates back, one lock at a    *)
(* time, while two goroutines of the handler fold the counts into rates    *)
(* (tick) and delete idle entries (gc).                                    *)
(*                                                                         *)
(* The unit of time is one ewma_tick_interval. An instant is kept as its   *)
(* age: entries[e].age is the time since LastSeen, a request's lag the     *)
(* time since its clock reading, a loop's lag the time since the instant   *)
(* its ticker sent. Rates are integers in units of 1/Scale, rounded down,  *)
(* and alpha is 1/AlphaInverse, in (0, 1]: parsePenaltyArgs accepts other  *)
(* values, also negative ones and ones above 1, of which nothing is said   *)
(* here.                                                                   *)
EXTENDS Integers, FiniteSets, FiniteSetsExt, Functions

CONSTANTS
    Requests,     \* goroutines serving a request
    Clients,      \* what classify may return: [class, country, keys]
    Dims,         \* the dimensions a `penalty` line enables
    PenaltyFor,   \* [Dims -> [soft, softPenalty, hard, hardPenalty, exempt]]
    BaseScores, MinScore, MaxScore,
    Divisors,     \* query parameter -> divisor
    Scale,        \* resolution of a rate
    AlphaInverse, \* alpha is 1/AlphaInverse, 5 in the default profiles
    IdleTTL,      \* idle_entry_ttl
    SweepEvery,   \* gcSweepInterval
    MaxPending,   \* bound on the requests an entity sends in a tick
    MaxLag,       \* bound on how late a goroutine acts on an instant
    QuietTicks, BusyTicks   \* lengths of history the properties ask about

ASSUME ScoringAssumption ==
    /\ {Scale, AlphaInverse, IdleTTL, SweepEvery} \subseteq Nat \ {0}
    /\ \A d \in Dims : {PenaltyFor[d].soft, PenaltyFor[d].hard} \subseteq Int
    /\ {MaxPending, MaxLag, QuietTicks, BusyTicks} \subseteq Nat
    /\ \A c \in Clients : DOMAIN c.keys \subseteq Dims
    /\ IsFiniteSet(Requests)

VARIABLES
    entries,      \* entity -> ClientStats, for the entities tracked
    serving,      \* request -> its progress through ServeHTTP
    loops,        \* the two background goroutines and their tickers
    untilSweep,   \* time to the next instant of the gc ticker
    life,         \* "running", "stopping" (stop waits), "stopped"
    sent, quiet, busy   \* history: requests since the last tick, and for how
                        \* many ticks in a row they were under / over soft

vars == <<entries, serving, loops, untilSweep, life, sent, quiet, busy>>

Lesser(a, b) == IF a < b THEN a ELSE b

(* dimensionKey: an entity is a dimension with a key; a client has no key  *)
(* for a dimension that does not apply to it.                              *)
dimensionKey(d, c) == <<d, c.keys[d]>>
Entities == UNION {{dimensionKey(d, c) : d \in DOMAIN c.keys} : c \in Clients}
InDim(d) == {e \in Entities : e[1] = d}

Idle == [step |-> "idle"]
NoTick == -1
Stopped == [alive |-> FALSE, due |-> NoTick, todo |-> {}, lag |-> 0]

Init ==
    /\ entries = <<>>
    /\ serving = [r \in Requests |-> Idle]
    /\ loops = [l \in {"tick", "gc"} |-> [Stopped EXCEPT !.alive = TRUE]]
    /\ untilSweep = SweepEvery
    /\ life = "running"
    /\ sent = [e \in Entities |-> 0]
    /\ quiet = [e \in Entities |-> QuietTicks]
    /\ busy = [e \in Entities |-> 0]

history == <<sent, quiet, busy>>

(* ------------------------------ a request ------------------------------ *)

Awaiting(e) ==
    {r \in Requests : /\ serving[r].step = "count"
                      /\ e \in {dimensionKey(d, serving[r].client) : d \in serving[r].todo}}

(* ServeHTTP reads the clock once, before it takes any lock.               *)
Receive(r, c) ==
    /\ serving[r] = Idle
    /\ \A d \in DOMAIN c.keys :
         sent[dimensionKey(d, c)] + Cardinality(Awaiting(dimensionKey(d, c))) < MaxPending
    /\ serving' = [serving EXCEPT ![r] =
         [step |-> "count", client |-> c, lag |-> 0,
          todo |-> DOMAIN c.keys, charged |-> {}, penalty |-> 0]]
    /\ UNCHANGED <<entries, loops, untilSweep, life, history>>

Seen(e) == IF e \in DOMAIN entries THEN entries[e] ELSE [age |-> 0, ewma |-> 0, pending |-> 0]

(* mutant: LastSeen is set only when the entry is made                     *)
Counted_KeepsLastSeen(e, lag) ==
    [Seen(e) EXCEPT !.age = IF e \in DOMAIN entries THEN @ ELSE lag, !.pending = @ + 1]

Counted(e, lag) == [Seen(e) EXCEPT !.age = lag, !.pending = @ + 1]

(* track, the critical section of one dimension                            *)
track(r, d) ==
    LET e == dimensionKey(d, serving[r].client) IN
    /\ serving[r].step = "count" /\ d \in serving[r].todo
    /\ entries' = [x \in DOMAIN entries \cup {e} |->
         IF x = e THEN Counted(e, serving[r].lag) ELSE entries[x]]
    /\ serving' = [serving EXCEPT ![r].todo = @ \ {d}]
    /\ sent' = [sent EXCEPT ![e] = @ + 1]
    /\ UNCHANGED <<loops, untilSweep, life, quiet, busy>>

Exempt_Nobody(d, c) == FALSE   \* mutant: exempt_country is parsed and not consulted

Exempt(d, c) == c.country \in PenaltyFor[d].exempt

(* The end of track: what computeScoreBreakdown will read                  *)
Tracked(r) ==
    /\ serving[r].step = "count" /\ serving[r].todo = {}
    /\ LET c == serving[r].client IN
       serving' = [serving EXCEPT ![r].step = "score",
                                  ![r].todo = {d \in DOMAIN c.keys : ~Exempt(d, c)}]
    /\ UNCHANGED <<entries, loops, untilSweep, life, history>>

penaltyContribution(pc, rps) ==
    CASE rps > pc.hard * Scale -> pc.hardPenalty
      [] rps <= pc.hard * Scale /\ rps > pc.soft * Scale -> pc.softPenalty
      [] OTHER -> 0

entryEWMARPS(e) == IF e \in DOMAIN entries THEN entries[e].ewma ELSE 0

(* computeScoreBreakdown, the read of one dimension                        *)
Charge(r, d) ==
    LET penalty == penaltyContribution(PenaltyFor[d],
                       entryEWMARPS(dimensionKey(d, serving[r].client)))
    IN  /\ serving[r].step = "score" /\ d \in serving[r].todo
        /\ serving' = [serving EXCEPT ![r].todo = @ \ {d},
                                      ![r].penalty = @ + penalty,
                                      ![r].charged = IF penalty = 0 THEN @ ELSE @ \cup {d}]
        /\ UNCHANGED <<entries, loops, untilSweep, life, history>>

clamp(v, min, max) ==
    CASE v < min -> min
      [] v >= min /\ v > max -> max
      [] OTHER -> v

priorityDivisor(present) == FoldFunctionOnSet(LAMBDA x, y : x * y, 1, Divisors, present)

(* A class without a base score has that of anonymous requests, or none.   *)
baseScoreFor(uc) ==
    IF uc \in DOMAIN BaseScores THEN BaseScores[uc]
    ELSE IF "anonymous" \in DOMAIN BaseScores THEN BaseScores["anonymous"] ELSE 0

computeScore(s) == clamp(baseScoreFor(s.client.class) - s.penalty, MinScore, MaxScore)

(* The score is divided by what the query asks for and set on the request, *)
(* and the next handler runs.                                              *)
HandOff(r, present) ==
    /\ serving[r].step = "score" /\ serving[r].todo = {}
    /\ serving' = [serving EXCEPT ![r] =
         [step |-> "next", score |-> computeScore(serving[r]) \div priorityDivisor(present)]]
    /\ UNCHANGED <<entries, loops, untilSweep, life, history>>

Respond(r) ==
    /\ serving[r].step = "next"
    /\ serving' = [serving EXCEPT ![r] = Idle]
    /\ UNCHANGED <<entries, loops, untilSweep, life, history>>

(* --------------------------- the two goroutines ------------------------ *)

(* select with a value in the ticker's channel: a pass over the dimensions *)
(* (tick ignores the instant it is given)                                  *)
StartPass(l) ==
    /\ loops[l].alive /\ loops[l].todo = {} /\ loops[l].due # NoTick
    /\ loops' = [loops EXCEPT ![l].todo = Dims, ![l].due = NoTick,
                              ![l].lag = IF l = "gc" THEN loops[l].due ELSE 0]
    /\ UNCHANGED <<entries, serving, untilSweep, life, history>>

PassRest(loop, d) ==
    [loop EXCEPT !.todo = @ \ {d}, !.lag = IF loop.todo = {d} THEN 0 ELSE @]

(* alpha * rate + (1 - alpha) * EWMARPS                                    *)
blend(pending, rate) == (pending * Scale + (AlphaInverse - 1) * rate) \div AlphaInverse

(* mutants: entities without requests are skipped; the rate is forgotten   *)
ewma_ActiveOnly(entry) ==
    IF entry.pending = 0 THEN entry.ewma ELSE blend(entry.pending, entry.ewma)
ewma_Memoryless(entry) == (entry.pending * Scale) \div AlphaInverse

ewma(entry) == blend(entry.pending, entry.ewma)

(* mutant: a tick counts as having seen the entity                         *)
Folded_Touches(entry) == [entry EXCEPT !.pending = 0, !.ewma = ewma(entry), !.age = 0]

Folded(entry) == [entry EXCEPT !.pending = 0, !.ewma = ewma(entry)]

(* tick, the critical section of one dimension                             *)
tick(d) ==
    /\ d \in loops["tick"].todo
    /\ loops' = [loops EXCEPT !["tick"] = PassRest(@, d)]
    /\ entries' = [e \in DOMAIN entries |->
         IF e \in InDim(d) THEN Folded(entries[e]) ELSE entries[e]]
    /\ quiet' = [e \in Entities |->
         IF e \notin InDim(d) THEN quiet[e]
         ELSE IF sent[e] < PenaltyFor[d].soft THEN Lesser(quiet[e] + 1, QuietTicks) ELSE 0]
    /\ busy' = [e \in Entities |->
         IF e \notin InDim(d) THEN busy[e]
         ELSE IF sent[e] > PenaltyFor[d].soft THEN Lesser(busy[e] + 1, BusyTicks) ELSE 0]
    /\ sent' = [e \in Entities |-> IF e \in InDim(d) THEN 0 ELSE sent[e]]
    /\ UNCHANGED <<serving, untilSweep, life>>

(* gc(now): now is the instant its ticker sent                             *)
Reclaimable(e, lag) == entries[e].age - lag > IdleTTL

gc(d) ==
    /\ d \in loops["gc"].todo
    /\ loops' = [loops EXCEPT !["gc"] = PassRest(@, d)]
    /\ entries' = Restrict(entries,
         {e \in DOMAIN entries : ~(e \in InDim(d) /\ Reclaimable(e, loops["gc"].lag))})
    /\ UNCHANGED <<serving, untilSweep, life, history>>

(* stop closes the channel and waits for both goroutines to leave their    *)
(* select; a goroutine that is in a pass finishes it, and one that finds   *)
(* both cases ready may make one more.                                     *)
Stop ==
    /\ life = "running" /\ life' = "stopping"
    /\ UNCHANGED <<entries, serving, loops, untilSweep, history>>

LoopExit(l) ==
    /\ loops[l].alive /\ loops[l].todo = {} /\ life # "running"
    /\ loops' = [loops EXCEPT ![l] = Stopped]
    /\ UNCHANGED <<entries, serving, untilSweep, life, history>>

(* mutant: stop does not wait for the two goroutines                       *)
StopReturn_NoWait ==
    /\ life = "stopping"
    /\ life' = "stopped"
    /\ UNCHANGED <<entries, serving, loops, untilSweep, history>>

StopReturn ==
    /\ life = "stopping" /\ \A l \in DOMAIN loops : ~loops[l].alive
    /\ life' = "stopped"
    /\ UNCHANGED <<entries, serving, loops, untilSweep, history>>

(* -------------------------------- time --------------------------------- *)

Oldest == IdleTTL + MaxLag + 1   \* ages saturate here, past every comparison

(* A ticker drops an instant its channel has no room for.                  *)
Ring(loop, rings) ==
    [loop EXCEPT !.due = IF @ # NoTick THEN @ + 1 ELSE IF rings /\ loop.alive THEN 0 ELSE NoTick]

(* A unit passes, unless some goroutine is already MaxLag late; a pass     *)
(* over the maps takes less than a unit. Nothing reads an age again once   *)
(* both goroutines have left.                                              *)
Elapse ==
    /\ life # "stopped"
    /\ \A r \in Requests : serving[r].step = "count" => serving[r].lag < MaxLag
    /\ \A l \in DOMAIN loops :
         loops[l].due < MaxLag /\ loops[l].todo = {}
    /\ entries' = [e \in DOMAIN entries |->
         [entries[e] EXCEPT !.age = Lesser(@ + 1, Oldest)]]
    /\ serving' = [r \in Requests |->
         IF serving[r].step = "count" THEN [serving[r] EXCEPT !.lag = @ + 1] ELSE serving[r]]
    /\ untilSweep' = IF untilSweep = 1 THEN SweepEvery ELSE untilSweep - 1
    /\ loops' = [l \in DOMAIN loops |-> Ring(loops[l], l = "tick" \/ untilSweep = 1)]
    /\ UNCHANGED <<life, history>>

Request(r) ==
    \/ \E d \in Dims : track(r, d) \/ Charge(r, d)
    \/ Tracked(r)
    \/ \E present \in SUBSET DOMAIN Divisors : HandOff(r, present)

Background(l) == StartPass(l) \/ \E d \in Dims : (l = "tick" /\ tick(d)) \/ (l = "gc" /\ gc(d))

Next ==
    \/ \E r \in Requests : Request(r) \/ Respond(r) \/ \E c \in Clients : Receive(r, c)
    \/ \E l \in DOMAIN loops : Background(l) \/ LoopExit(l)
    \/ Stop \/ StopReturn \/ Elapse

Spec == Init /\ [][Next]_vars

(* Time passes, the goroutines are scheduled, and nothing is promised of   *)
(* the traffic, the next handler or the config that calls stop.            *)
FairSpec ==
    /\ Spec
    /\ WF_vars(Elapse)
    /\ \A r \in Requests : WF_vars(Request(r))
    /\ \A l \in {"tick", "gc"} : WF_vars(Background(l)) /\ SF_vars(LoopExit(l))

(* ------------------------------ properties ----------------------------- *)

(* The state is well typed: ages, rates and counts within their bounds,    *)
(* and a score handed on within the configured range before its divisor.   *)
TypeOK ==
    /\ DOMAIN entries \subseteq Entities
    /\ \A e \in DOMAIN entries : entries[e] \in
         [age : 0..Oldest, ewma : 0..MaxPending * Scale, pending : 0..MaxPending]
    /\ \A r \in Requests : serving[r].step \in {"idle", "count", "score", "next"}
    /\ \A r \in Requests : serving[r].step = "next" =>
         serving[r].score \in {v \div priorityDivisor(p) :
                                 v \in MinScore..MaxScore, p \in SUBSET DOMAIN Divisors}
    /\ \A l \in {"tick", "gc"} :
         loops[l] \in [alive : BOOLEAN, due : NoTick..MaxLag, todo : SUBSET Dims, lag : 0..MaxLag]
    /\ untilSweep \in 1..SweepEvery
    /\ life \in {"running", "stopping", "stopped"}
    /\ sent \in [Entities -> 0..MaxPending]

(* Until stop, no request drops out of the count: what the next tick will fold into an *)
(* entity's rate is what was tracked since the last one, whatever gc       *)
(* deletes and whichever request finds no entry (scoring.go:481-488, 516,  *)
(* 533-537).                                                               *)
EveryRequestCounted ==
    life = "running" => \A e \in Entities : Seen(e).pending = sent[e]

(* What the constants must be for the three properties that follow, each in *)
(* terms of a sequence of bounds on a rate. No request of a dimension is    *)
(* charged while its rates are at most Free.                               *)
Free(d) == Lesser(PenaltyFor[d].soft, PenaltyFor[d].hard) * Scale

(* fade[n] bounds a rate after n ticks without a request, and of these one  *)
(* in MaxLag + 1 at least is not dropped: a rate has faded to Free before  *)
(* its entry, last seen MaxLag before a late tick, is older than IdleTTL.  *)
Fades(d, fade) ==
    /\ fade \in [0..IdleTTL -> Nat]
    /\ \A n \in 0..IdleTTL :
         /\ blend(MaxPending, fade[n]) <= fade[0]
         /\ blend(0, fade[n]) <= fade[Lesser(n + 1, IdleTTL)]
         /\ 2 * MaxLag + 1 + (n + 1) * (MaxLag + 1) > IdleTTL => fade[n] <= Free(d)

(* climb[n] is what a rate has reached after n busy ticks.                 *)
Climbs(d, climb) ==
    /\ climb \in [0..BusyTicks -> Nat] /\ climb[0] = 0
    /\ \A n \in 0..BusyTicks :
         climb[Lesser(n + 1, BusyTicks)] <= blend(PenaltyFor[d].soft + 1, climb[n])
    /\ climb[BusyTicks] > PenaltyFor[d].soft * Scale
    /\ PenaltyFor[d].soft >= 0 /\ PenaltyFor[d].softPenalty # 0 /\ PenaltyFor[d].hardPenalty # 0

(* cool[n] bounds a rate after n quiet ticks.                              *)
Cools(d, cool) ==
    /\ cool \in [0..QuietTicks -> Nat]
    /\ \A n \in 0..QuietTicks :
         /\ blend(MaxPending, cool[n]) <= cool[0]
         /\ blend(PenaltyFor[d].soft - 1, cool[n]) <= cool[Lesser(n + 1, QuietTicks)]
    /\ cool[QuietTicks] <= Free(d)

(* Until stop, gc reclaims memory and forgives nobody: an entity it deletes was not    *)
(* being penalised (scoring.go:534).                                       *)
GcForgivesNobody ==
    [][\A e \in DOMAIN entries \ DOMAIN entries' :
          life = "running" => penaltyContribution(PenaltyFor[e[1]], entries[e].ewma) = 0]_entries

(* A request whose entity has been over its soft threshold for BusyTicks   *)
(* ticks is charged, unless its country is exempt.                         *)
SustainedLoadCosts ==
    [][\A r \in Requests, d \in Dims :
         /\ serving[r].step = "score" /\ d \in serving[r].todo
         /\ serving'[r].step = "score" /\ d \notin serving'[r].todo
         /\ busy[dimensionKey(d, serving[r].client)] >= BusyTicks /\ life = "running"
         => d \in serving'[r].charged]_serving

(* A request is charged only for a dimension its country is not exempt     *)
(* from, and only when the entity it shares has not been below the soft    *)
(* threshold for QuietTicks ticks: a penalty decays on its own, and the    *)
(* traffic of an exempt client in the same network is the only thing of    *)
(* its that another client pays for.                                       *)
ChargesJustified ==
    [][\A r \in Requests, d \in Dims :
         /\ serving'[r].step = "score" /\ d \in serving'[r].charged
         /\ ~(serving[r].step = "score" /\ d \in serving[r].charged)
         => /\ serving[r].client.country \notin PenaltyFor[d].exempt
            /\ quiet[dimensionKey(d, serving[r].client)] < QuietTicks]_serving

(* Once stop has returned only requests that are still served touch the    *)
(* entries: no tick folds and no sweep deletes them, although either       *)
(* goroutine may begin one more pass after the channel was closed          *)
(* (scoring.go:455-463).                                                   *)
StoppedIsStill ==
    [][life = "stopped" => \E r \in Requests, d \in Dims : track(r, d)]_entries

(* When requests stop coming to a running handler, its memory is given     *)
(* back (docs/REQUIREMENTS.md 3.2).                                        *)
MemoryReclaimed ==
    (<>[](\A r \in Requests : serving[r].step \in {"idle", "next"}) /\ [](life = "running"))
      => <>[](entries = <<>>)

=============================================================================
