--------------------------- MODULE AdmissionHandler ---------------------------
(* The adaptive_admission handlers of a running server over its config     *)
(* loads: Provision and Cleanup (adaptiveadmission/module.go), the requests *)
(* that ServeHTTP and dispatch take through them, the registry of the App  *)
(* of each load (app.go) and the gauges all loads share (metrics.go).      *)
(*                                                                         *)
(* Composes what Scheduler and Controller model in detail: here a handler's *)
(* dispatch loop, its requests and its adjustment loop are steps that      *)
(* acquire a unit, grant it, return it and change the limit. Which request *)
(* is granted, when a projected wait turns one away and which branch       *)
(* adjust() takes are left open; next does not panic (see scheduler_panic).*)
(*                                                                         *)
(* External: the host provisions the handlers of a load one by one, serves *)
(* the new load, then stops accepting on the old one and cleans its        *)
(* handlers up in any order, without waiting for the requests inside them; *)
(* ctx.App succeeds, since App.Provision (app.go) cannot fail.             *)
EXTENDS AdmissionBlock, AdaptiveLimit, FiniteSetsExt

CONSTANTS
    Requests,
    MaxLoads,      \* bound on the config loads
    MaxBlocks,     \* bound on the blocks of a config
    Configs        \* load -> its configs: sequences of blocks, a block the sequence of its lines

ASSUME HandlerAssumption ==
    /\ IsFiniteSet(Requests) /\ MaxLoads \in Nat /\ MaxBlocks \in Nat
    /\ DOMAIN Configs = 1..MaxLoads
    /\ \A l \in 1..MaxLoads : \A c \in Configs[l] : Len(c) <= MaxBlocks

Loads == 1..MaxLoads
Handlers == Loads \X (1..MaxBlocks)
Nowhere == <<0, 0>>

VARIABLES
    load,       \* load -> "none", "refused", "provisioning", "serving", "retiring", "failed", "over"
    block,      \* handler -> its parsed block
    phase,      \* handler -> "none", "new", "rejected", "running", "draining" (in Scheduler.Stop),
                \*   "drained" (in Controller.Stop), "cleaned"
    limit,      \* handler -> the controller's limit
    inFlight,   \* handler -> its units out
    ahead,      \* handlers whose dispatch loop holds a unit
    sampled,    \* handlers whose outcome window holds a sample
    changed,    \* handlers whose adjust loop is about to call onLimitChange
    handlers,   \* load -> the App's registry: label -> handler
    limitGauge, inFlightGauge,   \* label -> value of the gauge, shared by all loads
    pc,         \* request -> "new", "arrived" (in ServeHTTP), "queued", "granted", "admitting"
                \*   (InFlight read, gauge not yet set), "running", "released", "leaving" (like
                \*   "admitting"), "done"
    at,         \* request -> its handler
    reading     \* request -> what InFlight() returned to it

hostVars == <<load, block, handlers>>
controllerVars == <<limit, sampled, changed>>
unitVars == <<inFlight, ahead>>
requestVars == <<pc, at, reading>>
vars == <<hostVars, phase, controllerVars, unitVars, limitGauge, inFlightGauge, requestVars>>

Label(h) == block[h].label
Of(l) == {h \in Handlers : h[1] = l /\ phase[h] # "none"}
In(p) == {h \in Handlers : phase[h] = p}
Live == In("running") \cup In("draining") \cup In("drained")
Inside(h) == {r \in Requests : at[r] = h /\ pc[r] \notin {"new", "done"}}
Working(h) == {r \in Requests : at[r] = h /\ pc[r] \in {"granted", "admitting", "running"}}

Init ==
    /\ load = [l \in Loads |-> "none"]
    /\ block = [h \in Handlers |-> NewBlock] /\ phase = [h \in Handlers |-> "none"]
    /\ limit = [h \in Handlers |-> 0] /\ inFlight = [h \in Handlers |-> 0]
    /\ ahead = {} /\ sampled = {} /\ changed = {}
    /\ handlers = [l \in Loads |-> <<>>]
    /\ limitGauge = <<>> /\ inFlightGauge = <<>>
    /\ pc = [r \in Requests |-> "new"] /\ at = [r \in Requests |-> Nowhere]
    /\ reading = [r \in Requests |-> 0]

Put(f, k, v) == [x \in DOMAIN f \cup {k} |-> IF x = k THEN v ELSE f[x]]
Drop(f, k) == [x \in DOMAIN f \ {k} |-> f[x]]

(* ------------------------------- the host -------------------------------- *)

Adapt(l, c) ==
    /\ load[l] = "none" /\ \A m \in 1..(l - 1) : load[m] \in {"refused", "serving", "over"}
    /\ LET parsed == [i \in DOMAIN c |-> UnmarshalCaddyfile(c[i])]
           mine == {<<l, i>> : i \in DOMAIN c}
       IN /\ load' = [load EXCEPT ![l] = IF \A i \in DOMAIN c : parsed[i].ok THEN "provisioning"
                                         ELSE "refused"]
          /\ block' = [h \in Handlers |-> IF h \in mine THEN parsed[h[2]] ELSE block[h]]
          /\ phase' = [h \in Handlers |-> IF h \in mine THEN "new" ELSE phase[h]]
    /\ UNCHANGED <<handlers, controllerVars, unitVars, limitGauge, inFlightGauge, requestVars>>

registerHandler(h) == Put(handlers[h[1]], Label(h), h)

(* The gauge is set before the old handler of the label stops setting it.   *)
Provision(h) ==
    /\ load[h[1]] = "provisioning" /\ phase[h] = "new"
    /\ \A g \in Of(h[1]) : g[2] < h[2] => phase[g] = "running"
    /\ \/ /\ ~Buildable(block[h])
          /\ phase' = [phase EXCEPT ![h] = "rejected"]
          /\ load' = [load EXCEPT ![h[1]] = "failed"]
          /\ UNCHANGED <<limit, limitGauge, handlers>>
       \/ /\ Buildable(block[h])
          /\ limit' = [limit EXCEPT ![h] = StartLimit(block[h])]
          /\ limitGauge' = Put(limitGauge, Label(h), StartLimit(block[h]))
          /\ handlers' = [handlers EXCEPT ![h[1]] = registerHandler(h)]
          /\ phase' = [phase EXCEPT ![h] = "running"]
          /\ UNCHANGED load
    /\ UNCHANGED <<block, sampled, changed, unitVars, inFlightGauge, requestVars>>

Serve(l) ==
    /\ load[l] = "provisioning" /\ \A h \in Of(l) : phase[h] = "running"
    /\ load' = [m \in Loads |-> IF m = l THEN "serving"
                                ELSE IF load[m] = "serving" THEN "retiring" ELSE load[m]]
    /\ UNCHANGED <<block, handlers, phase, controllerVars, unitVars, limitGauge, inFlightGauge, requestVars>>

(* Scheduler.Stop is called; it returns when the dispatch loop has exited.  *)
Cleanup(h) ==
    /\ load[h[1]] \in {"retiring", "failed"} /\ phase[h] = "running"
    /\ \A g \in Of(h[1]) : phase[g] \notin {"draining", "drained"}
    /\ phase' = [phase EXCEPT ![h] = "draining"]
    /\ UNCHANGED <<hostVars, controllerVars, unitVars, limitGauge, inFlightGauge, requestVars>>

unregisterHandler(h) ==
    IF Label(h) \in DOMAIN handlers[h[1]] /\ handlers[h[1]][Label(h)] = h
    THEN Drop(handlers[h[1]], Label(h)) ELSE handlers[h[1]]

(* Controller.Stop waits for the adjustment loop, a pending callback included. *)
Cleaned_NoWait(h) ==   \* mutant: the loop is told to stop and not waited for
    /\ phase[h] = "drained"
    /\ phase' = [phase EXCEPT ![h] = "cleaned"]
    /\ handlers' = [handlers EXCEPT ![h[1]] = unregisterHandler(h)]
    /\ UNCHANGED <<load, block, controllerVars, unitVars, limitGauge, inFlightGauge, requestVars>>
Cleaned(h) ==
    /\ phase[h] = "drained" /\ h \notin changed
    /\ phase' = [phase EXCEPT ![h] = "cleaned"]
    /\ handlers' = [handlers EXCEPT ![h[1]] = unregisterHandler(h)]
    /\ UNCHANGED <<load, block, controllerVars, unitVars, limitGauge, inFlightGauge, requestVars>>

Retire(l) ==
    /\ load[l] \in {"retiring", "failed"} /\ Of(l) \cap Live = {}
    /\ load' = [load EXCEPT ![l] = "over"]
    /\ UNCHANGED <<block, handlers, phase, controllerVars, unitVars, limitGauge, inFlightGauge, requestVars>>

(* --------------------------- the dispatch loop --------------------------- *)

Acquire(h) ==
    /\ phase[h] \in {"running", "draining"} /\ h \notin ahead /\ inFlight[h] < limit[h]
    /\ inFlight' = [inFlight EXCEPT ![h] = @ + 1] /\ ahead' = ahead \cup {h}
    /\ UNCHANGED <<hostVars, phase, controllerVars, limitGauge, inFlightGauge, requestVars>>

Queue(h) == {r \in Requests : at[r] = h /\ pc[r] = "queued"}

Grant(h) ==
    /\ h \in ahead
    /\ \E r \in Queue(h) : pc' = [pc EXCEPT ![r] = "granted"]
    /\ ahead' = ahead \ {h}
    /\ UNCHANGED <<hostVars, phase, controllerVars, inFlight, limitGauge, inFlightGauge, at, reading>>

ExitLoop_KeepsUnit(h) ==   \* mutant: the loop exits with the unit it holds
    /\ phase[h] = "draining" /\ h \in ahead /\ Queue(h) = {}
    /\ ahead' = ahead \ {h}
    /\ phase' = [phase EXCEPT ![h] = "drained"]
    /\ UNCHANGED <<hostVars, controllerVars, inFlight, limitGauge, inFlightGauge, requestVars>>
ExitLoop(h) ==
    /\ phase[h] = "draining" /\ h \in ahead /\ Queue(h) = {}
    /\ inFlight' = [inFlight EXCEPT ![h] = @ - 1] /\ ahead' = ahead \ {h}
    /\ phase' = [phase EXCEPT ![h] = "drained"]
    /\ UNCHANGED <<hostVars, controllerVars, limitGauge, inFlightGauge, requestVars>>

(* -------------------------- the adjustment loop -------------------------- *)

adjust(h) ==
    /\ h \in Live \cap sampled /\ block[h].kind = "adaptive" /\ h \notin changed
    /\ \E b \in Branches :
         LET new == clampInt(Branch(b, limit[h]), block[h].min_concurrency, block[h].max_concurrency)
         IN /\ new # limit[h]
            /\ limit' = [limit EXCEPT ![h] = new]
    /\ changed' = changed \cup {h}
    /\ UNCHANGED <<hostVars, phase, sampled, unitVars, limitGauge, inFlightGauge, requestVars>>

onLimitChange(h) ==
    /\ h \in changed
    /\ limitGauge' = Put(limitGauge, Label(h), limit[h])
    /\ changed' = changed \ {h}
    /\ UNCHANGED <<hostVars, phase, limit, sampled, unitVars, inFlightGauge, requestVars>>

(* -------------------------- ServeHTTP, dispatch -------------------------- *)

(* Both loads accept until the old one is cleaned up.                       *)
Accepts(h) == load[h[1]] \in {"serving", "retiring"} /\ \A g \in Of(h[1]) : phase[g] = "running"

Arrive(r, h) ==
    /\ pc[r] = "new" /\ Accepts(h) /\ h \in Of(h[1])
    /\ at' = [at EXCEPT ![r] = h]
    /\ pc' = [pc EXCEPT ![r] = "arrived"]
    /\ UNCHANGED <<hostVars, phase, controllerVars, unitVars, limitGauge, inFlightGauge, reading>>

(* Enqueue does not look whether the dispatch loop still runs.              *)
Enqueue(r) ==
    /\ pc[r] = "arrived"
    /\ LET h == at[r]
           depth == Cardinality(Queue(h))
           full == block[h].queue_max_size > 0 /\ depth >= block[h].queue_max_size
       IN \/ ~full /\ pc' = [pc EXCEPT ![r] = "queued"]
          \/ /\ full \/ (block[h].queue_timeout > 0 /\ depth > 0 /\ h \in sampled)
             /\ pc' = [pc EXCEPT ![r] = "done"]
    /\ UNCHANGED <<hostVars, phase, controllerVars, unitVars, limitGauge, inFlightGauge, at, reading>>

(* The gauge is set to what InFlight() returned, its lock long released.    *)
ReadInFlight(r) ==
    /\ pc[r] \in {"granted", "released"}
    /\ reading' = [reading EXCEPT ![r] = inFlight[at[r]]]
    /\ pc' = [pc EXCEPT ![r] = IF @ = "granted" THEN "admitting" ELSE "leaving"]
    /\ UNCHANGED <<hostVars, phase, controllerVars, unitVars, limitGauge, inFlightGauge, at>>

SetInFlightGauge(r) ==
    /\ pc[r] \in {"admitting", "leaving"}
    /\ inFlightGauge' = Put(inFlightGauge, Label(at[r]), reading[r])
    /\ reading' = [reading EXCEPT ![r] = 0]
    /\ pc' = [pc EXCEPT ![r] = IF @ = "admitting" THEN "running" ELSE "done"]
    /\ UNCHANGED <<hostVars, phase, controllerVars, unitVars, limitGauge, at>>

dispatch_KeepsUnitOnError(r) ==   \* mutant: returns the error of next before it releases
    /\ pc[r] = "running"
    /\ \/ UNCHANGED <<inFlight, sampled>>
       \/ /\ inFlight' = [inFlight EXCEPT ![at[r]] = @ - 1]
          /\ sampled' = sampled \cup {at[r]}
    /\ pc' = [pc EXCEPT ![r] = "released"]
    /\ UNCHANGED <<hostVars, phase, limit, changed, ahead, limitGauge, inFlightGauge, at, reading>>
(* next returns, with or without an error, in time or not: one Release.     *)
dispatch(r) ==
    /\ pc[r] = "running"
    /\ inFlight' = [inFlight EXCEPT ![at[r]] = @ - 1]
    /\ sampled' = sampled \cup {at[r]}
    /\ pc' = [pc EXCEPT ![r] = "released"]
    /\ UNCHANGED <<hostVars, phase, limit, changed, ahead, limitGauge, inFlightGauge, at, reading>>

(* ------------------------------------------------------------------------- *)

RequestStep(r) == Enqueue(r) \/ ReadInFlight(r) \/ SetInFlightGauge(r) \/ dispatch(r)
LoopStep(h) == Acquire(h) \/ Grant(h) \/ ExitLoop(h)
HostStep == \E l \in Loads : Retire(l) \/ \E i \in 1..MaxBlocks : Cleanup(<<l, i>>)

Next ==
    \/ \E l \in Loads : Serve(l) \/ \E c \in Configs[l] : Adapt(l, c)
    \/ \E h \in Handlers : Provision(h) \/ Cleaned(h) \/ LoopStep(h) \/ adjust(h) \/ onLimitChange(h)
                             \/ \E r \in Requests : Arrive(r, h)
    \/ \E r \in Requests : RequestStep(r)
    \/ HostStep

Spec == Init /\ [][Next]_vars

(* Goroutines are scheduled, next returns (its transport has timeouts), the *)
(* host finishes the clean-up it has begun. Nobody need send a request or   *)
(* load a config, and the limit need not change. Controller.Stop, under way *)
(* for one handler at a time, is strongly fair: its channel, once closed,   *)
(* is ready between any two ticks.                                          *)
Fairness ==
    /\ \A r \in Requests : WF_vars(RequestStep(r))
    /\ \A h \in Handlers : WF_vars(LoopStep(h)) /\ WF_vars(onLimitChange(h))
    /\ SF_vars(\E h \in Handlers : Cleaned(h))
    /\ WF_vars(HostStep)
FairSpec == Spec /\ Fairness

(* ------------------------------- properties ------------------------------ *)

snapshotHandlers(l) == {handlers[l][b] : b \in DOMAIN handlers[l]}

(* Once Cleanup of a handler has returned, the handler sets the            *)
(* concurrency_limit gauge of its label no more: whoever changes the gauge  *)
(* is provisioned in that step, or is a handler of that label still to be  *)
(* cleaned up that announces its limit. Until then a handler that is being *)
(* replaced may overwrite what its successor has set, and where the        *)
(* successor is fixed that stays: the gauge is not always the "current     *)
(* controller concurrency limit" of docs/monitoring.md:167.                *)
CleanedSetsNoGauge ==
    [][\A b \in DOMAIN limitGauge' :
         b \notin DOMAIN limitGauge \/ limitGauge[b] # limitGauge'[b]
           => \E h \in Handlers : h \in Live' /\ Label(h)' = b /\ limit'[h] = limitGauge'[b]
                                /\ (phase[h] = "new" \/ h \in changed \ changed')]_vars

(* A handler that was cleaned up is listed by no status call and has no     *)
(* unit out but those of requests still in the backend.                     *)
CleanedLeavesNothing ==
    \A h \in In("cleaned") : inFlight[h] = Cardinality(Working(h)) /\ h \notin snapshotHandlers(h[1])

(* A request that is queued before the dispatch loop of its handler exits  *)
(* is answered, for every block that can be provisioned, whether the loop  *)
(* still waits for capacity or for requests when Stop is called. A request *)
(* that ServeHTTP enqueues after that waits for ever: nothing in Enqueue   *)
(* looks whether the scheduler was stopped.                                *)
EveryRequestAnswered ==
    \A r \in Requests :
      (pc[r] = "queued" /\ phase[at[r]] \in {"running", "draining"}) ~> pc[r] = "done"

(* The clean-up of a replaced load comes to its end: Scheduler.Stop and     *)
(* Controller.Stop return, also when the dispatch loop waits for capacity   *)
(* that requests still hold.                                                *)
RetiredIsOver == \A l \in Loads : load[l] \in {"retiring", "failed"} ~> load[l] = "over"

(* metrics.go: requests_in_flight can read "up to 1 higher than genuinely   *)
(* in-flight work while the backend is idle".                               *)
IdleGaugeOneAhead ==
    (\A h \in Handlers : Inside(h) = {}) => \A b \in DOMAIN inFlightGauge : inFlightGauge[b] <= 1
=============================================================================
