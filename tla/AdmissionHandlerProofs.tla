----------------------- MODULE AdmissionHandlerProofs -----------------------
(***************************************************************************)
(* Proofs about AdmissionHandler, for every sequence of config loads and    *)
(* every set of requests.                                                  *)
(***************************************************************************)
EXTENDS AdmissionHandler, FiniteSetTheorems, TLAPS

(* limit, block and the registries hold what the configs say: only where   *)
(* they are defined matters here.                                          *)
TypeInv ==
  /\ load \in [Loads -> {"none", "refused", "provisioning", "serving", "retiring",
                         "failed", "over"}]
  /\ phase \in [Handlers -> {"none", "new", "rejected", "running", "draining",
                             "drained", "cleaned"}]
  /\ block = [h \in Handlers |-> block[h]]
  /\ limit = [h \in Handlers |-> limit[h]]
  /\ handlers = [l \in Loads |-> handlers[l]]
  /\ inFlight \in [Handlers -> Int]
  /\ ahead \subseteq Handlers
  /\ pc \in [Requests -> {"new", "arrived", "queued", "granted", "admitting", "running",
                          "released", "leaving", "done"}]
  /\ at \in [Requests -> Handlers \cup {Nowhere}]
  /\ \A r \in Requests : pc[r] # "new" => at[r] \in Handlers

(* The units of a handler are those of its requests and of its dispatch    *)
(* loop, which holds one only while it runs.                               *)
UnitsInv ==
  /\ \A h \in Handlers :
       inFlight[h] = Cardinality(Working(h)) + (IF h \in ahead THEN 1 ELSE 0)
  /\ \A h \in ahead : phase[h] \in {"running", "draining"}

(* An adjustment whose callback is pending is that of a live handler.      *)
ChangedInv == changed \subseteq Live

(* A load's registry lists live handlers of that load under their labels.  *)
RegistryInv ==
  /\ \A h \in Handlers : load[h[1]] = "none" => phase[h] = "none"
  /\ \A l \in Loads : \A b \in DOMAIN handlers[l] :
       /\ handlers[l][b] \in Live
       /\ handlers[l][b][1] = l
       /\ Label(handlers[l][b]) = b

HInv == TypeInv /\ UnitsInv /\ ChangedInv /\ RegistryInv

(* A set of requests is finite.                                            *)
LEMMA Finite ==
  \A T \in SUBSET Requests : IsFiniteSet(T) /\ Cardinality(T) \in Nat
BY HandlerAssumption, FS_Subset, FS_CardinalityType

(* A request that enters or leaves a set of requests counts for one.       *)
LEMMA CountOne ==
  ASSUME NEW S \in SUBSET Requests, NEW T \in SUBSET Requests, NEW r \in Requests
  PROVE  /\ r \notin S /\ T = S \cup {r} => Cardinality(T) = Cardinality(S) + 1
         /\ r \in S /\ T = S \ {r} => Cardinality(T) = Cardinality(S) - 1
BY Finite, FS_AddElement, FS_RemoveElement

(* A handler is named by its load and its place in it.                     *)
LEMMA HandlerFields ==
  /\ \A h \in Handlers : h = <<h[1], h[2]>> /\ h[1] \in Loads
  /\ Nowhere \notin Handlers
BY DEF Handlers, Loads, Nowhere

(* Before the first load nothing is provisioned.                           *)
LEMMA InitHInv == Init => HInv
<1> SUFFICES ASSUME Init PROVE HInv
  OBVIOUS
<1> USE DEF Init
<1>1. TypeInv
  BY DEF TypeInv
<1>2. UnitsInv
  <2>1. \A h \in Handlers : Working(h) = {}
    BY DEF Working
  <2>2. Cardinality({}) = 0
    BY FS_EmptySet
  <2>3. ahead = {} /\ \A h \in Handlers : inFlight[h] = 0
    OBVIOUS
  <2> HIDE DEF Init
  <2>4. QED
    BY <2>1, <2>2, <2>3 DEF UnitsInv
<1>3. ChangedInv /\ RegistryInv
  BY DEF ChangedInv, RegistryInv
<1>4. QED
  BY <1>1, <1>2, <1>3 DEF HInv

(* Adapting a config creates handlers and touches nothing shared.          *)
LEMMA AdaptKeeps ==
  ASSUME HInv, NEW l \in Loads, NEW c \in Configs[l], Adapt(l, c)
  PROVE  HInv'
<1> DEFINE parsed == [i \in DOMAIN c |-> UnmarshalCaddyfile(c[i])]
           mine == {<<l, i>> : i \in DOMAIN c}
<1>1. /\ load[l] = "none"
      /\ load' = [load EXCEPT ![l] = IF \A i \in DOMAIN c : parsed[i].ok THEN "provisioning"
                                     ELSE "refused"]
      /\ block' = [h \in Handlers |-> IF h \in mine THEN parsed[h[2]] ELSE block[h]]
      /\ phase' = [h \in Handlers |-> IF h \in mine THEN "new" ELSE phase[h]]
      /\ UNCHANGED <<handlers, limit, changed, inFlight, ahead, pc, at>>
  BY DEF Adapt, controllerVars, unitVars, requestVars
<1>2. \A h \in mine : h[1] = l
  OBVIOUS
<1>3. \A h \in Handlers : h \in mine => phase[h] = "none"
  BY <1>1, <1>2 DEF HInv, RegistryInv
<1> HIDE DEF mine, parsed
<1>4. TypeInv'
  BY <1>1 DEF HInv, TypeInv
<1>5. UnitsInv'
  <2>1. \A h \in Handlers : Working(h)' = Working(h)
    BY <1>1 DEF Working
  <2>2. \A h \in ahead : phase'[h] = phase[h]
    BY <1>1, <1>3 DEF HInv, TypeInv, UnitsInv
  <2>3. QED
    BY <1>1, <2>1, <2>2 DEF HInv, UnitsInv
<1>6. Live' = Live
  BY <1>1, <1>3 DEF Live, In
<1>7. RegistryInv'
  <2>1. \A h \in Live : Label(h)' = Label(h)
    BY <1>1, <1>3 DEF Live, In, Label
  <2>2. \A h \in Handlers : load'[h[1]] = "none" => phase'[h] = "none"
    BY <1>1, <1>2, HandlerFields DEF HInv, TypeInv, RegistryInv
  <2>3. QED
    BY <1>1, <1>6, <2>1, <2>2 DEF HInv, RegistryInv
<1>8. ChangedInv'
  BY <1>1, <1>6 DEF HInv, ChangedInv
<1>9. QED
  BY <1>4, <1>5, <1>7, <1>8 DEF HInv

(* Provision registers, starts what the handler needs, or fails whole.     *)
LEMMA ProvisionKeeps ==
  ASSUME HInv, NEW h \in Handlers, Provision(h)
  PROVE  HInv'
<1>1. /\ load[h[1]] = "provisioning" /\ phase[h] = "new"
      /\ UNCHANGED <<block, changed, inFlight, ahead, pc, at>>
      /\ \A l \in Loads : load'[l] = "none" => load[l] = "none"
      /\ \/ /\ phase' = [phase EXCEPT ![h] = "rejected"]
            /\ load' = [load EXCEPT ![h[1]] = "failed"]
            /\ UNCHANGED <<limit, handlers>>
         \/ /\ phase' = [phase EXCEPT ![h] = "running"]
            /\ limit' = [limit EXCEPT ![h] = StartLimit(block[h])]
            /\ handlers' = [handlers EXCEPT ![h[1]] = registerHandler(h)]
            /\ UNCHANGED load
  BY DEF Provision, unitVars, requestVars, HInv, TypeInv
<1>2. TypeInv'
  BY <1>1 DEF HInv, TypeInv
<1>3. UnitsInv'
  <2>1. \A g \in Handlers : Working(g)' = Working(g)
    BY <1>1 DEF Working
  <2>2. \A g \in ahead : phase'[g] = phase[g]
    BY <1>1 DEF HInv, TypeInv, UnitsInv
  <2>3. QED
    BY <1>1, <2>1, <2>2 DEF HInv, UnitsInv
<1>4. Live \subseteq Live' /\ (phase'[h] = "running" => h \in Live')
  BY <1>1 DEF Live, In, HInv, TypeInv
<1>5. RegistryInv'
  <2>1. \A g \in Handlers : load'[g[1]] = "none" => phase'[g] = "none"
    BY <1>1, HandlerFields DEF HInv, TypeInv, RegistryInv
  <2>2. \A g \in Handlers : Label(g)' = Label(g)
    BY <1>1 DEF Label
  <2>3. ASSUME NEW l \in Loads, NEW b \in DOMAIN handlers'[l]
        PROVE  (/\ handlers[l][b] \in Live
                /\ handlers[l][b][1] = l
                /\ Label(handlers[l][b]) = b)'
    <3>1. CASE handlers' = handlers \/ l # h[1]
      <4>1. handlers'[l] = handlers[l]
        BY <1>1, <3>1 DEF HInv, TypeInv
      <4>2. QED
        BY <4>1, <1>1, <1>4, <2>2, <2>3 DEF HInv, RegistryInv, Label
    <3>2. CASE l = h[1] /\ phase' = [phase EXCEPT ![h] = "running"]
               /\ handlers' = [handlers EXCEPT ![h[1]] = registerHandler(h)]
      <4>1. handlers'[l] = Put(handlers[l], Label(h), h)
        BY <3>2 DEF HInv, TypeInv, registerHandler
      <4>2. CASE b = Label(h)
        <5>1. handlers'[l][b] = h
          BY <4>1, <4>2 DEF Put
        <5>2. h \in Live'
          BY <3>2, <1>4 DEF HInv, TypeInv
        <5>3. QED
          BY <5>1, <5>2, <3>2, <4>2, <1>1 DEF Label
      <4>3. CASE b # Label(h)
        <5>1. b \in DOMAIN handlers[l] /\ handlers'[l][b] = handlers[l][b]
          BY <4>1, <4>3, <2>3 DEF Put
        <5>2. QED
          BY <5>1, <1>1, <1>4 DEF HInv, RegistryInv, Label
      <4>4. QED
        BY <4>2, <4>3
    <3>3. QED
      BY <1>1, <3>1, <3>2
  <2>4. QED
    BY <2>1, <2>3 DEF RegistryInv
<1>6. ChangedInv'
  BY <1>1, <1>4 DEF HInv, ChangedInv
<1>7. QED
  BY <1>2, <1>3, <1>5, <1>6 DEF HInv

(* The last step of Cleanup leaves nothing of the handler behind.          *)
LEMMA CleanedKeeps ==
  ASSUME HInv, NEW h \in Handlers, Cleaned(h)
  PROVE  HInv'
<1>1. /\ phase[h] = "drained" /\ h \notin changed
      /\ phase' = [phase EXCEPT ![h] = "cleaned"]
      /\ handlers' = [handlers EXCEPT ![h[1]] = unregisterHandler(h)]
      /\ UNCHANGED <<load, block, limit, changed, inFlight, ahead, pc, at>>
  BY DEF Cleaned, controllerVars, unitVars, requestVars
<1>2. TypeInv'
  BY <1>1 DEF HInv, TypeInv
<1>3. UnitsInv'
  <2>1. \A g \in Handlers : Working(g)' = Working(g)
    BY <1>1 DEF Working
  <2>2. \A g \in ahead : phase'[g] = phase[g]
    BY <1>1 DEF HInv, TypeInv, UnitsInv
  <2>3. QED
    BY <1>1, <2>1, <2>2 DEF HInv, UnitsInv
<1>4. Live' = Live \ {h} /\ h \in Live
  BY <1>1 DEF Live, In, HInv, TypeInv
<1>5. RegistryInv'
  <2>1. \A g \in Handlers : load'[g[1]] = "none" => phase'[g] = "none"
    BY <1>1 DEF HInv, TypeInv, RegistryInv
  <2>2. ASSUME NEW l \in Loads, NEW b \in DOMAIN handlers'[l]
        PROVE  (/\ handlers[l][b] \in Live
                /\ handlers[l][b][1] = l
                /\ Label(handlers[l][b]) = b)'
    <3>1. b \in DOMAIN handlers[l] /\ handlers'[l][b] = handlers[l][b]
      BY <1>1, <2>2 DEF HInv, TypeInv, unregisterHandler, Drop
    <3>2. handlers[l][b] # h
      <4>1. SUFFICES ASSUME handlers[l][b] = h PROVE FALSE
        OBVIOUS
      <4>2. h[1] = l /\ Label(h) = b
        BY <3>1, <4>1 DEF HInv, RegistryInv
      <4>3. handlers'[l] = Drop(handlers[l], b)
        BY <1>1, <3>1, <4>1, <4>2 DEF HInv, TypeInv, unregisterHandler
      <4>4. QED
        BY <2>2, <4>3 DEF Drop
    <3>3. QED
      BY <1>1, <1>4, <3>1, <3>2 DEF HInv, RegistryInv, Label
  <2>3. QED
    BY <2>1, <2>2 DEF RegistryInv
<1>6. ChangedInv'
  BY <1>1, <1>4 DEF HInv, ChangedInv
<1>7. QED
  BY <1>2, <1>3, <1>5, <1>6 DEF HInv

(* The host's steps only move loads and handlers along.                    *)
LEMMA HostKeeps ==
  ASSUME HInv,
         \/ \E l \in Loads : Serve(l) \/ Retire(l)
         \/ \E h \in Handlers : Cleanup(h)
  PROVE  HInv'
<1>1. /\ UNCHANGED <<block, handlers, limit, changed, inFlight, ahead, pc, at>>
      /\ \/ phase' = phase
         \/ \E h \in Handlers :
              phase[h] = "running" /\ phase' = [phase EXCEPT ![h] = "draining"]
      /\ load' \in [Loads -> {"none", "refused", "provisioning", "serving", "retiring",
                              "failed", "over"}]
      /\ \A m \in Loads : load'[m] = "none" <=> load[m] = "none"
  BY DEF Serve, Cleanup, Retire, hostVars, controllerVars, unitVars, requestVars, HInv, TypeInv
<1>2. TypeInv'
  BY <1>1 DEF HInv, TypeInv
<1>3. UnitsInv'
  <2>1. \A g \in Handlers : Working(g)' = Working(g)
    BY <1>1 DEF Working
  <2>2. \A g \in ahead : phase'[g] \in {"running", "draining"}
    BY <1>1 DEF HInv, TypeInv, UnitsInv
  <2>3. QED
    BY <1>1, <2>1, <2>2 DEF HInv, UnitsInv
<1>4. Live' = Live
  BY <1>1 DEF Live, In, HInv, TypeInv
<1>5. RegistryInv'
  <2>1. \A g \in Handlers : load'[g[1]] = "none" => phase'[g] = "none"
    BY <1>1, HandlerFields DEF HInv, TypeInv, RegistryInv
  <2>2. QED
    BY <1>1, <1>4, <2>1 DEF HInv, RegistryInv, Label
<1>6. ChangedInv'
  BY <1>1, <1>4 DEF HInv, ChangedInv
<1>7. QED
  BY <1>2, <1>3, <1>5, <1>6 DEF HInv

(* The steps of the dispatch loop move one unit between the loop and one   *)
(* request, or give it back.                                               *)
LEMMA LoopKeeps ==
  ASSUME HInv, NEW h \in Handlers, LoopStep(h)
  PROVE  HInv'
<1>1. /\ UNCHANGED <<load, block, handlers, limit, changed, at>>
      /\ \A g \in Handlers : phase[g] # phase'[g] => phase[g] = "draining" /\ phase'[g] = "drained"
      /\ phase' \in [Handlers -> {"none", "new", "rejected", "running", "draining",
                                  "drained", "cleaned"}]
  <2>1. CASE Acquire(h) \/ Grant(h)
    BY <2>1 DEF Acquire, Grant, hostVars, controllerVars, requestVars, HInv, TypeInv
  <2>2. CASE ExitLoop(h)
    BY <2>2 DEF ExitLoop, hostVars, controllerVars, requestVars, HInv, TypeInv
  <2>3. QED
    BY <2>1, <2>2 DEF LoopStep
<1>2. TypeInv'
  <2>1. inFlight' \in [Handlers -> Int] /\ ahead' \subseteq Handlers
    BY DEF LoopStep, Acquire, Grant, ExitLoop, HInv, TypeInv
  <2>2. /\ pc' \in [Requests -> {"new", "arrived", "queued", "granted", "admitting", "running",
                                 "released", "leaving", "done"}]
        /\ \A r \in Requests : pc'[r] # "new" => pc[r] # "new"
    BY DEF LoopStep, Acquire, Grant, ExitLoop, HInv, TypeInv, requestVars, Queue
  <2>3. QED
    BY <1>1, <2>1, <2>2 DEF HInv, TypeInv
<1>3. UnitsInv'
  <2>0. /\ \A g \in Handlers : Working(g) \in SUBSET Requests /\ Cardinality(Working(g)) \in Nat
        /\ \A g \in Handlers : Working(g)' \in SUBSET Requests
    BY Finite DEF Working
  <2>1. CASE Acquire(h)
    <3>1. /\ h \notin ahead /\ ahead' = ahead \cup {h}
          /\ inFlight' = [inFlight EXCEPT ![h] = @ + 1]
          /\ phase' = phase /\ phase[h] \in {"running", "draining"}
          /\ \A g \in Handlers : Working(g)' = Working(g)
      BY <2>1 DEF Acquire, requestVars, Working
    <3>2. \A g \in Handlers : 
             inFlight'[g] = Cardinality(Working(g)) + (IF g \in ahead' THEN 1 ELSE 0)
      BY <2>0, <3>1 DEF HInv, TypeInv, UnitsInv
    <3>3. QED
      BY <3>1, <3>2 DEF HInv, UnitsInv
  <2>2. CASE Grant(h)
    <3>1. PICK r \in Queue(h) : pc' = [pc EXCEPT ![r] = "granted"]
      BY <2>2 DEF Grant
    <3>2. /\ h \in ahead /\ ahead' = ahead \ {h} /\ UNCHANGED <<phase, inFlight, at>>
          /\ r \in Requests /\ at[r] = h /\ pc[r] = "queued"
      BY <2>2, <3>1 DEF Grant, Queue
    <3>3. /\ Working(h)' = Working(h) \cup {r} /\ r \notin Working(h)
          /\ \A g \in Handlers : g # h => Working(g)' = Working(g)
      BY <3>1, <3>2 DEF Working, HInv, TypeInv
    <3>4. Cardinality(Working(h)') = Cardinality(Working(h)) + 1
      BY <2>0, <3>2, <3>3, CountOne
    <3>5. \A g \in Handlers :
             inFlight'[g] = Cardinality(Working(g)') + (IF g \in ahead' THEN 1 ELSE 0)
      <4>1. SUFFICES ASSUME NEW g \in Handlers
                     PROVE  inFlight[g] = Cardinality(Working(g)') + (IF g \in ahead' THEN 1 ELSE 0)
        BY <3>2
      <4>2. inFlight[g] = Cardinality(Working(g)) + (IF g \in ahead THEN 1 ELSE 0)
        BY DEF HInv, UnitsInv
      <4>3. CASE g = h
        BY <2>0, <3>2, <3>4, <4>2, <4>3
      <4>4. CASE g # h
        BY <3>2, <3>3, <4>2, <4>4
      <4>5. QED
        BY <4>3, <4>4
    <3>6. QED
      BY <3>2, <3>5 DEF HInv, UnitsInv
  <2>3. CASE ExitLoop(h)
    <3>1. /\ h \in ahead /\ ahead' = ahead \ {h}
          /\ inFlight' = [inFlight EXCEPT ![h] = @ - 1]
          /\ phase' = [phase EXCEPT ![h] = "drained"]
          /\ \A g \in Handlers : Working(g)' = Working(g)
      BY <2>3 DEF ExitLoop, requestVars, Working
    <3>2. \A g \in Handlers : 
             inFlight'[g] = Cardinality(Working(g)) + (IF g \in ahead' THEN 1 ELSE 0)
      BY <2>0, <3>1 DEF HInv, TypeInv, UnitsInv
    <3>3. QED
      BY <3>1, <3>2 DEF HInv, TypeInv, UnitsInv
  <2>4. QED
    BY <2>1, <2>2, <2>3 DEF LoopStep
<1>4. Live' = Live
  BY <1>1 DEF Live, In
<1>5. RegistryInv'
  <2>1. \A g \in Handlers : load'[g[1]] = "none" => phase'[g] = "none"
    BY <1>1 DEF HInv, RegistryInv
  <2>2. QED
    BY <1>1, <1>4, <2>1 DEF HInv, RegistryInv, Label
<1>6. ChangedInv'
  BY <1>1, <1>4 DEF HInv, ChangedInv
<1>7. QED
  BY <1>2, <1>3, <1>5, <1>6 DEF HInv

(* What a request does between ServeHTTP and the answer: only dispatch     *)
(* gives back a unit, and it is the request's own.                         *)
LEMMA RequestKeeps ==
  ASSUME HInv, NEW r \in Requests,
         RequestStep(r) \/ \E h \in Handlers : Arrive(r, h)
  PROVE  HInv'
<1>1. /\ UNCHANGED <<load, block, handlers, phase, limit, changed, ahead>>
      /\ \A q \in Requests : q # r => pc'[q] = pc[q] /\ at'[q] = at[q]
      /\ pc' \in [Requests -> {"new", "arrived", "queued", "granted", "admitting", "running",
                               "released", "leaving", "done"}]
      /\ at' \in [Requests -> Handlers \cup {Nowhere}]
      /\ pc'[r] # "new" /\ at'[r] \in Handlers
      /\ pc[r] # "new" => at'[r] = at[r]
  BY DEF RequestStep, Enqueue, ReadInFlight, SetInFlightGauge, dispatch, Arrive, hostVars,
     controllerVars, unitVars, HInv, TypeInv
<1>2. TypeInv'
  <2>1. inFlight' \in [Handlers -> Int]
    BY DEF RequestStep, Enqueue, ReadInFlight, SetInFlightGauge, dispatch, Arrive, unitVars,
       HInv, TypeInv
  <2>2. QED
    BY <1>1, <2>1 DEF HInv, TypeInv
<1>3. UnitsInv'
  <2>0. /\ \A g \in Handlers : Working(g) \in SUBSET Requests /\ Cardinality(Working(g)) \in Nat
        /\ \A g \in Handlers : Working(g)' \in SUBSET Requests
    BY Finite DEF Working
  <2>1. CASE dispatch(r)
    <3>1. /\ pc[r] = "running" /\ pc' = [pc EXCEPT ![r] = "released"]
          /\ at[r] \in Handlers /\ UNCHANGED <<at, ahead, phase>>
          /\ inFlight' = [inFlight EXCEPT ![at[r]] = @ - 1]
      BY <2>1 DEF dispatch, HInv, TypeInv
    <3>2. /\ Working(at[r])' = Working(at[r]) \ {r} /\ r \in Working(at[r])
          /\ \A g \in Handlers : g # at[r] => Working(g)' = Working(g)
      BY <3>1 DEF Working, HInv, TypeInv
    <3>3. Cardinality(Working(at[r])') = Cardinality(Working(at[r])) - 1
      BY <2>0, <3>1, <3>2, CountOne
    <3>4. \A g \in Handlers :
             inFlight'[g] = Cardinality(Working(g)') + (IF g \in ahead' THEN 1 ELSE 0)
      <4>1. SUFFICES ASSUME NEW g \in Handlers
                     PROVE  inFlight'[g] = Cardinality(Working(g)') + (IF g \in ahead THEN 1 ELSE 0)
        BY <3>1
      <4>2. inFlight[g] = Cardinality(Working(g)) + (IF g \in ahead THEN 1 ELSE 0)
        BY DEF HInv, UnitsInv
      <4>3. inFlight'[g] = IF g = at[r] THEN inFlight[g] - 1 ELSE inFlight[g]
        BY <3>1 DEF HInv, TypeInv
      <4>4. CASE g = at[r]
        BY <2>0, <3>1, <3>3, <4>2, <4>3, <4>4
      <4>5. CASE g # at[r]
        BY <3>2, <4>2, <4>3, <4>5
      <4>6. QED
        BY <4>4, <4>5
    <3>5. QED
      BY <3>1, <3>4 DEF HInv, UnitsInv
  <2>2. CASE \/ Enqueue(r) \/ ReadInFlight(r) \/ SetInFlightGauge(r)
             \/ \E h \in Handlers : Arrive(r, h)
    <3>1. /\ inFlight' = inFlight
          /\ \/ pc[r] # "new" /\ at' = at
             \/ pc[r] = "new" /\ pc'[r] = "arrived"
          /\ pc[r] \in {"granted", "admitting", "running"}
               <=> pc'[r] \in {"granted", "admitting", "running"}
      BY <2>2 DEF Enqueue, ReadInFlight, SetInFlightGauge, Arrive, unitVars, HInv, TypeInv
    <3>2. \A g \in Handlers : Working(g)' = Working(g)
      BY <1>1, <3>1 DEF Working
    <3>3. QED
      BY <1>1, <3>1, <3>2 DEF HInv, UnitsInv
  <2>3. QED
    BY <2>1, <2>2 DEF RequestStep
<1>4. Live' = Live
  BY <1>1 DEF Live, In
<1>5. RegistryInv' /\ ChangedInv'
  BY <1>1, <1>4 DEF HInv, RegistryInv, ChangedInv, Label
<1>6. QED
  BY <1>2, <1>3, <1>5 DEF HInv

(* The adjustment loop changes a limit and then its gauge.                 *)
LEMMA AdjustKeeps ==
  ASSUME HInv, (\E h \in Handlers : adjust(h) \/ onLimitChange(h)) \/ UNCHANGED vars
  PROVE  HInv'
<1>1. /\ UNCHANGED <<load, block, handlers, phase, inFlight, ahead, pc, at>>
      /\ limit' = [h \in Handlers |-> limit'[h]]
      /\ changed' \subseteq changed \cup Live
  BY DEF adjust, onLimitChange, vars, hostVars, controllerVars, unitVars, requestVars,
     HInv, TypeInv
<1>2. TypeInv'
  BY <1>1 DEF HInv, TypeInv
<1>3. Live' = Live /\ \A g \in Handlers : Working(g)' = Working(g)
  BY <1>1 DEF Live, In, Working
<1>4. UnitsInv' /\ RegistryInv' /\ ChangedInv'
  BY <1>1, <1>3 DEF HInv, UnitsInv, RegistryInv, ChangedInv, Label
<1>5. QED
  BY <1>2, <1>4 DEF HInv

(* Every step keeps the invariant.                                         *)
LEMMA NextHInv == HInv /\ [Next]_vars => HInv'
<1> SUFFICES ASSUME HInv, [Next]_vars PROVE HInv'
  OBVIOUS
<1>1. \A l \in Loads, i \in 1..MaxBlocks : <<l, i>> \in Handlers
  BY DEF Handlers
<1>2. HostStep \/ (\E l \in Loads : Serve(l)) => HInv'
  BY <1>1, HostKeeps DEF HostStep
<1>3. QED
  BY <1>2, AdaptKeeps, ProvisionKeeps, CleanedKeeps, LoopKeeps, RequestKeeps, AdjustKeeps
     DEF Next

(* The inductive invariant holds in every reachable state.                 *)
THEOREM Invariance == Spec => []HInv
BY InitHInv, NextHInv, PTL DEF Spec

(* What Cleanup leaves behind: no entry in the registry, and no unit but   *)
(* those of requests still in the backend, which release them themselves.  *)
THEOREM CleanupIsComplete == Spec => []CleanedLeavesNothing
<1>1. ASSUME HInv PROVE CleanedLeavesNothing
  <2>1. SUFFICES ASSUME NEW h \in In("cleaned")
                 PROVE  inFlight[h] = Cardinality(Working(h)) /\ h \notin snapshotHandlers(h[1])
    BY DEF CleanedLeavesNothing
  <2>2. h \in Handlers /\ phase[h] = "cleaned" /\ h[1] \in Loads
    BY <2>1, HandlerFields DEF In
  <2>3. h \notin ahead /\ h \notin Live
    BY <1>1, <2>2 DEF HInv, UnitsInv, Live, In
  <2>4. inFlight[h] = Cardinality(Working(h))
    BY <1>1, <2>2, <2>3, Finite DEF HInv, UnitsInv, Working
  <2>5. h \notin snapshotHandlers(h[1])
    BY <1>1, <2>2, <2>3 DEF HInv, RegistryInv, snapshotHandlers
  <2>6. QED
    BY <2>4, <2>5
<1>2. QED
  BY <1>1, Invariance, PTL

(* Once its Cleanup has returned a handler sets the limit gauge no more:   *)
(* every change of it is the limit of one still to be cleaned up.          *)
THEOREM CleanedIsSilent == Spec => CleanedSetsNoGauge
<1> DEFINE A == \A b \in DOMAIN limitGauge' :
                  b \notin DOMAIN limitGauge \/ limitGauge[b] # limitGauge'[b]
                    => \E h \in Handlers : h \in Live' /\ Label(h)' = b /\ limit'[h] = limitGauge'[b]
                                         /\ (phase[h] = "new" \/ h \in changed \ changed')
<1>1. ASSUME HInv, [Next]_vars PROVE A
  <2>1. ASSUME NEW h \in Handlers, Provision(h) PROVE A
    <3>1. CASE UNCHANGED limitGauge
      BY <3>1
    <3>2. CASE /\ limit' = [limit EXCEPT ![h] = StartLimit(block[h])]
               /\ limitGauge' = Put(limitGauge, Label(h), StartLimit(block[h]))
               /\ phase' = [phase EXCEPT ![h] = "running"]
      <4>1. h \in Live' /\ limit'[h] = StartLimit(block[h]) /\ Label(h)' = Label(h) /\ phase[h] = "new"
        BY <1>1, <2>1, <3>2 DEF Live, In, HInv, TypeInv, Provision, Label
      <4>2. \A b \in DOMAIN limitGauge' :
               IF b = Label(h) THEN limitGauge'[b] = limit'[h]
               ELSE b \in DOMAIN limitGauge /\ limitGauge'[b] = limitGauge[b]
        BY <3>2, <4>1 DEF Put
      <4>3. QED
        BY <4>1, <4>2
    <3>3. QED
      BY <2>1, <3>1, <3>2 DEF Provision
  <2>2. ASSUME NEW h \in Handlers, onLimitChange(h) PROVE A
    <3>1. h \in Live' /\ limit' = limit /\ Label(h)' = Label(h) /\ h \in changed \ changed'
      BY <1>1, <2>2 DEF onLimitChange, HInv, ChangedInv, Live, In, hostVars, Label
    <3>2. \A b \in DOMAIN limitGauge' :
             IF b = Label(h) THEN limitGauge'[b] = limit'[h]
             ELSE b \in DOMAIN limitGauge /\ limitGauge'[b] = limitGauge[b]
      BY <2>2, <3>1 DEF onLimitChange, Put
    <3>3. QED
      BY <3>1, <3>2
  <2>3. ASSUME UNCHANGED limitGauge PROVE A
    BY <2>3
  <2>4. \/ \E h \in Handlers : Provision(h) \/ onLimitChange(h)
        \/ UNCHANGED limitGauge
    BY <1>1 DEF Next, Serve, Adapt, Cleaned, LoopStep, Acquire, Grant, ExitLoop, adjust, Arrive,
       RequestStep, Enqueue, ReadInFlight, SetInFlightGauge, dispatch, HostStep, Cleanup, Retire,
       vars
  <2>5. QED
    BY <2>1, <2>2, <2>3, <2>4
<1>2. HInv /\ [Next]_vars => [A]_vars
  BY <1>1
<1>3. QED
  BY <1>2, Invariance, PTL DEF Spec, CleanedSetsNoGauge
====
