----------------------------- MODULE ConfigLoad -----------------------------
(* Config loads as the fairness app and its handlers see them: every load  *)
(* adapts its blocks, provisions them one by one against an App of its own *)
(* (fairness/app.go: two reference-counted pools and a registry), serves,  *)
(* and is cleaned up once the next load serves; a load that fails is       *)
(* cleaned up at once. fairness/module.go: Provision, releaseAcquired,     *)
(* Cleanup. The host applies one load at a time.                           *)
(*                                                                         *)
(* The pools are touched only by the goroutine that loads or cleans up, so *)
(* Provision of a block is one step. External: what a database file or a   *)
(* JWKS URL turns out to be when it is opened, in which order the host     *)
(* cleans up, and whether it calls Cleanup on the handler whose Provision  *)
(* failed (the comment on releaseAcquired says it does not).               *)
EXTENDS FairnessBlock, FiniteSets

CONSTANTS
    MaxLoads,         \* bound on the config loads
    Configs,          \* load -> its configs: sequences of blocks, a block the sequence of its lines
    Key,              \* geoPoolKey, and the URL itself for a JWKS: setting -> pool key
    Finds,            \* pool key -> what may be found there, see Opens
    CleansUpFailed    \* whether the host calls Cleanup after a failed Provision: a subset of BOOLEAN

(* A file is a database of a kind or broken; a URL serves keys, cannot be  *)
(* reached for now, or is malformed ("broken"). Neither constructor fails: *)
(* what is broken is pooled without a reader.                              *)
openGeoReader == {"city", "asn", "broken"}
openJWKSVerifier == {"jwks", "unreachable", "broken"}
Opens == openGeoReader \cup openJWKSVerifier

ASSUME ConfigLoadAssumption ==
    /\ MaxLoads \in Nat /\ DOMAIN Configs = 1..MaxLoads /\ CleansUpFailed \subseteq BOOLEAN
    /\ \A l \in 1..MaxLoads : \A c \in Configs[l] :
         /\ Len(c) \in Nat /\ DOMAIN c = 1..Len(c)
         /\ \A i \in DOMAIN c : IsLines(c[i]) /\ \A j \in DOMAIN c[i] : IsLines(c[i][j].block)
    /\ \A k \in DOMAIN Finds : Finds[k] \subseteq Opens /\ Finds[k] # {}
    /\ \A s \in DOMAIN Key : Key[s] \in DOMAIN Finds

VARIABLES
    load,       \* load -> [blocks, phase]
    state,      \* load -> state of each of its handlers
    pool,       \* load -> its pools: key -> [refs, found]
    scoring,    \* load -> handlers whose tick and sweep goroutines run
    handlers    \* load -> the registry: backend label -> handler

vars == <<load, state, pool, scoring, handlers>>

Loads == 1..MaxLoads
Unused == [blocks |-> <<>>, phase |-> "none"]

Init ==
    /\ load = [l \in Loads |-> Unused]
    /\ state = [l \in Loads |-> <<>>]
    /\ pool = [l \in Loads |-> <<>>]
    /\ scoring = [l \in Loads |-> {}]
    /\ handlers = [l \in Loads |-> <<>>]

In(phase) == {l \in Loads : load[l].phase = phase}
Running(l) == {i \in DOMAIN state[l] : state[l][i] = "running"}
Block(l, i) == load[l].blocks[i]

(* -------------------------------- the pools ------------------------------ *)

(* caddy.UsagePool                                                          *)
LoadOrNew(p, k, found) ==
    IF k \in DOMAIN p THEN [p EXCEPT ![k].refs = @ + 1]
    ELSE Put(p, k, [refs |-> 1, found |-> found])
Delete(p, k) ==
    IF k \notin DOMAIN p THEN p
    ELSE IF p[k].refs = 1 THEN Drop(p, k) ELSE [p EXCEPT ![k].refs = @ - 1]

(* The settings of a block that may name a resource, read one after another. *)
Settings == {"city", "asn", "jwks"}
Named(b) == {b[x] : x \in Settings} \ {None}

Use(p, s, found) == IF s = None THEN p ELSE LoadOrNew(p, Key[s], found[Key[s]])
acquire(p, b, found) == Use(Use(Use(p, b.city, found), b.asn, found), b.jwks, found)

Release(p, s) == IF s = None THEN p ELSE Delete(p, Key[s])
releaseAcquired_Once(p, b) ==   \* mutant: a file named twice is released once
    LET twice == None \notin {b.city, b.asn} /\ Key[b.city] = Key[b.asn]
    IN Release(Release(Release(p, b.city), IF twice THEN None ELSE b.asn), b.jwks)
releaseAcquired(p, b) == Release(Release(Release(p, b.city), b.asn), b.jwks)

(* What a setting of a block opened: None if it is not set.                 *)
Found(p, s) == IF s = None THEN None ELSE p[Key[s]].found
FoundBy(p, b) == [city |-> Found(p, b.city), asn |-> Found(p, b.asn), jwks |-> Found(p, b.jwks)]
Usable(p, b) == {s \in Named(b) : Found(p, s) # "broken"}

(* ------------------------------- one load -------------------------------- *)

(* The Caddyfile is adapted: one block that does not parse refuses it all.  *)
Adapt(l, c) ==
    /\ load[l].phase = "none" /\ \A m \in 1..(l - 1) : load[m].phase # "none"
    /\ In("provisioning") \cup In("failed") = {}
    /\ \A m \in In("retiring") : Running(m) = {}
    /\ LET blocks == [i \in DOMAIN c |-> UnmarshalCaddyfile(c[i])]
           ok == \A i \in DOMAIN c : blocks[i].ok
       IN /\ load' = [load EXCEPT ![l] = [blocks |-> blocks,
                        phase |-> IF ok THEN "provisioning" ELSE "refused"]]
          /\ state' = [state EXCEPT ![l] = [i \in DOMAIN c |-> "new"]]
    /\ UNCHANGED <<pool, scoring, handlers>>

registerHandler(h, label, i) == Put(h, label, i)

unregisterHandler_Any(h, label, i) ==   \* mutant: whoever is registered
    Drop(h, label)
unregisterHandler(h, label, i) ==
    IF label \in DOMAIN h /\ h[label] = i THEN Drop(h, label) ELSE h

Provisioned(l, i, acquired) ==
    /\ pool' = [pool EXCEPT ![l] = acquired]
    /\ state' = [state EXCEPT ![l][i] = "running"]
    /\ scoring' = [scoring EXCEPT ![l] = @ \cup {i}]
    /\ handlers' = [handlers EXCEPT ![l] = registerHandler(@, Block(l, i).label, i)]
    /\ UNCHANGED load

(* Every path out of the validation releases what was acquired; a host that *)
(* also cleans up a failed handler then releases it a second time.          *)
Rejected_KeepsOnSession(l, i, acquired) ==   \* mutant: not on the path of a bad session key
    /\ \E again \in CleansUpFailed :
         LET b == Block(l, i)
             p == IF b.session # None /\ ~newSessionCookies(b.session) THEN acquired
                  ELSE releaseAcquired(acquired, b)
         IN pool' = [pool EXCEPT ![l] = IF again THEN releaseAcquired(p, b) ELSE p]
    /\ state' = [state EXCEPT ![l][i] = "rejected"]
    /\ load' = [load EXCEPT ![l].phase = "failed"]
    /\ UNCHANGED <<scoring, handlers>>
Rejected(l, i, acquired) ==
    /\ \E again \in CleansUpFailed :
         LET b == Block(l, i)
             p == releaseAcquired(acquired, b)
         IN pool' = [pool EXCEPT ![l] = IF again THEN releaseAcquired(p, b) ELSE p]
    /\ state' = [state EXCEPT ![l][i] = "rejected"]
    /\ load' = [load EXCEPT ![l].phase = "failed"]
    /\ UNCHANGED <<scoring, handlers>>

Provision(l, i) ==
    /\ load[l].phase = "provisioning"
    /\ state[l][i] = "new" /\ \A j \in 1..(i - 1) : state[l][j] = "running"
    /\ LET b == Block(l, i)
           new == {Key[s] : s \in Named(b)} \ DOMAIN pool[l]
       IN \E found \in {f \in [new -> Opens] : \A k \in new : f[k] \in Finds[k]} :
            LET acquired == acquire(pool[l], b, found)
            IN IF Unmet(b, Usable(acquired, b)) THEN Rejected(l, i, acquired)
               ELSE Provisioned(l, i, acquired)

(* The new load serves; the one that served until now is to be cleaned up.  *)
Serve(l) ==
    /\ load[l].phase = "provisioning" /\ Running(l) = DOMAIN state[l]
    /\ load' = [m \in Loads |-> IF m = l THEN [load[m] EXCEPT !.phase = "serving"]
                                ELSE IF m \in In("serving") THEN [load[m] EXCEPT !.phase = "retiring"]
                                ELSE load[m]]
    /\ UNCHANGED <<state, pool, scoring, handlers>>

Cleanup(l, i) ==
    /\ load[l].phase \in {"retiring", "failed"} /\ i \in Running(l)
    /\ scoring' = [scoring EXCEPT ![l] = @ \ {i}]
    /\ handlers' = [handlers EXCEPT ![l] = unregisterHandler(@, Block(l, i).label, i)]
    /\ pool' = [pool EXCEPT ![l] = releaseAcquired(@, Block(l, i))]
    /\ state' = [state EXCEPT ![l][i] = "cleaned"]
    /\ UNCHANGED load

(* A failed load is over when its other handlers are cleaned up.            *)
Abandon(l) ==
    /\ load[l].phase = "failed" /\ Running(l) = {}
    /\ load' = [load EXCEPT ![l].phase = "refused"]
    /\ UNCHANGED <<state, pool, scoring, handlers>>

Next ==
    \E l \in Loads :
      \/ \E c \in Configs[l] : Adapt(l, c)
      \/ \E i \in DOMAIN state[l] : Provision(l, i) \/ Cleanup(l, i)
      \/ Serve(l) \/ Abandon(l)

Spec == Init /\ [][Next]_vars

(* ------------------------------ the admin API ---------------------------- *)

snapshotHandlers(l) == Range(handlers[l])
poolHealth(l) ==
    [k \in DOMAIN pool[l] |-> [healthy |-> pool[l][k].found # "broken", references |-> pool[l][k].refs]]
handleStatus(l) == [backends |-> snapshotHandlers(l), shared |-> poolHealth(l)]

(* ------------------------------- properties ------------------------------ *)

(* The uses of a key: a handler not yet cleaned up, and a setting of its.   *)
Uses(l, k) == {u \in Running(l) \X Settings :
                 LET s == Block(l, u[1])[u[2]] IN s # None /\ Key[s] = k}

(* While a load serves, and while it is cleaned up handler by handler, its  *)
(* pools hold one reference for every use by a handler not yet cleaned up:  *)
(* no reader is closed under a handler, none is kept for nobody. A failing  *)
(* load may release twice, but takes no reference from a load that serves.  *)
(* A block that names one file for both databases holds two of them, and    *)
(* two is what poolHealth reports, where app.go:178-181 and                 *)
(* docs/monitoring.md:93-95 speak of the blocks that reference a resource.  *)
PoolMatchesHolders ==
    \A l \in In("serving") \cup In("retiring") :
      /\ DOMAIN pool[l] = {Key[s] : s \in UNION {Named(Block(l, i)) : i \in Running(l)}}
      /\ \A k \in DOMAIN pool[l] : pool[l][k].refs = Cardinality(Uses(l, k))

(* A load that was refused, or retired and cleaned up, leaves nothing open, *)
(* no goroutine running and nobody registered, wherever its Provision       *)
(* failed and whether or not the host also cleaned up the failed handler.   *)
NothingOutlivesLoad ==
    \A l \in In("refused") \cup {m \in In("retiring") : Running(m) = {}} :
      pool[l] = <<>> /\ scoring[l] = {} /\ handlers[l] = <<>>

(* The status API lists, for every label of a load, the handler provisioned *)
(* last under it, from its Provision to its own Cleanup, in whatever order  *)
(* handlers of one label are cleaned up.                                    *)
StatusListsLast ==
    \A l \in Loads :
      handleStatus(l).backends =
        {i \in Running(l) : \A j \in DOMAIN state[l] :
           Block(l, j).label = Block(l, i).label /\ state[l][j] \in {"running", "cleaned"} => j <= i}

(* The dimensions of a handler under which no request counts, whatever it  *)
(* shows; and "country" where a dimension exempts countries and no request *)
(* has one.                                                                *)
Silent(b, found) ==
    LET dims == resolveScoringConfig(b.scoring).dims
        used == DOMAIN dims \cup IF \E d \in DOMAIN dims : dims[d].exempt # {} THEN {"country"} ELSE {}
    IN {d \in used : \A q \in RequestKinds : dimensionKey(d, classify(b, found, q)) = None}

(* A setting that opened, or initialized, and is of no use to the dimension *)
(* that needs it: a database of another kind, a URL that serves no keys.   *)
Unfit(d, b, found) ==
    \/ d = "asn" /\ found.asn \notin {"asn", "broken", None}
    \/ d = "country" /\ found.city \notin {"city", "broken", None}
    \/ d = "user" /\ ~Checks(b.session) /\ found.jwks \notin {"jwks", "broken", None}

(* Provision lets a dimension be permanently silent for one reason only:   *)
(* the file or URL the dimension itself needs did open, but is a database  *)
(* of another kind or a URL that cannot be reached. Nothing else does it:  *)
(* no missing or broken setting, no session cookie that is only issued, no *)
(* other dimension's setting, no other handler that shares or releases the *)
(* readers.                                                                *)
SilentOnlyIfUnfit ==
    \A l \in Loads : \A i \in Running(l) :
      LET b == Block(l, i)
          found == FoundBy(pool[l], b)
      IN load[l].phase # "failed" => \A d \in Silent(b, found) : Unfit(d, b, found)

(* The comment on Provision (module.go:106-110): a typo'd or broken path or *)
(* URL never degrades to a dimension that is permanently without penalty.  *)
NoSilentDimension ==
    \A l \in Loads : \A i \in Running(l) :
      load[l].phase # "failed" => Silent(Block(l, i), FoundBy(pool[l], Block(l, i))) = {}
=============================================================================
