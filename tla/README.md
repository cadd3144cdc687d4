# caddy-fair-admission: verification project

TLA+ models of the two Caddy middlewares of this repository and of its load generator, checked with TLC on small instances, with
TLAPS proofs of the safety properties of nearly every part. Source references are relative to the
repository root (`src/` here).

Contents: [the system](#1-the-system) · [inventory](#2-inventory) · [modules](#3-modules) ·
[runs](#4-runs-what-they-check-and-show) · [fairness](#5-fairness) · [proofs](#6-proofs) ·
[findings](#7-findings-and-observations) · [what is not modelled](#8-what-is-not-modelled) · [plan](#9-plan)

## 1. The system

A request passes two handlers, in this order.

1. **`fairness`** classifies it (address, network, country, identity), counts it under every enabled
   *dimension*, and computes a score from a base value and the recent request rates of the entities it
   belongs to. It never rejects.
2. **`adaptive_admission`** queues the request by that score. A single dispatch loop acquires a unit of
   capacity from a *controller*, pops the best ticket and grants it; the request's own goroutine then
   calls the next handler (`reverse_proxy`) and releases the unit with the outcome. A loop in the
   controller raises and lowers the limit from a window of recent outcomes.

```
 request goroutines                      dispatch loop                controller loop
 ServeHTTP: Enqueue --push/Signal-->     Acquire (cond.Wait)          tick: adjust()
      | wait on ticket                   waitPopHead (cond.Wait)        limit, then outside the lock
      |  <------ close(granted) -------  grant                          gauge callback, wake(delta)
 next.ServeHTTP
 Release --unlock, then Signal---------> (a parked Acquire wakes)
```

The parts meet in shared state (controller fields under `c.mu`, queue under `s.mu`, one map and mutex
per dimension), in two condition variables signalled **outside** the critical section that changed the
state, in callbacks (`onLimitChange`), and in a config reload, where Caddy provisions the new handlers
before it cleans up the old ones.

## 2. Inventory

| Component (source) | State | Operations | Hard behaviour | What makes it correct |
|---|---|---|---|---|
| Capacity controller (`adaptiveadmission/capacity.go`) | `limit`, `inFlight`, waiters, window, stop channel | Acquire, Release, ReleaseUnused, adjust, Start, Stop | bounded `Signal`s after unlocking, barging, shrink below what is out, Stop against a tick | no lost wake-up; units bounded; gauge follows limit; Stop returns and is final |
| Outcome window and adjust loop (same file) | ring of samples with running sums, histogram, three cooldown stamps | record, percentile, rates, adjust | eviction arithmetic, one branch per tick, shared and separate cooldowns, rounding | window stands for the last N outcomes; each signal once per cooldown; recovery and drain |
| Priority queue scheduler (`queue.go`, `dispatch.go`) | heap, sequence number, stopped flag | Enqueue, dispatch loop, Stop, release after dispatch | unit reserved before a ticket exists, acquired and released by different goroutines, panics, projection mixing two reads | capacity conserved; each ticket granted once, in order; loop never sleeps on work |
| Ticket heap (`queue.go`) | slice with back-indices | Less, Swap, Push, Pop | stability among equal scores; what is pushed and popped under the scheduler's interleavings | pops by score, then arrival; the slice holds the queue |
| `adaptive_admission` handler, app, metrics, admin (`module.go`, `app.go`, `metrics.go`, `admin.go`) | gauges, handler registry | Provision, Cleanup, ServeHTTP | gauges set from values read under a lock already released; two handlers of one label during a reload | gauges settle on the truth; no goroutine outlives Cleanup |
| Fairness scoring (`fairness/scoring.go`) | one map per dimension of `ClientStats` | track, tick, gc, computeScore, start, stop | request, tick and sweep interleave lock by lock; late and dropped ticks | nothing drops out of the count; load costs, quiet forgives; memory is reclaimed |
| Session cookies (`session.go`) | keys by id, TTL | issue, renew, verify | keys rotate while cookies live; several hosts issue and check | an active session survives rotation; no live cookie is refused |
| Shared resources (`app.go`, `geoip.go`, `auth.go`) | reference-counted pools | acquire, release | failing Provision in the middle | each reference released once |
| Classification (`classify.go`) | none | per request | fail-open fallbacks | every request gets a class |
| Configuration (`config.go`, both `UnmarshalCaddyfile`) | none | parse, defaults, validation | unvalidated combinations | what is accepted is safe to run |
| Load harness (`loadtest/`, `cmd/loadtest`) | worker counters | sweep, report | requests under way when the window opens or closes, or that never return | samples belong to their level and its window; the sweep returns |

`PROJECT.json` lists every component with its status, and under `hazards` each of these behaviours at
the line where it bites, with the properties that would catch it.

## 3. Modules

| Module | Models | Correspondence |
|---|---|---|
| `AdaptiveLimit` | `shrink`, `grow`, `clampInt`, the branches of `adjust()` | Multipliers are percentages. `math.Round` is to nearest, halves up; `TiesDown` names the limits whose float64 product with 0.70 falls just under the half, so either rounding can be instantiated. |
| `Controller` | `Controller` of `capacity.go` | One action per critical section under `c.mu`. `Signal` calls are steps of their own: `waking` counts releasers between unlock and `Signal`, `owed` those `wake(delta)` still owes. The callback is its own step. Which branch a tick takes is open (`\E b \in Branches`), so every traffic is covered. |
| `ControllerProofs`, `AdjustLoopProofs`, `SchedulerProofs`, `ScoringProofs`, `SessionProofs`, `AdmissionHandlerProofs`, `ConfigLoadProofs`, `SweepProofs` | | Theorems about the module each extends, section 6. `AdjustLoopProofs` covers `OutcomeWindow` too, `SchedulerProofs` `TicketHeap`, `HeapScheduler` and the refinement of `PriorityAdmission`. |
| `OutcomeWindow` | ring, sums, histogram, `percentile`, rates | The bucket starts are a table of increasing whole numbers (`bucketStart`), as what `bucketUpperBound` returns is in the nanoseconds of `time.Duration`; in the program there are 256, growing by a factor of 1.0441. `math.Log` may leave a latency that is a start itself just short of it: `EdgesDown` are the buckets where it does. The clamping of both ends and the rank arithmetic are kept. |
| `AdjustLoop` | `adjust()` with its inputs | `Release` records an outcome, `adjust(gap)` is a tick `gap` seconds after the last. Timers are ages. It decides the branch `Controller` leaves open. |
| `TicketHeap` | `ticketHeap`'s methods on the slice | `container/heap` is external and modelled by its two loops round by round (`UpRound`, `DownRound`), calling the repository's Less (`HeapLess`), Swap, Push and Pop. |
| `HeapScheduler` | `heap.Push` in `Enqueue`, `heap.Pop` in `waitPopHead` | `Scheduler` and `TicketHeap` side by side: a step that lengthens the queue is a push, one that shortens it a pop. Which ticket each of them takes is decided apart. |
| `PriorityAdmission` | the promise of the scheduler | Abstract: a line, who is served, who left, whether it closed. |
| `Scheduler` | `queue.go` with `dispatch.go`, over `INSTANCE Controller` | Per request a control point, the dispatch loop's control point, who holds `s.mu`. The queue is a set and the pop takes its least ticket by `Less`; that the heap yields the same one is `HeapHoldsQueue`. Controller steps are Controller's own actions with the dispatch loop as its one acquirer. |
| `Scoring` | `fairness/scoring.go`, and the part of `ServeHTTP` that calls it | Per-dimension critical sections of `track`, `tick`, `gc` and `entryEWMARPS` are steps. Time is counted in tick intervals and instants are kept as ages; tickers have a channel of one. Rates are integers in units of `1/Scale`, and `alpha` is `1/AlphaInverse` (1/5 in the default profiles). |
| `Session` | `fairness/session.go`, the part of `ServeHTTP` that calls it | A request is sent (with the jar's cookie and the keys loaded then), read, answered and its answer received; the two clock readings of `verify` and `maybeIssue` are separate steps. A cookie is its key id, its id and the ticks left; whether the MAC matches is whether a known key made it. The expiry is cut to a second, `Max-Age` to whole seconds. `Reload` is the operator, who drops a key `RotationWait` after the reload before. |
| `AdmissionBlock` | an `adaptive_admission` block: `UnmarshalCaddyfile`, `unmarshalController`, `buildController` | Lines are folded into the block they set; a token that does not parse is `Bad`. |
| `AdmissionHandler` | Provision, Cleanup, `ServeHTTP` (`adaptiveadmission/module.go`), the App's registry, the two gauges | Handlers of several loads side by side. The host begins a clean-up whenever the next load serves, with requests inside the old handlers or on their way into them. `ctx.App` does not fail, since `App.Provision` returns nil. `Cleanup` is three steps: it begins (`Scheduler.Stop`), the dispatch loop exits, `Controller.Stop` returns and the handler is unregistered (`Cleaned`). A request is in `ServeHTTP` before it is enqueued. Reading `InFlight()` and setting the gauge are two steps, as are `adjust` and `onLimitChange`. The order of the queue and the inside of the scheduler are those of `Scheduler`, left open here. |
| `FairnessBlock` | a `fairness` block: `UnmarshalCaddyfile` with its three sub-blocks, `resolveScoringConfig`, the validation in Provision, `classify` | As `AdmissionBlock`. A request is a kind of address, token and cookie; a reader answers when its database is of the kind asked for. |
| `ConfigLoad` | Provision, `releaseAcquired`, Cleanup (`fairness/module.go`), the pools, registry and status of `fairness/app.go`, `admin.go` | A load has an App, so pools and a registry, of its own. Provision of a block is one step: it runs on the goroutine that loads, and nobody else writes the pools then. What a path or URL opens is chosen when it is opened. |
| `Sweep` | `loadtest/sweep.go` | Workers with a control point and the tick they came there; a request that cannot be made ends its worker, and its timeout runs from the look at the clock before it is made; a level ends when all are done; rows are kept. `sort.Slice` is modelled by what it promises: which latency stands at place `k`. |
| `MC*` | | Instances for TLC: constants only. `MCSessionRotation` and `MCConfigUnreachable` hold those of two violation runs. |

`AdmissionHandler` extends `AdmissionBlock` and `AdaptiveLimit`, `ConfigLoad` extends `FairnessBlock`: a
load starts from the lines of a Caddyfile, so that what Provision is given is what the parser accepts.
`Scheduler` composes `Controller`; `Controller` and `AdjustLoop` share `AdaptiveLimit`; `AdjustLoop`
extends `OutcomeWindow`; `HeapScheduler` runs `TicketHeap` under `Scheduler`; `Scheduler` is shown to implement `PriorityAdmission` under the mapping at its
end (a ticket about to be granted already counts as served; the line closes when the dispatch loop
decides to exit). `sent`, `quiet`, `busy` in `Scoring`, `fired` in `AdjustLoop` and `gap`, `active` and a
request's `tracked` in `Session` and `completed` in `Sweep` are history that the code's steps do not read. Operators marked *mutant*
are deliberately wrong variants of the definition that follows them; each property is known to fail on
one of them.

## 4. Runs: what they check and show

| Run | Instance and bounds | Result |
|---|---|---|
| `controller` | 3 acquirers, initial 1 below minimum 3, maximum 5 (the first tick jumps by 2, so one growth owes several Signals), at most 2 releasers between unlock and Signal | `NoLostWakeup`, `OverloadBounded`, `OverLimitOnlyDrains`, `StoppedIsQuiet`, `TypeOK` and, under fairness, `FreeCapacityIsClaimed`. Three acquirers give one barging, one woken and one parked at the same time. |
| `adjust` | window of 3, four buckets, five kinds of outcome (one per comparison of `adjust`; of the latencies one on an edge that rounds down, one at the first and one past the last bucket start), limits 1..8, ticks every 20 s so that a 30 s cooldown spans one tick and a 60 s one two | sums and percentile agree with reference definitions over the last 3 outcomes; cooldowns; a tick moves the limit by the traffic and only so; recovery to the maximum; drain under sustained errors. |
| `scheduler` | 4 requests of two scores, a limit moving in 2..3, a queue of three, projected wait on, one handler that panics, Stop at any time, the heap under the queue (three queued tickets at most, for which its loops make one round; the theorems have any number) | units and tickets are accounted for, the loop never sleeps on work, the backend never sees more than the ceiling (four requests exceed it), free units reach the queue, every ticket is granted, the slice holds the queue and pops by score and arrival, and the scheduler refines the abstract line with its liveness. `TicketsGranted` needs fewer panics than the minimum, else no unit is left. |
| `scoring` | one network seen from two countries, one of them exempt; up to 3 requests per tick (thresholds 1 and 2); ticks and sweeps up to one tick late, so that instants are dropped; TTL 5 ticks, the smallest at which every property holds with that lateness; `stop` at any time | no request drops out of the count, `gc` forgives nobody it should still charge, sustained load is charged, quiet and exempt clients are not, memory is given back, and once `stop` has returned no tick or sweep touches the entries. |
| `session` | two parallel requests, two instances with issuing and checking blocks, TTL of 6 ticks of half a second, an answer at most one tick late, a browser that asks an issuing block at least every tick but one; two rotations: the new key before the old one with every block reloaded at once, and one that reloads instance by instance and lets all of them verify the new key before any signs with it; the old key is dropped after one TTL **and** the longest a request takes (`RotationWait = 7`) | no live cookie is ever refused, and an active browser keeps its session and its class. |
| `config_load` | two loads. The first: one block alone, in every combination of a city, an ASN database (or the city file under another spelling), a JWKS URL, four session cookies and 61 scorings, malformed lines included; or two blocks that share a label or resources, in both orders. The second: one block. A database may be of the other kind or broken, a URL may serve, not answer or be malformed, all of these with every block, and the host may or may not clean up a handler whose Provision failed | pool references count the uses by handlers (a handler and a setting) while a load serves and while it is taken down; what was refused or replaced leaves no reference, goroutine or registration; the status lists the last handler of a label; a dimension that was accepted is silent only where its own database is of another kind or its own URL serves no keys. |
| `handler` | two requests, two loads of at most two blocks: fixed and adaptive, an initial limit above the maximum, a block that cannot be provisioned alone or second, lines that do not parse, two controller sub-blocks, two blocks of one label, a queue of one and a wait bound | queued requests are answered across the reload, the clean-up of the old load ends also while a request holds the only unit and its dispatch loop waits for it, it leaves no unit out but those of requests still at work and no registration, and a handler whose clean-up returned sets the limit gauge no more. Two requests are enough for one to hold the only unit, one to wait and the look-ahead unit to be out. |
| `sweep` | levels of 1, 2 and 1 workers, ramp-up, window and request timeout of 2 ticks, a goroutine at most one tick late, cancel at any time | the sweep returns; a worker counts at most one request more or less than it completed inside the window, and more only when the window has closed; a row's percentiles are those of its level, none of whose requests is still out. A worker fits several requests in a level. |
| `scheduler_panic`, `handler_gauge`, `session_rotation`, `config_unreachable` | the smallest instances; `session_rotation` is `session` with the one documented rotation and `RotationWait` of one TTL | each exhibits the disagreement with a comment or a document described in section 7. |

`TypeOK` is a property of the run `controller`. It is proved for that module and for `Scheduler`; the
definitions in `AdjustLoop`, `TicketHeap` (`HeapTypeOK`), `Scoring` and `Session` hold in the runs of those modules too, and
stay as the reader's guide to the state.

`scoring` uses one dimension and one request at a time. Dimensions share no state (each has its own map
and mutex) and a request visits them one after another; a request's clock reading may still be older
than the `LastSeen` it overwrites. Two dimensions, or two requests, multiply the states to several
millions; `TypeOK` and `EveryRequestCounted` were run once with two requests and `IdleTTL = 3`
(5.2 million states) without error.

In `session`, activity means a request to an issuing block every `Patience` ticks with
`Patience + 2 * MaxLag <= TTL / 2`: a renewal is due at half the TTL, a request already on its way carries
the old cookie for `MaxLag`, and the renewal takes `MaxLag` to arrive. The instance meets this bound with
equality; with `Patience` one larger TLC finds an active browser losing its session. Two requests are
what renewals need to cross; the ids in use stay at most five. `MCSession` states this bound (`Unhurried`)
and that both rotations are safe (`SafeRotation`) as an assumption that TLC evaluates: they are the
hypotheses of the theorems about sessions. `MCScoring` does the same (`Supposed`) for the theorems about rates.

Deadlock is checked except where the system may really stop: the scheduler instances end when all
requests are done and Stop has returned, `scoring` ends after `stop`, `config_load` and `handler` when the
last load is in place, `sweep` when it has returned.

### Bounds, by name

`MaxWaking` (releasers between unlock and Signal; in `Scheduler` larger than the number of requests, so
it never blocks), `Means` (values the mean latency may take), `TickGaps` (seconds between ticks),
`MaxPushes`, `MaxPending` (requests of an entity per tick), `MaxLag` (in `Scoring`: ticks a goroutine may
be late, a pass over the maps being shorter than a tick; in `Session`: ticks from a request to its answer;
in `Sweep`: ticks a goroutine may be late), `Patience`, `MaxLoads`, `MaxBlocks` and the sets of `Configs`,
`MinLatency` (without it a worker may send any number of requests in one tick). Fixed sets of acquirers,
requests, outcomes and scores.

One parameter is an assumption about Caddy, which is not part of this repository. `CleansUpFailed`: the
comment on `releaseAcquired` says that the host does not call Cleanup after a failed Provision; both
answers are checked, so nothing rests on it. That Caddy waits for the requests of a load before it cleans
the load up is **not** assumed.

## 5. Fairness

A runnable goroutine is eventually scheduled, and both mutexes are held for straight-line code only;
this gives weak fairness of the woken acquirer, of the pending Signals, of the callback, of the dispatch
loop, and of a request between its own steps. The exit of a loop that selects between a ticker and a
closed stop channel is strongly fair: Go's `select` picks at random among ready cases, and the channel
is always ready while a tick is ready once per interval. The next handler of an admitted request
returns or panics (proxies have timeouts). In `AdmissionHandler` the host finishes the clean-up it began, and
its `Controller.Stop`, under way for one handler at a time (`Cleaned`), is strongly fair for the reason given above: the stop channel is ready between any two ticks,
while a tick may come again and again. In `Sweep` the workers go on and time passes, no request need be
answered. Time passes and tickers tick. **Nothing** is assumed of
the traffic, of the callers of `Acquire` in `Controller` (which need not release), or of anybody calling
Stop. `HealthRestoresLimit` takes continued fast traffic as its premise, `MemoryReclaimed` the end of
traffic.

## 6. Proofs

Each theorem holds for every value of the constants that the named assumption allows; each assumption is
evaluated by TLC in the run of its module, so the instance of section 4 satisfies it.

| Module | Theorem | States | Beyond the module's assumptions |
|---|---|---|---|
| `ControllerProofs` | `TypeCorrect` | `Spec => []TypeOK` | |
| | `WakeupsSuffice` | `Spec => []NoLostWakeup` | |
| | `OverloadProtection` | `Spec => []OverloadBounded` | |
| | `GaugeFollowsLimit` | `Spec => []GaugeCurrent` (not in a run: `StoppedIsQuiet` and `CleanedSetsNoGauge` check what comes of it) | |
| | `ShrinkDrains` | `Spec => OverLimitOnlyDrains` | |
| | `StopIsFinal` | `Spec => StoppedIsQuiet` | |
| `AdjustLoopProofs` | `WindowIsExact` | `Spec => []SumsMatchRecent` | |
| | `PercentileIsRight` | `Spec => []PercentileNearestRank` | |
| | `CooldownsKept` | `Spec => CooldownsHeld` | |
| | `TrafficMovesLimit` | `Spec => LimitFollowsTraffic` | |
| `SchedulerProofs` | `TypeCorrect` | `Spec => []TypeOK` | |
| | `UnitsConserved` | `Spec => []UnitsAccounted` | |
| | `TicketsConserved` | `Spec => []TicketsAccounted` | |
| | `NeverSleepsOnWork` | `Spec => []SleepsOnlyWhenIdle` | |
| | `BackendIsProtected` | `Spec => []BackendProtected` | |
| | `FreeUnitIsUsed` | `Spec => []FreeUnitReachesQueue` | |
| | `QueueIsBounded` | `Spec => []QueueWithinBound` (defined with the proof) | |
| | `Implementation` | `Spec => P!Spec`, `P` being `PriorityAdmission` | |
| | `HeapIndexIsPlace` | `HeapSpec => []IndexTracksSlice` (`TicketHeap`; not in a run: no code reads the field) | |
| | `HeapPopsFirst` | `HeapSpec => PopsHighest` | |
| | `QueueRunsHeap` | `QueueSpec => HeapSpec /\ []QueueInv` (`HeapScheduler`) | |
| | `SliceIsQueue` | `QueueSpec => []HeapHoldsQueue` | |
| `ScoringProofs` | `RequestsCounted` | `Spec => []EveryRequestCounted` | `IdleTTL > 2 * MaxLag` |
| | `ChargesAreJustified` | `Spec => ChargesJustified` | the same, and `Cools` |
| | `LoadCosts` | `Spec => SustainedLoadCosts` | `IdleTTL >= 3 * MaxLag + 2`, and `Climbs` |
| | `NobodyForgiven` | `Spec => GcForgivesNobody` | `IdleTTL > 2 * MaxLag`, and `Fades` |
| | `StopIsFinal` | `Spec => StoppedIsStill` | |
| `SessionProofs` | `KeysRotateSafely` | `Spec => []RotationKeepsCookies` | every plan is a `SafeRotation` |
| | `ActiveSessionKept` | `Spec => []ActiveSessionLasts` | the same, and `Unhurried` |
| `AdmissionHandlerProofs` | `CleanupIsComplete` | `Spec => []CleanedLeavesNothing` | |
| | `CleanedIsSilent` | `Spec => CleanedSetsNoGauge` | |
| `ConfigLoadProofs` | `PoolsMatch` | `Spec => []PoolMatchesHolders` | |
| | `NothingLeftOver` | `Spec => []NothingOutlivesLoad` | |
| | `StatusIsLast` | `Spec => []StatusListsLast` | |
| | `DimensionsServe` | `Spec => []SilentOnlyIfUnfit` | |
| `SweepProofs` | `SamplesOfWindow` | `Spec => []OffByOneRequest` | |
| | `RowsAreTrue` | `Spec => RowTellsLevel` | |
| | `LevelEndsInTime` | `Spec => []LevelIsBounded` (not in a run: `SweepReturns` is) | |

### What is assumed

- `ControllerAssumption` (`ConfigAssumption` in `Scheduler`) is what `buildController` validates and no more, in
  particular not `MinConcurrency <= MaxConcurrency`; `TiesDownAssumption` says that the rounding ties are
  numbers. `SchedulerAssumption` and `HandlerAssumption` ask for finitely many requests.
- `HeapAssumption`: scores are numbers, as is the number of pushes. Any number of tickets may be queued at once.
  `HeapSchedulerAssumption`: these bounds leave no request of the scheduler out.
- `WindowAssumption` and `AdjustAssumption`: a window and at least two buckets, bucket starts that are positive whole
  numbers and increase, latencies that are numbers. The program's own table is one such: cut to nanoseconds its 256
  starts increase by 44 000 at least. Nothing is assumed of `EdgesDown`, which in the program is every bucket
  but the first: a start is cut below its edge, and as a latency falls a bucket lower.
  `ceil(p * total)` is exact: in float64 it equals the integer formula for p = 0.95 and every `total` below 200 000,
  while the window has 100 outcomes.
- `ScoringAssumption` fixes types, thresholds that are integers, an `alpha` of `1/n` and finitely many requests.
  `parsePenaltyArgs` accepts any float as `alpha` (`scoring.go:716-722`), also above 1 or negative, of which nothing is said. `idle_entry_ttl` is not
  validated against the tick, so the theorems say how long it must be, and with `MaxLag = 1` TLC shows that each
  bound is the least: with `IdleTTL = 2` it violates `EveryRequestCounted`, with 4 `SustainedLoadCosts` (two requests).
- `Cools`, `Climbs` and `Fades` say, in the arithmetic of `blend` alone, that `QuietTicks` ticks below a threshold
  are enough for any rate to fall below it, that `BusyTicks` ticks above it are enough to cross it, and that a rate
  falls below it before its entry is idle for `IdleTTL`. They are stated by a sequence of bounds on the rate, so
  that they do not depend on a closed form of it. `MCScoring` gives the three sequences and TLC evaluates all the
  suppositions (`Supposed`). They are conditions on the config that the code does not check; where they fail so does
  the property (`IdleTTL = 4` has no `Fades`, and TLC violates `GcForgivesNobody`).
- `SessionAssumption` takes a TTL of a second or more and marks that are no cookies and no keys.
  `SafeRotation` (a key list is followed by one that still has the key that signed, and where instances
  reload one by one, the new signing key was already listed; `RotationWait >= TTL + MaxLag`) and `Unhurried`
  (`Patience + 2 * MaxLag <= TTL / 2`) are hypotheses, evaluated by `MCSession`; without the first TLC
  violates `RotationKeepsCookies`, with `Patience` one larger `ActiveSessionLasts`.
- `ConfigLoadAssumption` says that a config is a list of blocks, a block and its sub-blocks lists of lines, and that
  every key that is opened may be found to be something; `NoneAssumption` that what is absent is none of the values.
  Nothing is assumed of the lines, nor of what is found. `SweepAssumption` fixes types, with `MinLatency <= RequestTimeout`.

### The arguments

**Controller.** `IInv == TypeOK /\ LoopInv /\ NoLostWakeup /\ OverloadBounded` is inductive.
`NoLostWakeup` (every free unit has a wake-up on its way, **or** every parked goroutine has a Signal
on its way) is not inductive alone: a tick may raise the limit by several, and the units this frees
are covered only if the Signals still owed are tied to the loop's control point, which `LoopInv` does
(Signals are owed only in "changed" and "wake", and always in "wake"; the gauge is the limit except
in "changed"; once Stop has returned the loop is off or done). The case worth reading is `Signal` in
`NextIInv`: with a parked goroutine the wake-up it spends becomes a woken goroutine, so the first
disjunct is kept; with none, the second holds for nothing. `Acquire` that parks needs the test in the
same critical section as the Wait: no unit is free, so the first disjunct holds afterwards.
`OverloadBounded` is inductive because `clampInt` returns at most the larger of the two bounds however
they are ordered, and a woken goroutine tests again. The action properties follow from `IInv` and one step.

**Window and percentile.** `WindowInv` reads the ring from its oldest sample on: from slot 0 while it fills,
from `pos` once it is full, and this is `recent`; the sums are the counts over `recent`, the latencies' sum being
the area under them. `record` appends at one end and, once full, drops the other; the counting lemmas
(`CountAppend`, `CountTail`, `AreaAppend`, `AreaTail`) say what that does to a count. `PercentileIsRight` then needs no
history: the cumulative counts grow bucket by bucket (`CumCounts`), a longer latency falls in no lower bucket
wherever the edges round to, so the first bucket whose count reaches the rank is that of the
nearest-rank sample (`FirstReached`, `PercentileIsNearest`). `CooldownsKept` follows from `AgesInv`: a timer was
stamped no longer ago than any branch that shares it fired. `TrafficMovesLimit` puts together which branch a tick takes
(`BranchFacts`), that a shrink lowers any limit above 3 and raises none, with either rounding of a tie (`ShrinkFacts`),
that a grow raises every limit (`GrowFacts`), and that the clamp keeps the direction of a move or ends on a bound
(`ClampFacts`). It is the step from which the two liveness properties of `adjust` are made; with `MinConcurrency`
above `MaxConcurrency` it holds as well.

**Scheduler.** Every step of the scheduler is a step of the controller or leaves it alone (`ControllerStep`), so
Controller's `IInv` holds under the queue, with the dispatch loop as the one acquirer. `SInv` adds to the
three conservation properties what they need to be inductive: sequence numbers count the pushes and no
queued ticket has a later one (`SeqInv`); a request that computes its projection holds `s.mu`, so the bound
it tested still holds when it pushes (`LockInv`); a request about to be granted has no second ticket
(`GrantInv`). `BackendProtected` and `FreeUnitReachesQueue` are then the controller's bound and its wake-ups, read
through `UnitsAccounted`. `QueueIsBounded` is `LockInv` at the only step that makes the queue longer. `Implementation`: the initial state maps to the empty line, and each action maps to an
arrival, a refusal, a service, a departure, the closing of the line, or a stutter; the pop is the case
where the least ticket by `Less` must be the one the line serves next.

**Heap.** `HeapInv`: the slice holds different tickets (`Slice`), the index fields are their places (`Tracks`), and no
ticket precedes its parent (`Ordered`). While a loop runs the last holds but for the ticket it moves: for up, that
one may precede its parent and its children do not precede its parent either; for down, its children may precede it.
A round moves this exception to the parent, or to the better child, or removes it. The place moves strictly towards
the end of its path, so after as many rounds as there are tickets the loop has ended (that the rounds exist at all is
an induction on their number, by the least number without). That the root precedes every other ticket is again by
the least place that contradicts it: its parent would be one. `QueueRunsHeap` takes this under the
scheduler: `QueueInv` ties slice and set ticket by ticket, sequence numbers included, so that the ticket
that precedes every other in the slice is the least of the set by `Less`, and a push into the one is a push into the other.

**Scoring.** `EveryRequestCounted` fails if `gc` deletes an entry with a count. `FreshInv` excludes it: what waits for
a fold was seen at most `MaxLag` before the last instant of the tick loop, so it is at most `2 * MaxLag + 1` old
when the late pass comes to it.

The three properties of rates look at one entity at a time. `EntityStep` says what a step can do to it: fold its
count, delete it, or neither, and then its rate and its history stay. At a fold the count is at most `MaxPending`
and, until stop, what was sent since the last tick (`CountInv`), so each tick moves the rate from one bound of the
sequence to the next, since `blend` is monotone (`BlendGrows`). `CoolInv` and `ClimbInv` tie the rate to the number of
quiet and busy ticks; a busy entity is never deleted, because each tick finds a fresh count in it. `FadeInv` ties it
to the age instead: after `n` ticks without a request a rate is at most `fade[n]`, and an entry older than `IdleTTL`
has missed so many ticks that this is below every threshold.

`StoppedIsStill` needs only that a goroutine which has left is in no pass and that `stop` returns when both have left
(`StillInv`); a pass under way when the channel is closed, or begun after, is over by then.

**Sessions.** `RotationInv` says of every cookie, key list and answer that is out that every instance knows its key
for as long as it matters: `Keeps(s, k, b)`, either the next list has `k` or it is loaded only after `b` more ticks. For a
cookie `b` is what is left of it, for a request that may still sign `TTL + MaxLag` less the time it is under
way. `ActiveInv` follows one session: either the cookie was in its first half when an issuing block was last
asked, or a renewal is on its way, asked for by a request sent no later than `Patience` after the cookie was;
the least such request decides which answer keeps the session alive.

**Handlers across reloads.** `HInv`: a handler's units are those of its requests at work and the one its
dispatch loop holds, which it holds only while it runs; a callback pending belongs to a handler that is
not cleaned up, so whoever sets the gauge still may; a registry lists such handlers under their own labels. `LoadInv`: a pool holds one
reference for every use by a handler that runs, at most that once the load has failed, and none that is
zero; the registry holds, for each label, the last handler provisioned. The first fails for a failed load
that the host cleans up as well; that is why it says "at most" there, and why releasing twice is harmless. `PurposeInv` adds that the running handlers
have what Provision insisted on: their readers are in the pools (`KeysHeld`) and what was found of them does not
change (`PoolChanges`). That only dimensions that exist are enabled is an induction over the lines of the Caddyfile:
`FoldExists` shows that the fold satisfies its recursion, and what each line keeps (`LineKeeps`, `ScoringLineKeeps`) the
fold keeps (`FoldKeeps`). `SilentUnfit` then names, for each dimension whose database or key set is what it should be, a request that counts.

**Sweep.** A worker sends only if the window was open when it last looked (`ClockInv`). `CountInv` follows, from place to
place of a worker, what it counted against what it completed inside the window: they differ for the request that was
under way when the window opened, which is answered once, and for the one under way when it closed, after which the
worker sends no other. `RowsAreTrue` needs that every place of the sorted
samples is taken (`PlaceIsTaken`): the least number with enough samples at or below it is a latency that occurred, and
there is one because latencies are bounded (`LatencyInv`); the rank of `percentile` is then right for every number of
samples (`RankFacts`). `LevelEndsInTime` adds a number to `SweepReturns`: `TimeInv` bounds the instants
at which a worker may come to each place, so whatever it waits for is due before the bound (`DueFacts`), and the clock
waits for nobody longer.

### What stays with TLC

- Liveness, and whatever needs `ENABLED`: `FreeCapacityIsClaimed`, `HealthRestoresLimit`, `ErrorsDrainLimit`,
  `TicketsGranted`, `EveryRequestAnswered`, `RetiredIsOver`, `SweepReturns`, `MemoryReclaimed`, and the fairness half of
  `ImplementsLine`.
- The type invariants of `AdjustLoop`, `Scoring` and `Session` in full; the proofs state the part they need.

## 7. Findings and observations

Disagreements between the code and what is written about it, each shown by a run:

- **A panic keeps its unit** (`scheduler_panic`): `dispatch` calls `Release` after `next.ServeHTTP`
  without `defer`, although its comment says every path releases exactly once. `reverse_proxy` panics
  with `http.ErrAbortHandler` by design; each panic lowers the capacity by one for good. All other
  accounting holds once the lost units are counted (`UnitsAccounted`).
- **One `ttl` is too short to drop a key** (`session_rotation`): `docs/configuration.md:463-465` has the old key dropped
  after one `ttl`. A request that an old handler still serves when the new list is loaded is answered with a
  cookie signed by the old key, so such cookies are issued for as long after the reload as the request lasts, and
  outlive the key. The run is `session` with that wait, and all blocks in one process; with one `ttl` and the
  longest request, `session` shows that no cookie is lost.
- **An unreachable JWKS URL is accepted** (`config_unreachable`): `docs/configuration.md:70-77`,
  `REQUIREMENTS.md:238-240`, the comment on Provision (`module.go:106-110`) and its own error text (`module.go:189`) say
  that a URL which is unreachable or mistyped fails the load. `auth.go:75` asks the library not to report the first
  request's error, so only a malformed URL fails; `penalty user` then counts nobody until the refresh succeeds.
  The same holds of a database that opens but is of another kind (`geoip.go:39-47`). `SilentOnlyIfUnfit` shows that these are the only
  ways to a silent dimension.
- **The in-flight gauge may stay two ahead** (`handler_gauge`): its comments allow an idle backend to read
  one too high, for the look-ahead unit. `ServeHTTP` sets the gauge to a value read under a lock already
  released. Of two requests that finish together, the one that read 2 may set the gauge last, and it
  stays until the next request; with more requests the excess grows.

Observed while modelling, without a run of their own:

- The look-ahead unit can outlive a shrink: `capacity.go:350-353` says the reservation never affects
  overload protection, but after a shrink a request is granted on it while as many as the new limit are
  running. The excess is one request, and the ceiling holds (`BackendProtected`).
- `percentile` returns the start of a bucket, where `capacity.go:136` ("the latency value at the top of bucket i") and
  `219-221` ("below which at least a p fraction" fall) promise an upper bound: the result can lie below the samples it
  is to cover, by a factor of up to 1.044, so a p95 up to that much over a threshold is not seen.
  `PercentileNearestRank` states which bucket is found and leaves open on which side of the sample its value is.
- `PoolMatchesHolders` counts uses: a block that names one file for the city and for the ASN database counts twice in
  the references the admin API reports, where `app.go:178-181` says how many handler blocks reference it and
  `docs/monitoring.md:93-95` how many backend configs.
- `maybeIssue` promises at most one Set-Cookie per half TTL and session (`session.go:261-262`) but decides
  from the cookie of the request alone, so requests sent in parallel are each renewed.
  `ActiveSessionLasts` shows it costs headers only: every renewal keeps the id.
- The comment on `runWorker` and `Config.Hold` (`sweep.go:44-46`, `129-131`) count requests that *complete* in
  the window; the code counts those that *start* in it. `OffByOneRequest` says by how much the two differ.
- `DetectInversion` compares with the peak of all rows and only upwards from it, `report.go:24-25` speaks of the levels of
  lower or equal concurrency: a drop below the global peak's level is not reported. A cancelled sweep returns empty
  rows and no error; they may be reported as an inversion.
- A second `scoring` sub-block replaces the first whole, while a second `controller` sub-block keeps
  what the first one set. `min_score` above `max_score` is accepted. The divisor applies after the clamp.
- A load that is rejected after its first `adaptive_admission` block was provisioned leaves the
  `concurrency_limit` gauge at that block's limit, and a reload may, when several blocks have one label,
  leave it at another block's. During a reload the adaptive loop of the old handler may set the gauge after the new
  handler did, until its clean-up has returned, and a fixed successor never corrects it: `docs/monitoring.md:167` calls the gauge the
  current limit. `CleanedSetsNoGauge` states what does hold.
- The `queue_size` gauge is set on arrival only, so it keeps its last value when the queue drains.
- `min_concurrency` above `max_concurrency` is accepted; the limit then alternates at every tick. The
  safety theorems cover this configuration.
- With the default tick of 30 s and error cooldown of 30 s, ticker jitter decides whether a shrink
  happens at a tick; a failing backend that answers fast lets the limit *grow* at the ticks it skips
  (`StickingLimit` in `AdjustLoop` is where this balances).
- Rounding makes the soft shrink (0.85) a no-op for limits of 3 and below, and the error shrink (0.75) for 2 and 1.
- A late `Signal` whose unit was taken meanwhile wakes a goroutine into no capacity; harmless, but it
  contradicts the exact count in the comment at `capacity.go:254-257`.
- Prepending the new key instance by instance makes those not yet reloaded take live cookies for
  forged ones, and replace their sessions where they issue: with the documented list and one instance at
  a time TLC violates `RotationKeepsCookies`. Listing the new key last on every instance first, as the
  second plan of `session` does, avoids it.
- A `ttl` below a second is accepted; its `Max-Age` is then 0 and its expiry the current second.
  `SessionAssumption` leaves it out.
- `idle_entry_ttl` is not validated against `ewma_tick_interval`. With a TTL of few ticks `gc` deletes
  entries with uncounted requests or a live penalty: with `IdleTTL = 2` (one tick late) TLC violates
  `EveryRequestCounted`, with 3 and 4 `GcForgivesNobody`. The defaults (10 min, 1 s) are far away.
- A request that reaches `Enqueue` after the dispatch loop has exited waits for ever on its ticket: nothing there
  looks whether the scheduler was stopped, and `AdmissionHandler` lets it happen. `EveryRequestAnswered` is about requests queued before.

## 8. What is not modelled

- Floating point beyond the rounding above; HTTP itself; the MaxMind, JWKS and JWT libraries and the refresh
  of a key set; the HMAC of a cookie.
- Counters and histograms of both middlewares, the `queue_size` gauge, log lines and the JSON of the status
  calls: each is written once from values at hand, or read by one call. What a status call lists, and
  the two gauges that several goroutines set, are modelled.
- `resolveClientIP`'s fallback to `RemoteAddr`, the arithmetic of prefixes, `errors.As` in
  `classifyOutcome`: library calls over one value.
- In the load harness: which endpoint a request takes, how many requests failed, and all of `report.go` and
  `cmd/loadtest`: one pass over the rows of a sweep that is over.
- A panic of the next handler in `AdmissionHandler`: it would keep its unit for the reason shown by
  `scheduler_panic`, and the clean-up could then wait for it for ever.
- Handlers built from JSON that no Caddyfile can express, and module registration (`module.go`).
- Provisioning concurrent with another load: Caddy applies one at a time. An error of `ctx.App` after the controller was
  started (`module.go:134-141`): `App.Provision` returns nil.

## 9. Plan

Done: the controller with its proofs, the adjust loop and window, the scheduler with its heap and its
abstract specification, the scoring state, the session cookie, both configurations, the handlers and
shared resources across reloads, the load sweep.

The safety of every module is proved, with the exceptions section 6 names. What is left: the
type invariants of `AdjustLoop`, `Scoring` and `Session`.
