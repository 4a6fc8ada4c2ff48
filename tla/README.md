# TLA+ models and proofs of RailOS

RailOS watches a railway corridor: sensors on the track, edge computers at the
stations, computing services for a zone, and central services that plan, warn
and ask controllers for decisions. This directory holds TLA+ modules translated
from its source, TLC configurations that check them on small instances, and
proofs of the most important results for every instance.

* Run a check: `tlc -workers 2 -config compute.cfg MCCompute.tla` (the run table
  in section 4 names the module of each configuration).
* Check the proofs: `tlapm AuthorizationGateProofs.tla`, likewise
  `EdgeProofs.tla`, `DeviceProofs.tla`, `SignalProofs.tla`, `ComputeProofs.tla`,
  `StationProofs.tla`, `PipelineProofs.tla` and `OperationsProofs.tla`; the
  longest take a few minutes.
* `PROJECT.json` lists components, runs, hazards, findings and theorems, and
  gives for each definition the lines it translates.

Paths below are relative to the repository; `services/` is left out where the
table names the directory.

## 1. The system

### Tiers and how they meet

    micro edge (sensor hub) --batches, HTTP--> station edge --events, Kafka--+
    edge node (buffer, uploader) --events, HTTP------------------------------+
    legacy systems (NTES, OMRS, WILD) --adapters, Kafka----------------------+
                                                                             v
    station edge --gradients, heartbeats, HTTP--> zone compute          event pipeline
                                                                             v
             digital twin, watchdog, isolation, InfluxDB, alerts, prediction
                                                                             v
        scheduler, Kavach, maintenance --advisories, HTTP--> authorization gate
                                                                             v
                                     controllers (dashboard), operations topic

The processes share no memory. They meet by HTTP calls and Kafka topics, and
almost every send is best effort: a failed one is logged and forgotten. Inside
a process there are request threads (FastAPI runs plain `def` handlers in a
pool), loops as threads or asyncio tasks, and locks. So the hard behaviour is
of three kinds:

* inside one process: what is read or decided under a lock and used after it
  (gate, aggregators, registries, resource manager, twin, watchdog);
* at the edge of a process: sends that fail, answers that are lost, a node
  that loses power with a durable buffer and everything else gone;
* over a long time: counters, budgets, windows, buffers and batches that must
  not forget, overflow, or wait for something that never comes.

### Inventory: modelled components

| component (source) | state | operations | what makes it correct |
|---|---|---|---|
| authorization gate (`authorization_gate/gate_service.py`, `common/risk_scoring.py`) | queue by id, approvals, counters, gauge, sorted view, audit window | enqueue, list, authorize, reject, escalate, publish | a release needs eligible approvals, two for Tier 1; one outcome per submission; counters, view and audit agree with the queue; waiting advisories escalate |
| authentication (`auth_middleware`) | cached keys with their age, background refreshes | get keys, refresh, check a request against the permission matrix | no request is let through with keys that outlived their time; each critical action has one owner |
| event buffer (`edge_node/buffer`) | SQLite table of unacknowledged events, overflow log | write, read_oldest, ack | nothing leaves undelivered and unrecorded; bounded |
| edge node (`edge_node/main.py`, `heartbeat`, `uploader`) | state machine with failure window and lock; batch of a drain | heartbeat, state callback, synchronous drain, power loss | autonomy after three failures in a row, drain delivers, node comes back |
| asynchronous uploader (`edge_node/uploader`) | batch and failed events of each call | start, with retries | every call returns with everything tried |
| storage alerter (`edge_node/alerter`), thermal protection (`edge_node/telemetry`) | time of the last alert; throttle and cool spell | periodic check, sample | a full buffer is reported again and again; throttle does not toggle |
| edge model store (`edge_node/model_store`) | files, index in memory and on the disk | save, load, start | what is loaded is whole wherever a crash fell, but for a version saved again over its own file |
| sensor hub, signal processor (`edge_compute/micro_edge`) | ring buffers, baselines, batch; filter, sums, transforms | push, process, forward; filter, window, features | a window read beside a push is a run of samples; features are those of the window |
| federated coordinator (`edge_compute/zone_compute/federated_coordinator.py`) | round, updates, excluded stations, budget, versions | start, submit, aggregate, force timeout | noise is paid for, version is the latest completed round, a round ends |
| zone orchestrator (`.../zone_orchestrator.py`) | registry of station objects, round, history, violations, rollouts | register, heartbeat, gradients, deploy; health, SLA and round loops | silence is noticed and reported no more often than it gives cause, rounds are whole |
| resource manager (`.../resource_manager.py`) | nodes with load, assignments, pending queue; replicas | schedule, release, drain, register; scale | however calls, releases, drains and evaluations overlap: load covers what runs, nothing queued is forgotten, no thread scales twice in a cooldown, each with its known exception |
| delay prediction (`.../hetgnn_predictor.py`) | graph of a call | build, propagate, tell risks | the graph is the corridor |
| upstream sync (`edge_compute/station_edge/station_aggregator.py`) | deque, batch in flight, producer | queue, flush loop | order kept, nothing twice |
| correlation, active nodes, inference queue (same file) | window of anomalies; last-seen table; bounded queues | batch, add, find; housekeeping; enqueue, dequeue | nothing in the window is missed; listed nodes are recent; nothing accepted is pushed out |
| model registry (`.../inference_engine.py`) | loaded versions, traffic shares, active version | load, hot swap, promote, lookup | a loaded model is served, but after the promotion of an inactive version |
| batched inference (same file) | batch per model, pending results | infer, flush, collect | executed once, and in the end if results are collected |
| dead-letter router, NTES, OMRS and WILD adapters (`adapters`) | failures by source, byte stream | poll or recv, parse, publish, route | reported after three failures in a row, and only then; frames are whole |
| schema validator (`pipeline/flink_jobs/schema_validator`) | offsets, transaction, checkpoint | process, checkpoint, commit, fail | each record comes out once and in order, or is in a transaction the broker aborted |
| InfluxDB writer (`pipeline/influxdb_writer`) | position, committed offset, failure queue | write with retries, queue, commit, end, start | no event is discarded |
| twin state store (`digital_twin/backend/state_store.py`) | positions, occupants of segments | process event, clear | no segment over capacity |
| corridor simulation (`.../websocket_server.py`) | trains, signals | tick | trains stop where they should and go on |
| zone isolator (`pipeline/geographic_isolation`) | alerts, isolated flag, deployment | alert, isolate, restore, report | isolation is earned by the zone's own alerts |
| feed watchdog (`pipeline/heartbeat_watchdog`) | last message and alerted flag by topic | record, check pass | reports are true, silence is reported |
| clock monitor (`time_sync/clock-monitor`) | reliable flag, flag file, last alert | poll, start | the flag follows the clock, alerts are spaced |
| alert deduplicator (`alert_fatigue`) | entries by rounded place, windows | alert, advisory, reload | repeats are suppressed |
| Kavach advisory (`kavach_advisory`) | speed and distance of an integration | adhesion, phases of braking, certified distance | an advisory is a stopping distance where the brakes suffice, never below the certified one |
| maintenance engine (`maintenance_engine`) | windows by asset, baseline, offsets | reading, window, prediction, commit, restart | an advisory rests on measurements and is as sure as they are |
| latency monitor (`observability`) | traces with their spans | request, expiry, measurement | a latency is taken between spans that belong together |
| rescheduling engine, conflict checker (`marl_scheduler`) | windows given away | propose: place, shift, check | plans without conflicts, headway, an answer to each request |

### Not modelled

| component | why not |
|---|---|
| privilege escalation handler (`security`), data retention (`data_retention`) | one worker each with a timer or a row at a time; the first candidates for more work |
| delay predictor service, defect detector, governance, anomaly scorer | weights and statistics: numerical code whose control is a sequence |
| federated learning over Flower | thin wrappers, the protocol is in the Flower library |
| second validator job (`pipeline/flink_jobs/schema_validator_job.py`) | cannot start: it calls `set_starting_offsets()` without its argument |
| schema registry client, shared helpers, safety compliance | HTTP requests or single statements; what callers see of a helper (a send that fails) is in their models |
| dashboard, infrastructure, scripts | user interface and deployment |

Left out of modelled components: reading the hardware's sensors; the second
half of the signal features (peaks, bands, bearing frequencies) and the
two-dimensional filter; defects of the corridor drawn at random and the
websocket clients, which get a snapshot under the lock; weights of the networks
and the attribution; the endpoint `/infer` of the maintenance engine, by which
tests hand over windows of their own; requests to the sensor hub longer than
its buffer and two at a time for one channel. `PROJECT.json` says it of each
component.

## 2. Modules

`X.tla` models, `MCX.tla` gives it values for TLC, `XProofs.tla` proves.

| module | models | state and actions |
|---|---|---|
| `AuthorizationGate` | the gate | `Request` is a call of POST /enqueue with the object it creates, so two requests may carry one id. The handler has three steps (`StoreAdvisory`, `MeasureDepth`, `FinishEnqueue`), as the code measures and counts after it left the queue lock; a decision (`FirstAuthorization`, `Authorize`, `Reject`) is one step under the lock, in which `Publish` chooses whether Kafka takes the message. The escalation thread reads the clock before it takes the lock (`EscalationWakes`, `EscalationPass`). `fate`, `approvals` and `topic` are the history properties speak of |
| `GateContract` | what the gate promises | approve, reject, replace, release: no queue, lock, cache or clock |
| `HandOver` | what both uploaders promise for an event | accept, deliver: no batches, attempts, threads or power losses |
| `CircularBuffer` | the SQLite table | instanced by the next two; one transaction is one step |
| `EdgeNode` | heartbeat thread, state machine, drain, power loss | `thread` is the program counter of the heartbeat thread, which also runs the drain inside the state callback with the machine's lock held; failures are kept as ages, because only their distance from the latest counts |
| `ReconnectUploader` | class `ReconnectUploader` | a program counter, batch and set of failed events for each call of `start()` |
| `NodeServices` | storage alerter, thermal protection, model store | time counts in check and sample intervals; of a save the copy, the index in memory and the index on the disk are three steps, and a crash may fall between or into them; a save may be of a version that is indexed already, and `overwrites` remembers which were torn so |
| `SensorHub` | ring buffers, detector, forwarding | a push writes, moves the head and counts in three steps, and the loop may read between any two; a sample is its number |
| `SignalProcessor` | the pipeline of one channel | integers; the recursive transform is computed on polynomials in a root of unity, so that it can be compared exactly with the definition of the transform. Recursion is by functions, on the exponent of the length and on the level of the wavelets, and not by operators, so that it can be proved about |
| `FederatedCoordinator` | rounds of the coordinator | every call is under one lock, so one step; gradients are reduced to "drifted" and "noised" |
| `ZoneOrchestrator` | registry, health loop, SLA checks, deployments, rounds | station *objects* are explicit, because a registration replaces the object that the loop still holds. A heartbeat writes its time and its status in two steps (`Heartbeat`, `HeartbeatStatus`), the loop reads them in two (`FindDead`, `Judge`) and handles what it found in others; `revived` counts heartbeats that came between the two reads. `StationNext`, `RoundNext`, `DeployNext` and `CheckStation` are the groups a run may take |
| `ResourceManager` | scheduling, auto-scaler | choosing a node and counting it are two steps, and so are reading and storing the count of a release, the end of the drain's loop and the assignment of the queue, and the decision of the scaler and its effect; calls, releases, drain and scaler threads overlap in any way. `exposed` and `overwritten` remember who met the two races of the code |
| `DelayGraph` | the predictor's graph | one step per call |
| `StationAggregator`, `InferenceEngine` | a station's services | one action for each stretch under a lock, one program counter for each caller; the walk of `housekeeping_loop` is a step of its own, and an insertion under it ends the loop. Any loaded version may be promoted; `rolledBack` remembers promotions of inactive ones. Swaps of one model follow one another, those of different models overlap |
| `DeadLetterRouter`, `NtesAdapter`, `StreamAdapter` | router, NTES, OMRS and WILD | the adapters extend the router; each of its two messages may fail. `recv` gives any part of what arrived, connections end anywhere |
| `SchemaValidator` | the Flink job | offset and transaction belong to the checkpoint; what Flink does at a failure is taken from its use; the broker may abort a transaction that is not committed in time (`TransactionExpires`) |
| `InfluxWriter` | consumer, attempts, failure queue | the position is committed when the next message is asked for; a write may reach the database and be reported as failed |
| `ConflictDetector` | state store | check and write are two steps under two locks; `clear_train` may come between |
| `Corridor` | the simulation | exact integers for its tick of 1.5 s, one step per tick |
| `ZoneIsolator`, `HeartbeatWatchdog` | isolation, watchdog | reports are steps of their own where the lock is not held; the watchdog's pass handles one topic per step because a send takes time |
| `ClockMonitor` | the poll | each call that may raise is a step, the process may end between any two |
| `AlertDeduplicator` | suppression | places are points of a line, an entry is stored under the cell of its place |
| `KavachAdvisory` | the integration | one step of 0.1 s per action, in integers; the two exponentials enter by their ends; the answer keeps what was asked |
| `MaintenanceService` | readings to advisories | the service reads what the extractor published |
| `LatencyMonitor` | `POST /spans` | a request evicts, waits for its body, and then handles its spans |
| `Authentication` | keys and requests | a request blocks the loop while it refreshes; background threads fetch without the lock and store under it. It is assumed that a fetch takes `FetchTime` at most and that a thread that waits for the lock gets it next: the code gives neither (the 5 s of `httpx.get` limit each connecting, reading and writing, and `threading.RLock` promises no order), so its property is relative to them |
| `Scheduler` | engine and checker | one step per turn of the shifting loop (`Shift`), per window (`Place`), and the check; times are minutes, the checker compares times of day (`% 1440`) |

`MCCompute`, `MCEdgeDevices`, `MCStationEdge`, `MCPipeline` and `MCOperations`
put components that do not interact beside each other: a constant variable
`part` says which one runs. In the code these components write no common
variable and take no common lock, so a behaviour of all, seen by one, is a
behaviour of that one, and checking them one at a time loses no interleaving.
Components that do interact are in one module or extend each other (heartbeat,
machine, buffer and drain in `EdgeNode`; registry, loops and aggregator in
`ZoneOrchestrator`; adapters over `DeadLetterRouter`; extractor and service in
`MaintenanceService`).

Abstractions used throughout: payloads, texts and metrics are left out; a
number is kept as the fact the code branches on (score as tier, fill level as
`full`, gradients as drifted or noised); a swallowed exception is a choice of
outcome; sorting and scoring that the properties cannot see are a choice among
the admissible results.

## 3. Properties

Each module has one type invariant (`...TypeOK`; those of the gate and of the
scheduler are theorems of their own, the proofs of the others carry the types
they need in their invariants), and states what a reviewer would argue about:
relations between two pieces of state that are written at different moments
(`BooksAgree`, `WorkIsAccounted`, `LoadedIsWhole`, `WindowsAreRuns`), facts
about the past (`ReleaseNeedsApproval`, `DuplicatesAreExcused`,
`ReportedAfterThree`, `NothingDiscarded`), and what has to happen in the end.
`PROJECT.json` ties each to the hazard it is for and to the line where the
hazard is.

Where a race or a crash of the code breaks a plain statement, the plain
statement is listed in section 6 as a deviation, and the property checked and
proved says how far it goes wrong: it names, by a history variable of the model
(`overwrites`, `rolledBack`, `revived`, `exposed`, `overwritten`, `expired`),
the one event that breaks it, and says that nothing else does.

A property that says one thing about a service in several formulas is a
conjunction of named parts:

| property | parts |
|---|---|
| `BooksAgree` | `Accounting`, `ViewIsCurrent`, `AuditMatchesDecisions` |
| `EscalatedOrDecided` | the liveness and `EscalationNotEarly` |
| `OutageIsNoticed` | the liveness and `AutonomousAfterThree` |
| `DeviceLoopsAreKept` | `StartReturns`, `CompleteMeansTried`, `FullIsReported`, `NoRapidToggling` |
| `RoundEndsWithoutDrift` | the liveness, `BudgetPaysForNoise` and `VersionIsLatest` |
| `WorkIsAccounted` | `OnlyReleasesMiscount`, `OnlySwapsLose`, `ThreadsRest` |
| `ListedAreRecent` | its own and `AcceptedAreServed` |
| `WaitingIsExecuted` | the liveness and `ExecutedOnce` |
| `SilenceIsNoticed` (zone) | the liveness and `AlertsHaveCause` |
| `LaterSilenceIsReported` | the liveness and `ReportsAreTrue` |
| `ClockIsReported` | `FlagFollowsClock`, `DriftAlertIsSpaced` |
| `AdvisedOnMeasurements` | its own and `HalfOfTheRule` |
| `TrainsKeepRunning` | the liveness and `StopsAreMade` |

## 4. Runs

State counts are distinct states; the runs take from a second to two and a half
minutes with two workers.

| run | module | states | what it shows |
|---|---|---|---|
| `gate_decisions` | `MCAuthorizationGate` | 1,363,132 | two submissions under one or two ids, any tiers, four controllers of all roles: only approved advisories are released (`ReleaseNeedsApproval`), counters, view and audit agree with the queue between handlers (`BooksAgree`), and the gate implements `GateContract` (`ImplementsContract`) |
| `gate_escalation` | `MCAuthorizationGate` | 240,888 | with a clock: never escalated early although the thread's clock reading is old, and decided or fully escalated in the end (`EscalatedOrDecided`) |
| `edge` | `MCEdgeNode` | 24,909 | outages of two kinds, overflow, power loss and lost answers: the node implements `HandOver` (`ImplementsHandOver`), `DuplicatesAreExcused`; a lasting outage is noticed, after three failures in a row and not before (`OutageIsNoticed`); a drain over a working link delivers every event that refused ones do not hide (`DrainDelivers`) |
| `edge_devices` | `MCEdgeDevices` | 323,827 | two overlapping uploads implement `HandOver` (`ImplementsHandOver`); the loops of a node (`DeviceLoopsAreKept`); models saved, also again, with crashes between all steps (`LoadedIsWhole`); a ring buffer read while it wraps (`WindowsAreRuns`); every transform of two windows of eight samples (`FeaturesAreOfTheWindow`) |
| `compute` | `MCCompute` | 563,008 | coordinator: `RoundEndsWithoutDrift`; manager and auto-scaler: `WorkIsAccounted`; scheduler: `PlanIsConflictFree`, `ShiftedKeepsHeadway`, `EveryRequestGetsAPlan` |
| `station` | `MCStationEdge` | 298,628 | sync: `SentInOrder`; correlation: `NoneMissed`; registry: `LoadedIsServed`; inference: `WaitingIsExecuted`; nodes and queues: `ListedAreRecent`; the zone above, where rounds overtake each other and stations register again, fall silent and submit late: `RoundsAreWhole`, `SilenceIsNoticed` |
| `pipeline` | `MCPipeline` | 140,131 | `ReportedAfterThree`, `FramesAreWhole`, `ValidatedOnce`, `WithinCapacity`, `IsolationIsEarned`, `LaterSilenceIsReported` |
| `operations` | `MCOperations` | 745,325 | writer: `NothingDiscarded`; clock: `ClockIsReported`; deduplicator: `RepeatsAreSuppressed`; Kavach: `CapSparesGoodBrakes`; maintenance: `AdvisedOnMeasurements`; latency: `MeasuredTogether`; delay graph: `GraphIsTheCorridor`; authentication: `ServedWithFreshKeys`; corridor: `TrainsKeepRunning` |
| `edge_reconnect` | `MCEdgeNode` | violation | `ReturnsToConnected` fails, finding 1 |
| `fed_noise` | `FederatedCoordinator` | violation | `UpdatesAreNoised` fails, finding 2 |
| `manager_lost` | `ResourceManager` | violation | `QueuedIsKept` fails with overlapping calls, finding 3 |
| `scheduler_headway` | `Scheduler` | violation | `HeadwayIsKept` fails, finding 4 |

Deadlock is not checked where every actor may be done and the bounds stop the
environment; that is every configuration here. Deadlocks of the code are
stated as liveness instead (`ReturnsToConnected` finds one).

### Findings

1. **A node never comes back after its first outage.**
   `services/edge_node/main.py:106`: `_do_reconnect_upload` runs in the state
   callback, with `HeartbeatFSM`'s non-reentrant lock held by its own thread,
   and calls `record_upload_complete`, which waits for that lock.
   `heartbeat_fsm.py:7` says "Reconnecting → Connected: buffer upload complete +
   ACK". `ImplementsHandOver` and the drain properties still have content: the
   drain runs before the call that blocks, and a power loss starts the node
   again.
2. **Gradients without noise.** `federated_coordinator.py:125`: once the budget
   is used up, `add_noise` returns the gradients unchanged and they are stored
   and aggregated; line 122 promises a "(epsilon, delta)-DP guarantee".
3. **A queued workload is lost.** `resource_manager.py:231`: `drain_pending`
   replaces `_pending` without the lock; a workload appended since the last turn
   of the loop is gone although its caller was told "queued" (line 175).
4. **No headway unless windows overlap.** `scheduler_service.py:248`: the loop
   is content when windows do not overlap, so two trains may follow two minutes
   apart; line 179 says "Enforce minimum headway (3 min)".

### Bounds, and why they are enough

* Gate: two submissions are needed for replacement under one id and for two
  independent ids; four controllers give each role and two who may pair up for
  Tier 1. The audit window is 2 (100 in the code), so that it can be both
  partly filled and full. Clock 8 against timeouts of 1, 2 and 2 outlasts three
  levels of a low tier. Submissions are interchangeable and symmetry is used
  in `gate_decisions`, where all properties are about safety.
* Edge node: four events over three rows overflow once and leave two with the
  same timestamp; the two oldest are never accepted and a batch holds two, so a
  batch may hold refused events only, with deliverable ones behind it; two
  faults make a fault during the recovery from another. A unit of time is 5/11
  s, chosen so that three refused beats fit into the 30 s window and three
  timed-out ones do not.
* Devices: two overlapping calls, batches of two among four events in three
  rows, so a batch can be full of failed events; six samples per recovery and
  one late sample. Two models of two versions with two crashes, so that a save
  is broken off and repeated, over a file that is indexed too; five samples into
  a buffer of four, so that it wraps under the reader; two windows of eight
  samples that overlap by half, the shortest that have three levels of the
  transforms.
* Compute: three participants of whom one drifts (40 % is one of two or three),
  three rounds, a budget that ends in the second round; two nodes of one place
  each, one of which registers again, two workloads, and two callers beside the
  drain, so that a node is full, a workload waits, and each race of two calls
  and the drain occurs; two threads in the scaler, an evaluation of one unit
  against a cooldown of three in eight units of time; up to four trains of four
  classes on every route, with a base time whose plan passes midnight.
* Station: five events through a deque of three and batches of two; two threads
  over a window of one; two models of two versions in three places, so that a
  load must evict; batches of two with three requests; two nodes that are
  renewed and dropped within four periods, and queues of one and two places for
  two requests. Zone: two stations, each of which may fall silent once and come
  back at any step of the loop, and one of which restarts; two rounds, so that
  one overtakes the other.
* Pipeline: two trains and the two other sources of the NTES adapter; three
  frames with and without a body; four records, three failures of the job and
  any number of aborted transactions; three trains for segments of capacity one
  and two; two zones with two restorers; two feeds and one outage of Kafka.
* Operations: three messages and three attempts with two ends of the writer; six
  polls against a cooldown of three; four places in two cells, so that two
  alerts of one cell are further apart than the radius and two of different
  cells nearer; the two trains that stop quickest and slowest, on rails from dry
  and clean to one so slippery that the slow train still rolls at the cap;
  windows of five rows with gaps shorter and longer than a window, and
  probabilities whose intervals reach 1, nearly reach it and do not; each of
  three trains of the corridor from end to end; two requests of a trace of three
  spans; every placing of three trains on the borders of segments; one client
  and two refreshes, so that an older answer may arrive last.

Every bound (`Max...`) is a constant with a comment that says so. The proofs of
section 5 do not depend on them.

### Fairness

Fairness is assumed only of loops that the code keeps running and that nothing
but their own steps can stop: the escalation thread and its clock; the heartbeat
thread with its drain; a call of the uploader once it started; the alerter's
check and the telemetry sample; the health loop and the round loop of the zone,
and the end of a heartbeat that began; the sync loop; a thread inside `infer`;
the watchdog's pass; the tick of the corridor; the engine, which is one
synchronous call. It is weak, as these actions stay enabled until taken, with
one exception: the event loop of the zone may find the registry's lock taken by
a heartbeat again and again, each time for an instant, so its fairness is strong
(`LoopRuns`). Nothing in the repository collects the results of batched
inference, so no fairness makes it: `WaitingIsExecuted` has repeated collection
as its premise. Of the environment only three things are assumed: time passes,
Kafka comes back after an outage (`LaterSilenceIsReported` says what must follow
then), and stations that do not drift submit (the premise of
`RoundEndsWithoutDrift`). Premises about the link (up, or refusing, for good)
are written in the properties. Sensors, links, controllers, callers and faults
are never forced to act.

## 5. Proofs

Eight modules, checked by `tlapm` to the last leaf. They assume the named
assumptions on the constants, which TLC evaluates for the values of every run,
and one theorem a hypothesis more, which its row names. "Any" means for
every value of the constants that the assumptions admit; the bounds of the runs
play no part.

| theorem | states | for |
|---|---|---|
| `AuthorizationGateProofs!TypeCorrect` | `TypeOK`; no advisory passes three escalations | any finite sets of requests and ids, any controllers, roles, timeouts, audit length |
| `ReleaseIsApproved` | `ReleaseNeedsApproval` | the same |
| `OutcomesAreFinal` | a decided or replaced submission is never decided, queued or released again | the same |
| `BooksAlwaysAgree` | `BooksAgree` | the same |
| `NoneClimbsEarly` | `EscalationNotEarly` | the same |
| `ContractHolds` | `ImplementsContract`: the gate implements `GateContract` | the same |
| `EdgeProofs!NodeHandsOver` | `ImplementsHandOver`: buffer and drain implement `HandOver` | any events, timestamps, limits, number of faults |
| `EventsAreKept` | `NoEventLost` of the edge node | the same |
| `BufferIsBounded` | the buffer of a running node holds at most `MaxRows` | the same |
| `DuplicatesAreBounded` | `DuplicatesAreExcused` | the same |
| `AutonomyIsEarned` | `AutonomousAfterThree`, the safety part of `OutageIsNoticed` | any window and spacing of beats |
| `DeviceProofs!UploadersHandOver` | `ImplementsHandOver`: overlapping uploads implement `HandOver` | any events, overlapping calls, batches and retries |
| `UploadsLoseNothing` | `NoEventLost` of the uploader | the same |
| `PassesTryEverything` | `CompleteMeansTried` | the same |
| `LoadedModelsAreWhole` | `LoadedIsWhole` | any models, versions, saves and crashes |
| `ThrottleDoesNotToggle` | `NoRapidToggling` | any recovery time and times between samples |
| `WindowsStayRuns` | `WindowsAreRuns` | any channels, sizes of buffer, window and request |
| `SignalProofs!SpectrumIsTransform` | the recursive transform of a padded signal is the Fourier transform | any window size, any signal of integers |
| `AnalyticSignalExtends` | the real part of the analytic signal is the signal | the same |
| `WaveletsKeepEnergy` | the wavelet coefficients have the energy of the signal | any levels, any length they do not cut |
| `FeaturesAreAlwaysOfTheWindow` | `FeaturesAreOfTheWindow` | any window size, samples, levels, windows |
| `ComputeProofs!EngineIsTyped` | `SchedulerTypeOK` | any classes, priorities, number of trains, base times |
| `PlansAreConflictFree` | `PlanIsConflictFree` | the same |
| `ShiftsKeepHeadway` | `ShiftedKeepsHeadway` | the same, with the assumption `HeadwayIsShort` |
| `ShortPlansAreAccepted` | the checker rejects no plan that ends within a day of its base time | the same |
| `NoiseIsPaid` | `BudgetPaysForNoise` | any stations, budget, thresholds, rounds |
| `VersionStaysLatest` | `VersionIsLatest` | the same |
| `WorkStaysAccounted` | `WorkIsAccounted` | any nodes, workloads, callers, evaluations; every overlap |
| `GraphStaysTheCorridor` | `GraphIsTheCorridor` | any trains, places, delays; hypothesis: no defect is longer than the shortest segment (11 km) |
| `StationProofs!EventsLeaveInOrder` | `SentInOrder` | any capacity, batch and failures |
| `RoundsStayWhole` | `RoundsAreWhole` | any stations, rounds and registrations |
| `AlertsNeedSilence` | `AlertsHaveCause` | any stations, heartbeats between any two reads, registrations |
| `ListedStayRecent` | `ListedAreRecent` | any nodes, thresholds, periods, queues |
| `CorrelationsAreSeen` | `NoneMissed` | any threads, window, and order of their clocks |
| `LoadedModelsServe` | `LoadedIsServed` | any models, places, loads, swaps and promotions |
| `RequestsRunOnce` | `ExecutedOnce` | any callers, batch sizes, deadlines |
| `PipelineProofs!IsolationAlwaysEarned` | `IsolationIsEarned` | any zones, threshold |
| `CapacityIsKept` | `WithinCapacity` | any trains, segments, capacities |
| `ReportsStayTrue` | `ReportsAreTrue` | any feeds, timeout, outages |
| `TrainsAreReported` | `ReportedAfterThree` | any threshold, trains, answers |
| `RecordsAreValidatedOnce` | `ValidatedOnce` | any log, failures, aborts, start |
| `FramesStayWhole` | `FramesAreWhole` | any lengths of headers, bodies and records |
| `StationsAreServed` | `StopsAreMade` | any fleets of the roster, stops, delays |
| `OperationsProofs!EventsAreKept` | `NothingDiscarded` | any log, attempts, restarts |
| `ClockIsTold` | `ClockIsReported` | any cooldown, number of polls |
| `RepeatsStaySuppressed` | `RepeatsAreSuppressed` | any places, windows, cells no wider than the radius |
| `LatenciesAreReal` | `MeasuredTogether` | any chain, traces, requests |
| `KeysStayFresh` | `ServedWithFreshKeys` | any clients, threads, lifetimes |
| `AdviceRestsOnMeasurements` | `AdvisedOnMeasurements` | any assets, gaps, probabilities, restarts |
| `GoodBrakesStop` | `CapSparesGoodBrakes` | any trains, speeds, rails, tracks, caps |

**The hypothesis.** `GraphStaysTheCorridor` asks that no defect is longer than
the shortest segment; a longer one leaves the middle segment unmarked (section
6). `MCOperations` has it as an assumption that TLC evaluates. No other theorem
narrows its specification: what a race or a cap of the code breaks is named in
the property itself.

**Gate.** `ReleaseNeedsApproval` is not inductive: it does not say why a second
approval may release. The invariant adds that a request not yet sent has left no
trace (`UnsentIsBlank`), that the queue holds open submissions each under its
own id (`QueueHoldsOpen`), and that `first_auth_by` names an accepted, eligible
approval of *this* object and is the only record of one (`ApprovalsAreReal`).
The last part is what a resubmission under the same id could break: it must
start with no approval. For the books, each action moves at most one request
between the sets that are counted, and the audit window is the end of the
history of decisions. An escalation is not early because the time the thread
read before it took the lock is never a later one. The refinement maps history
to history (`fate`, `approvals`, `topic`); queue, lock, cache, clock and
counters are stutter.

**Edge node.** `StoreInv` relates three places an event can be: the table
(`BufferInv`: finite, within the limit, only written events), the batch in
memory (`BatchInv`: written events, each once, the drain at its head) and the
pipeline (`DeliveryInv`: what is still to be handled was delivered by faults
only, save the one whose acknowledgement is under way). This is why the
duplicates of an event number at most the faults. `StreakInv` says the machine
remembers no more failures than the present streak has; cardinality lemmas give
that ageing the failures adds none. For `HandOver`, `written` is what was
accepted, the table what waits, the overflow log what made room, and delivered
is what has a copy. An acknowledgement maps to a second delivery that ends the
waiting; it is one only because the event being acknowledged has a copy
(`DeliveryInv`) and nothing rejected ever has (`RejectedInv`). Heartbeats,
attempts, reads and power losses are stutter. `HandOver` says more than
`NoEventLost`: which event makes room, when, and that the pipeline gets nothing
that was not written.

**Devices.** A pass of the uploader that ends has read a batch of which every
event had failed before; a full batch has `batch_size` different ones, and a
shorter one is the whole table. The asynchronous uploader implements `HandOver`
too, by `HeldInv`: what a call holds was written, however many other calls and
overflows took it out of the table since, so a delivery that comes late is still
the delivery of an accepted event. The model store's invariant is that the index
in memory and a readable one on the disk are the same except while it is being
written, and that both name whole weights, or weights that were opened for
writing again while they were named and not completed since (`overwrites`): the
copy of any other version is complete before an index names it. The throttle has
lasted at least as long as the cool spell measured within it. For the ring
buffer, `RingsInv` places sample `k` at `k - 1` modulo the size until another
comes round to it; as a push writes, moves the head and then counts, what is
counted is behind the head and what is behind the head is written. `ReadsInv`
says that a window being read is not reached by the push beside it.

**Signals.** A complex number is the list of its coefficients at the powers of
`zeta`, and equal when they are (`SameCoefficients`), so the proofs are about
sums of coefficients. The library's induction theorems take a predicate as a
parameter, which the provers cannot instantiate; here induction is over *sets*
of naturals (`InductionOnNaturals`, from the least natural that is not in the
set), and a recursive function exists because the recursion has finite initial
segments of every length (`RecursionOnNaturals`). Then come the laws of finite
sums, of `Doubled`, and of turning a number by powers of `zeta`: it is periodic
in the padded length, and half a period changes the sign. The transform follows
by induction on the exponent of the length (`StageTransforms`): even and odd
items split the sum, and the second half of a butterfly is the first turned by
half a period. For the analytic signal, an item plus its conjugate weighs
opposite items of the spectrum by two together (`WeightsMakeTwo`), which makes
it twice the sum of the whole spectrum turned back, and there every sample but
one cancels (`UnitsCancel`). A level of the wavelets keeps the energy because
`(a+b)^2 + (a-b)^2 = 2a^2 + 2b^2`. The inductive invariant `SignalInvariant`
says that the running sums are those of the sliding window and that the buffer
is the end of that window (`IsEndOf`). The last part is what the property needs:
statistics and transforms read two containers, of which one is emptied and the
other is not, and which are the same just when the buffer is full.

**Scheduler.** Windows are given away in the order of priority and a shifted
window may land before, between or after those given. `PlacedInv` says whose
windows there are, so that the one placed is new; `RouteInv` that a route visits
no segment twice. For the headway, `SpacedInv` says that a window being shifted
keeps its distance to every earlier window also while something else is still in
its way; this needs that no window is so short that a shift jumps over it, which
is `HeadwayIsShort` (with `DwellInv`). At stations, where windows are two
minutes, trains enter four minutes apart and are never shifted (`StationInv`).
Were the headway configured longer than the transit of some line segment,
`ShiftedKeepsHeadway` would fail: the assumption is needed, and holds for the
repository's corridor, classes and three minutes.

**Rest of the zone.** The budget is a set of coins, one for each round and
station with noise; `CoordinatorInv` keeps the numbers of past rounds different
and below the next, so that no coin is paid twice and the version is the last
completed round's. Of the manager, `QueuesInv` says that a retry list exists
only during a drain, and that whatever is in the queue when the list replaces it
came there since the drain's last look (`exposed`). `LoadInv` has not only each
count cover what runs on its node, but also each count that a release has read
and not yet stored (`Counted`); an assignment between the two breaks the second,
and that is what `overwritten` records. `ScalerInv` bounds how old the recorded
time of the last action may be: by the time an evaluation takes, since each
thread writes when it began. In the delay graph a train's rank is the number of
trains before it; ranks are as different as the trains (`RanksDiffer`), so they
are all the numbers below their count (`EveryRankIsTaken`) and the sorted list
has at place `n` the train of rank `n - 1`. Two trains are joined just when
their ranks follow each other.

**Station.** `SyncInv` cuts one increasing sequence into what was sent, what
flush holds and what waits. `FederatedInv` says a round has gradients of its
participants only and that the history is older than the open round.
`MonitorInv` counts, for each station (`Explained`): what is reported, being
reported or still to be reported is covered by the silences and by the returns
between two reads of one check, and each such return by a silence, of an object
that the loop had found dead (`Down`). `KeeperInv` bounds the age of a listed
node by the time to the keeper's next round. `CorrelationInv` keeps each anomaly
of the last window, with its age, in the window that is searched. In the
registry a version that is not loaded is as `load_model` makes it, a swap whose
version was not evicted has it loaded, and each loaded model has a version that
serves or was rolled back. `BatchInv` has how often a request ran follow from
where its call stands, and puts a waiting request into the batch of its model
only.

**Pipeline.** The isolator's counter is the number of alerts since the last
restoration. Whoever is in a segment, or about to be written there, is among its
occupants (`TwinInv`). For the NTES adapter the counter of failures is the
length of the present streak, after every record of a poll. The outputs of
neighbouring stretches of records add up (`OutputsAddUp`), so `ValidatorInv`
names for each list of messages the stretch it is the output of: what is
committed, what waits for its commit, and the open transaction. What the broker
aborts is the whole of the middle one (`OutputCovers`), so the first grows by a
gap and by nothing that is torn. In the stream every byte is followed by the
rest of its frame, and what is buffered and still to come ends with a whole
frame, so a header is only ever read where one starts (`StreamInv`). A tick
moves a train of the corridor less than the half kilometre it looks ahead, and
stations are a kilometre apart or more, so it sees a stop before it passes it.

**Operations.** What the consumer handed out is kept, but for the event in the
writer's hands, which is not committed (`WriterInv`). The flag is current in
each poll that could write it, and the cooldown left covers the polls since the
last alert (`ClockInv`). An alert shown is still the one its key stands for, or
is older than every window there has been since (`DedupInv`). A stored trace has
not expired for any request that waits for its body, and its spans came within
its life (`LatencyInv`). Keys outlive their answer by the life of the cache and
two fetches, because an answer waits for one refresh at most (`AuthInv`). A
window counts what it filled in, also when it is cut (`ExtractorInv`), and the
interval is monotone in that count. A step of braking takes off at least `Rate`,
since drag, resistance and a rising track only add to the brakes; so a train
whose brakes suffice (`Suffices`) either stands or has lost `Rate` for each
step, and reaches the cap only at a stand (`KavachInv`).

Least and greatest members of sets of naturals, where a model takes them with
`CHOOSE`, come from well-foundedness of `Nat` (`WFMin`).

**Only model-checked.** Every liveness property, since fairness and `ENABLED`
are outside of what the provers handle: `EscalatedOrDecided`, `DrainDelivers`,
that of `OutageIsNoticed`, the first parts of `RoundEndsWithoutDrift`,
`WaitingIsExecuted`, `SilenceIsNoticed`, `LaterSilenceIsReported` and
`TrainsKeepRunning`, `EveryRequestGetsAPlan`, and `StartReturns` and
`FullIsReported` of `DeviceLoopsAreKept`; where such a property has a safety
part, a theorem above states that. No safety property the runs check is without
a theorem.

## 6. Known deviations

Besides the findings, the modules state these promises of a doc, comment or
test that the code does not keep. No run repeats them. To see one, replace the
INVARIANTS and PROPERTIES of the configuration named by the one property
(as a PROPERTY where marked P).

| property | configuration | what happens |
|---|---|---|
| `BothIdentitiesAudited` | `gate_decisions` | the audit entry of a Tier 1 release names only the second controller |
| `ReleaseStaysAudited` | `gate_decisions`, `AuditCap = 1` | the deque forgets releases |
| `GaugeShowsDepth` | `gate_decisions` | a late enqueue handler sets the gauge to a depth that is over |
| `SilenceIsNoticed` (P) | `edge` | beats that time out are over 15 s apart, three never fit into 30 s, the node stays CONNECTED |
| `DrainEnds` (P) | `edge` | an event that is always refused keeps the drain reading the same batch |
| `DrainReachesAll` (P) | `edge` | as many refused events as a batch holds hide everything younger for ever |
| `CompleteMeansDrained` | `edge_devices` | a batch full of failed events hides the rest of the buffer |
| `LoadedIsAlwaysWhole` | `edge_devices` | saving an indexed version again truncates the file the index names; a crash in the copy leaves it torn |
| `SentIsAudited` | `edge_devices` | an alert sent by the first channel returns before the audit log |
| `LiftedAfterCoolSpell` (P) | `edge_devices` | a hot sample while throttled does not restart the cool spell |
| `RoundEnds` (P) | `compute` | with too many drifted stations a round stays open; nothing calls `force_timeout` |
| `OneEpsilonPerRound` | `compute` | the budget is charged per update |
| `ExcludedStaysOut` | `compute` | an excluded station may submit again |
| `LoadIsScheduled` | `compute` | a queued workload gets into the queue twice, is counted twice and released once; a node registered again starts from zero |
| `LoadWithinLimit` | `manager_lost` with `Caller = {c1, c2}` | two callers choose the last place of a node |
| `LoadCoversScheduled` | `manager_lost` with `Caller = {c1, c2}` | a workload assigned between the two halves of a release is not counted |
| `ScalingsRest` (P) | `compute` | two threads pass the cooldown together and both scale |
| `TrainsMoveAlong` | `compute` | a station is entered without the transit of the segment before it, and a shift is not carried to the next segment |
| `AlertedOncePerSilence` | `station` | a heartbeat between the two reads of one check lets a station marked OFFLINE be reported again |
| `OfflineIsSilent` | `station` | a heartbeat between the loop's judgement and its mark |
| `GradientsAreOfTheRound` | `station` | late gradients of a round count for the next |
| `FailedAreRequeued` | `station` | only the event that failed is put back, the rest of its batch is gone |
| `FoundInWindow` (P) | `station` | an empty batch does not evict, so old anomalies are reported again |
| `OldStaysLoaded` | `station` | loading the new version may evict the old one of the same swap |
| `LoadedIsAlwaysServed` | `station` | promoting a loaded version that is not active deactivates the others and activates none |
| `BatchWaitIsBounded` (P) | `station` | nothing calls `flush_expired`; a batch that does not fill waits for ever |
| `ResultsAreCollected` (P) | `station` | a caller gets the first result of a batch, the others' are dropped |
| `DeadlineIsKept` (P) | `station` | an overdue request is executed with its batch |
| `NothingExpires` | `pipeline` | a transaction not committed within 60 s of a checkpoint is aborted, its records count as read |
| `ApiAlertsAreEarned` | `pipeline` | a good answer does not reset the failures of the interface |
| `PollIsComplete` | `pipeline` | a record that raises ends the poll |
| `OccupantsAreThere` | `pipeline` | a train that moves on stays an occupant of the segment it left, until later trains are refused |
| `ReportsAreInOrder` (P) | `pipeline` | RESTORED is sent without the lock, after a new isolation |
| `RestoredRuns` | `pipeline` | the deployment scaled down is not scaled up again |
| `SilenceIsReported` (P) | `pipeline` | an alert that could not be sent counts as sent |
| `AdvisoryIsAStop` | `operations` | the cap of 300 s ends the integration of a train that still rolls |
| `IntervalsWiden` | `operations` | the interval is widened first and clamped to [0, 1] afterwards |
| `DuplicateIsIgnored` (P) | `CircularBuffer` with `[][\E e \in Event : Write(e)]_bufferVars` as its steps | a full table evicts a row before it ignores the duplicate |

### Facts that no property states

Met while the models were written; each is in the model unless it says
otherwise.

* **Scheduler.** Ids of the form `Jan-Shatabdi...` get the class Shatabdi (order
  of the dictionary), a request over the API names no affected segment, the 30 s
  limit of the answer is not enforced, a cancelled train keeps its windows, and
  proposals for two disruptions do not know each other's windows.
* **Gate.** A publish that fails is swallowed: the advisory is removed, counted
  and audited as authorized and never reaches the topic.
* **Micro edge.** The temperature channel never fills a window that is checked;
  `stop()` drops the batch that is not yet forwarded; the two-dimensional filter
  changes its covariance in place; a wavelet level drops an odd item. The
  branch of `push_batch` for batches longer than the buffer is not modelled.
* **Model store.** An index torn by a crash makes the store forget all models.
* **Station.** An insertion while `housekeeping_loop` walks over the table ends
  that loop; nothing connects the inference queue to the engine.
* **Zone.** A station that registers again loses its count of violations. A
  workload may be given to a node beyond its limit by two callers; nothing calls
  `get_resource_manager` or `check_scaling`, and `is_available` is never false.
  The station run takes HEALTHY as the only report of a heartbeat; an unknown value of it
  refreshes the time of the heartbeat before it raises.
* **Delay graph.** "Affected downstream" is the train at the higher kilometre
  whatever the direction; a defect longer than a segment leaves the middle
  segment unmarked; three layers reach as far as one.
* **Streams.** Failures are counted under the name of the stream and good frames
  reset only the name of the sensor.
* **Validator.** Valid events of every topic go to one output topic. A record that
  is no JSON object raises and the job restarts on it for ever; before the first
  checkpoint a failure skips records.
* **InfluxDB writer.** The same for a message that is no object or no UTF-8,
  malformed JSON is skipped silently; started before its first commit it begins
  at the end of the topic; the last delay of the retries is not slept.
* **Clock monitor.** A flag written before a restart stays until the clock
  changes again, and a write that raised is not repeated.
* **Deduplicator.** Entries are never removed, an alert without a category is
  never suppressed.
* **Kavach.** The vibration of a request is an unchecked number: 40 mm/s give
  the least adhesion, with which a slow train still rolls at the cap of 300 s,
  and so may any train downhill. The tables of gradients and curves are empty in
  the repository, so the run keeps to the level track; the theorem does not.
* **Maintenance.** Gaps up to the limit are not filled, so a window is 1800
  readings and not 30 minutes; the adapters publish field names the extractor
  does not read; an interval near 1 has room below only, so half of the rule is
  all that is kept there (`HalfOfTheRule`); the baseline depends on the first
  complete window; the path for windows with insufficient data is never reached
  over Kafka, because the extractor keeps them back.
* **Corridor.** Trains cruise up to 5 km/h above the limit, brake only inside
  the slower segment, and pass through each other. Every push is sent because
  the hash of the state contains the time.
* **Latency monitor.** A first span that comes after the last is never measured,
  a start at time 0 counts as missing, and late spans of a measured trace open
  it again.
* **Authentication.** The rule for `/retention/holds` is hidden by the earlier
  one for `/retention`, so the Security Officer never manages holds although the
  matrix lists it; a background refresh only follows a blocking one, so each
  second period blocks; an older background answer may overwrite newer keys.

## 7. Plan

Done: every process of the repository with locks, threads, retries, crashes or
state over time, except the two named under "Not modelled", and proofs of all
safety properties the runs check. What is left, in this order:

1. **Security and retention**: the privilege handler (a delayed termination
   against its deadline of 30 s, which two `kubectl` calls of 15 s may exceed)
   and data retention (a deletion that fails between two others).
2. **Larger compositions**: the sensor hub's batches through `StationAggregator`
   up to a consumer, to say what of a sample is lost on the way.
3. **Abstract specifications**: the coordinator and the orchestrator's
   aggregator both implement a round that is opened, filled and closed; the
   writer implements "in the database or in the queue".
4. **Fault models**: a second consumer of the maintenance topic, which would
   share the windows of an asset between two extractors.
5. **Proofs**: the safety of what step 3 names, as refinements; and the type
   invariants of the pipeline and the station as theorems.
