--------------------------- MODULE InferenceEngine --------------------------
(***************************************************************************)
(* The inference engine of a station                                       *)
(* (services/edge_compute/station_edge/inference_engine.py): its model     *)
(* registry and its batches.                                               *)
(***************************************************************************)
EXTENDS Integers, Sequences, FiniteSets, SequencesExt

(* The model registry (ModelRegistry): loaded versions in the order they   *)
(* were loaded, a share of the traffic for each and a limit on their       *)
(* number. A hot swap takes the lock twice and changes the new version     *)
(* between, without it.  Swaps of different models overlap, of one model   *)
(* they come one after the other: that much is left out.                   *)

CONSTANTS
  Model, Version,
  NoSwap,       \* no hot_swap of the model is under way
  MaxModels,    \* _max_models
  Canary,       \* canary_pct
  Preloaded     \* versions that _preload_models loads, in their order

ASSUME RegistryAssumption ==
  /\ MaxModels \in Nat \ {0} /\ Canary \in 1..99
  /\ NoSwap \notin Version
  /\ Preloaded \in Seq(Model \X Version) /\ Len(Preloaded) <= MaxModels

VARIABLES
  models,    \* keys of _models, an OrderedDict
  active,    \* is_active of a version; TRUE while not loaded, as load_model sets it
  traffic,   \* traffic_pct; 100 while not loaded
  swap,      \* hot_swap of a model under way: step, old and new version, its object
  rolledBack \* ghost: models of which an inactive version was promoted, and none
             \* activated since

registryVars == <<models, active, traffic, swap, rolledBack>>

Key == Model \X Version
Loaded == ToSet(models)
Swap == [step : {"canary", "reduce"}, old : Version, new : Version, current : BOOLEAN]

RegistryTypeOK ==
  /\ models \in Seq(Key) /\ Len(models) <= MaxModels
  /\ \A i, j \in DOMAIN models : i # j => models[i] # models[j]
  /\ active \in [Key -> BOOLEAN] /\ traffic \in [Key -> 0..100]
  /\ \A k \in Key \ Loaded : active[k] /\ traffic[k] = 100
  /\ swap \in [Model -> Swap \cup {NoSwap}] /\ rolledBack \subseteq Model

(* _preload_models, on an empty registry.                                  *)
Preload == models = Preloaded

RegistryInit ==
  /\ Preload
  /\ active = [k \in Key |-> TRUE] /\ traffic = [k \in Key |-> 100]
  /\ swap = [m \in Model |-> NoSwap] /\ rolledBack = {}

Victims_any == IF models = <<>> THEN {} ELSE {1}

(* _evict_lru: the first version that is inactive or without traffic, the  *)
(* first of all when there is none.                                        *)
Victims ==
  LET idle == {i \in DOMAIN models : ~active[models[i]] \/ traffic[models[i]] = 0} IN
  IF idle = {} THEN {1} ELSE {CHOOSE i \in idle : \A j \in idle : i <= j}

MustEvict == Len(models) >= MaxModels

(* load_model of a version that is not loaded; hot swaps go on as given.   *)
LoadKey(k, swaps) ==
  /\ rolledBack' = rolledBack \ {k[1]}
  /\ IF MustEvict
       THEN \E i \in Victims :
              /\ models' = Append(RemoveAt(models, i), k)
              /\ active' = [active EXCEPT ![models[i]] = TRUE]
              /\ traffic' = [traffic EXCEPT ![models[i]] = 100]
              /\ swap' = [m \in Model |->
                            IF swaps[m] # NoSwap /\ models[i] = <<m, swaps[m].new>>
                              THEN [swaps[m] EXCEPT !.current = FALSE] ELSE swaps[m]]
       ELSE models' = Append(models, k) /\ swap' = swaps /\ UNCHANGED <<active, traffic>>

LoadModel(m, v) ==
  /\ <<m, v>> \notin Loaded
  /\ LoadKey(<<m, v>>, swap)

(* hot_swap: load_model of the new version ...                             *)
HotSwap(m, old, new) ==
  LET swaps == [swap EXCEPT ![m] =
                  [step |-> "canary", old |-> old, new |-> new, current |-> TRUE]]
  IN
    /\ swap[m] = NoSwap /\ old # new /\ <<m, old>> \in Loaded
    /\ IF <<m, new>> \in Loaded
         THEN swap' = swaps /\ UNCHANGED <<models, active, traffic, rolledBack>>
         ELSE LoadKey(<<m, new>>, swaps)

(* ... the new version's share, set on its object without the lock; the    *)
(* version may have been evicted since ...                                 *)
SetCanary(m) ==
  LET s == swap[m] IN
    /\ s # NoSwap /\ s.step = "canary"
    /\ IF s.current
         THEN /\ active' = [active EXCEPT ![<<m, s.new>>] = TRUE]
              /\ traffic' = [traffic EXCEPT ![<<m, s.new>>] = Canary]
              /\ rolledBack' = rolledBack \ {m}
         ELSE UNCHANGED <<active, traffic, rolledBack>>
    /\ swap' = [swap EXCEPT ![m].step = "reduce"]
    /\ UNCHANGED models

(* ... and the old version's, with the lock.                               *)
ReduceOld(m) ==
  LET s == swap[m] IN
    /\ s # NoSwap /\ s.step = "reduce"
    /\ traffic' = IF <<m, s.old>> \in Loaded
                    THEN [traffic EXCEPT ![<<m, s.old>>] = 100 - Canary] ELSE traffic
    /\ swap' = [swap EXCEPT ![m] = NoSwap]
    /\ UNCHANGED <<models, active, rolledBack>>

Deactivated_all(m, v) == [k \in Key |-> active[k] /\ ~(k \in Loaded /\ k[1] = m)]

(* The other versions of the model are deactivated.                        *)
Deactivated(m, v) ==
  [k \in Key |-> active[k] /\ ~(k \in Loaded /\ k[1] = m /\ k[2] # v)]

(* promote_canary of any loaded version.  One that an earlier promotion    *)
(* deactivated gets all the traffic and stays inactive.                    *)
PromoteCanary(m, v) ==
  /\ <<m, v>> \in Loaded
  /\ rolledBack' = IF active[<<m, v>>] THEN rolledBack \ {m} ELSE rolledBack \cup {m}
  /\ active' = Deactivated(m, v)
  /\ traffic' = [k \in Key |-> IF k = <<m, v>> THEN 100
                               ELSE IF k \in Loaded /\ k[1] = m THEN 0 ELSE traffic[k]]
  /\ UNCHANGED <<models, swap>>

RegistryNext ==
  \E m \in Model :
    \/ SetCanary(m) \/ ReduceOld(m)
    \/ \E v \in Version :
         \/ LoadModel(m, v) \/ PromoteCanary(m, v)
         \/ \E w \in Version : HotSwap(m, v, w)

RegistrySpec == RegistryInit /\ [][RegistryNext]_registryVars

-----------------------------------------------------------------------------
(* get_session chooses among these.                                        *)
Candidates(m) == {k \in Loaded : k[1] = m /\ active[k] /\ traffic[k] > 0}

(* While any version of a model is loaded one of them serves, whatever     *)
(* loads evict and whatever comes between the steps of a swap.  The        *)
(* exception is a model whose last promotion was of a version deactivated  *)
(* before: that switches the others off and it not on, until a version is  *)
(* loaded or swapped in.                                                   *)
LoadedIsServed == \A k \in Loaded : k[1] \in rolledBack \/ Candidates(k[1]) # {}

(* promote_canary: "Promote canary to 100% traffic".  Without the          *)
(* exception: a swap there and one back, and both promotions, leave none   *)
(* active.                                                                 *)
LoadedIsAlwaysServed == \A k \in Loaded : Candidates(k[1]) # {}

(* hot_swap: "Load new version alongside old".  The old version is loaded  *)
(* until the swap is done.                                                 *)
OldStaysLoaded == \A m \in Model : swap[m] # NoSwap => <<m, swap[m].old>> \in Loaded

-----------------------------------------------------------------------------
(* Batched inference (BatchInferenceProcessor and InferenceEngine).        *)
(* Threads call infer; a collector, if there is one, get_pending_results:  *)
(* nothing in the repository calls it. A request waits in the batch of its *)
(* model until the batch is full or a collection finds it timed out, and   *)
(* the batch runs with the lock held. A caller gets the result of the      *)
(* first request of a batch it filled.                                     *)

CONSTANTS
  Request,
  ModelOf,     \* model_id of a request
  Priority,    \* priority of a request
  MaxBatch,    \* _max_batch
  MaxResults,  \* maxlen of _results_queue
  NoResult

ASSUME BatchAssumption ==
  /\ Priority \in [Request -> {"REAL_TIME", "HIGH", "NORMAL", "BACKGROUND"}]
  /\ DOMAIN ModelOf = Request /\ NoResult \notin Request
  /\ {MaxBatch, MaxResults} \subseteq Nat \ {0}

VARIABLES
  progress,    \* where the call of infer for a request is
  overdue,     \* requests older than their deadline_ms
  throttled,   \* _is_throttled
  batches,     \* _pending
  timedOut,    \* models whose batch is older than _timeout_ms
  runs,        \* how often a request was executed, at most 2
  returned,    \* the request whose result a call of infer returns
  results,     \* _results_queue
  collecting,  \* get_pending_results: not called, to copy, to clear
  copied,      \* what it returns
  collected    \* how often the result of a request was handed to the collector, at most 2

batchVars == <<progress, overdue, throttled, batches, timedOut, runs, returned, results,
               collecting, copied, collected>>

ModelIds == {ModelOf[q] : q \in Request}
Progress == {"new", "runs", "joins", "returns", "done", "dropped"}

BatchTypeOK ==
  /\ progress \in [Request -> Progress]
  /\ overdue \subseteq Request /\ throttled \in BOOLEAN
  /\ batches \in [ModelIds -> Seq(Request)]
  /\ \A m \in ModelIds : Len(batches[m]) < MaxBatch
  /\ timedOut \subseteq {m \in ModelIds : batches[m] # <<>>}
  /\ runs \in [Request -> 0..2]
  /\ returned \in [Request -> Request \cup {NoResult}]
  /\ results \in Seq(Request) /\ Len(results) <= MaxResults
  /\ collecting \in {"no", "copy", "clear"}
  /\ copied \in Seq(Request)
  /\ collected \in [Request -> 0..2]

BatchInit ==
  /\ progress = [q \in Request |-> "new"]
  /\ overdue = {} /\ throttled = FALSE
  /\ batches = [m \in ModelIds |-> <<>>] /\ timedOut = {}
  /\ runs = [q \in Request |-> 0]
  /\ returned = [q \in Request |-> NoResult]
  /\ results = <<>> /\ collecting = "no" /\ copied = <<>>
  /\ collected = [q \in Request |-> 0]

-----------------------------------------------------------------------------
Overdue(q) ==
  /\ q \notin overdue /\ overdue' = overdue \cup {q}
  /\ UNCHANGED <<progress, throttled, batches, timedOut, runs, returned, results, collecting,
                 copied, collected>>

(* set_thermal_throttle                                                    *)
SetThermalThrottle ==
  /\ throttled' = ~throttled
  /\ UNCHANGED <<progress, overdue, batches, timedOut, runs, returned, results, collecting,
                 copied, collected>>

(* submit, before the lock: deadline, then priority, then throttle.        *)
Submit(q) ==
  /\ progress[q] = "new"
  /\ progress' = [progress EXCEPT ![q] =
       IF q \in overdue THEN "dropped"
       ELSE IF Priority[q] = "REAL_TIME" THEN "runs"
       ELSE IF throttled /\ Priority[q] # "HIGH" THEN "dropped"
       ELSE "joins"]
  /\ UNCHANGED <<overdue, throttled, batches, timedOut, runs, returned, results, collecting,
                 copied, collected>>

(* _execute_single of the requests of a set.                               *)
Executed(Q) == [q \in Request |-> IF q \in Q /\ runs[q] < 2 THEN runs[q] + 1 ELSE runs[q]]

(* _execute_batch runs every request of a batch and answers with the       *)
(* result of the first.                                                    *)
BatchResult(batch) == Head(batch)

(* A real-time request.                                                    *)
RunAlone(q) ==
  /\ progress[q] = "runs"
  /\ runs' = Executed({q})
  /\ returned' = [returned EXCEPT ![q] = q]
  /\ progress' = [progress EXCEPT ![q] = "returns"]
  /\ UNCHANGED <<overdue, throttled, batches, timedOut, results, collecting, copied,
                 collected>>

(* submit, with the lock: the request joins its batch, and a full batch is *)
(* executed.                                                               *)
JoinBatch(q) ==
  LET m == ModelOf[q]
      batch == Append(batches[m], q)
  IN
    /\ progress[q] = "joins"
    /\ IF Len(batch) >= MaxBatch
         THEN /\ batches' = [batches EXCEPT ![m] = <<>>]
              /\ timedOut' = timedOut \ {m}
              /\ runs' = Executed(ToSet(batch))
              /\ returned' = [returned EXCEPT ![q] = BatchResult(batch)]
              /\ progress' = [progress EXCEPT ![q] = "returns"]
         ELSE /\ batches' = [batches EXCEPT ![m] = batch]
              /\ progress' = [progress EXCEPT ![q] = "done"]
              /\ UNCHANGED <<timedOut, runs, returned>>
    /\ UNCHANGED <<overdue, throttled, results, collecting, copied, collected>>

(* Appending to a full deque drops the oldest results.                     *)
Extended(s, t) ==
  LET all == s \o t IN
  IF Len(all) <= MaxResults THEN all ELSE SubSeq(all, Len(all) - MaxResults + 1, Len(all))

(* infer, after submit.                                                    *)
KeepResult(q) ==
  /\ progress[q] = "returns"
  /\ results' = Extended(results, <<returned[q]>>)
  /\ progress' = [progress EXCEPT ![q] = "done"]
  /\ UNCHANGED <<overdue, throttled, batches, timedOut, runs, returned, collecting, copied,
                 collected>>

TimeOut(m) ==
  /\ batches[m] # <<>> /\ m \notin timedOut /\ timedOut' = timedOut \cup {m}
  /\ UNCHANGED <<progress, overdue, throttled, batches, runs, returned, results, collecting,
                 copied, collected>>

Flushed_full == {m \in timedOut : Len(batches[m]) = MaxBatch}

(* flush_expired looks at the batches that timed out.                      *)
Flushed == timedOut

Popped_none(m) == batches[m]

(* _pending.pop(model_id)                                                  *)
Popped(m) == <<>>

(* get_pending_results: flush_expired and extend.  The order of the models *)
(* does not matter here.                                                   *)
FlushExpired ==
  LET firsts == {BatchResult(batches[m]) : m \in Flushed} IN
    /\ collecting = "no"
    /\ runs' = Executed(UNION {ToSet(batches[m]) : m \in Flushed})
    /\ batches' = [m \in ModelIds |-> IF m \in Flushed THEN Popped(m) ELSE batches[m]]
    /\ timedOut' = timedOut \ Flushed
    /\ results' = Extended(results, SetToSeq(firsts))
    /\ collecting' = "copy"
    /\ UNCHANGED <<progress, overdue, throttled, returned, copied, collected>>

CopyResults ==
  /\ collecting = "copy"
  /\ copied' = results /\ collecting' = "clear"
  /\ UNCHANGED <<progress, overdue, throttled, batches, timedOut, runs, returned, results,
                 collected>>

Cleared == <<>>

(* _results_queue.clear() and return.                                      *)
ClearResults ==
  /\ collecting = "clear"
  /\ results' = Cleared
  /\ collected' = [q \in Request |->
       collected[q] + IF q \in ToSet(copied) /\ collected[q] < 2 THEN 1 ELSE 0]
  /\ copied' = <<>> /\ collecting' = "no"
  /\ UNCHANGED <<progress, overdue, throttled, batches, timedOut, runs, returned>>

Infer(q) == Submit(q) \/ RunAlone(q) \/ JoinBatch(q) \/ KeepResult(q)
GetPendingResults == FlushExpired \/ CopyResults \/ ClearResults

BatchNext ==
  \/ SetThermalThrottle \/ GetPendingResults
  \/ \E q \in Request : Infer(q) \/ Overdue(q)
  \/ \E m \in ModelIds : TimeOut(m)

(* A call that was made goes on, and batches get old.  Nobody has to ask   *)
(* the engine for results.                                                 *)
BatchSpec ==
  /\ BatchInit /\ [][BatchNext]_batchVars
  /\ \A q \in Request : WF_batchVars(RunAlone(q) \/ JoinBatch(q) \/ KeepResult(q))
  /\ \A m \in ModelIds : WF_batchVars(TimeOut(m))

-----------------------------------------------------------------------------
Waits(q) == \E m \in ModelIds : q \in ToSet(batches[m])

(* However calls and collections overlap, a request that was accepted is   *)
(* executed exactly once or waits in one batch, and a dropped one never.   *)
ExecutedOnce ==
  \A q \in Request :
    /\ runs[q] <= 1
    /\ progress[q] = "done" => (Waits(q) <=> runs[q] = 0)
    /\ progress[q] = "dropped" => runs[q] = 0

(* If results are collected again and again, a request in a batch that     *)
(* never fills is executed too, and none is executed twice for it.         *)
WaitingIsExecuted ==
  /\ []ExecutedOnce
  /\ ([]<><<FlushExpired>>_batchVars => \A q \in Request : Waits(q) ~> runs[q] > 0)

(* flush_expired: "Called periodically".  It is not, and a batch that does *)
(* not fill waits for ever.                                                *)
BatchWaitIsBounded == \A q \in Request : Waits(q) ~> runs[q] > 0

(* inference_engine.py: "Get all pending results and flush expired         *)
(* batches".  The result of every request that was executed is handed out. *)
ResultsAreCollected ==
  \A q \in Request : (progress[q] = "done" /\ runs[q] > 0) ~> collected[q] > 0

(* inference_engine.py: "Latency SLA enforcement (drop requests exceeding  *)
(* deadline)".  No request is executed after its deadline.                 *)
DeadlineIsKept ==
  [][\A q \in Request : runs'[q] > runs[q] => q \notin overdue]_batchVars
=============================================================================
