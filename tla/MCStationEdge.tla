--------------------------- MODULE MCStationEdge ---------------------------
(***************************************************************************)
(* The services of a station and of the zone above it for TLC: upstream    *)
(* sync, correlation of anomalies, model registry, batched inference, the  *)
(* inference queue with the table of active nodes, and the orchestrator of *)
(* the zone.  They share no variable that they write: the aggregator       *)
(* queues what it correlated, and inference looks a session up.  TLC       *)
(* explores them one at a time.                                            *)
(***************************************************************************)
EXTENDS StationAggregator, InferenceEngine, ZoneOrchestrator, TLC

CONSTANTS axle, wheel, crack, flat, fast, q1, q2

(* Two sensors of one node, and one of another with the same anomaly.      *)
MCFlag == {[node |-> axle, sensor |-> 1, type |-> crack],
           [node |-> axle, sensor |-> 2, type |-> flat],
           [node |-> wheel, sensor |-> 1, type |-> crack]}
MCBatches == {<<>>} \cup {<<f>> : f \in MCFlag}

(* A real-time request and two that are batched.                           *)
MCModelOf == fast :> "a" @@ q1 :> "a" @@ q2 :> "a"
MCPriority == fast :> "REAL_TIME" @@ q1 :> "HIGH" @@ q2 :> "NORMAL"

(* Of the versions one is loaded from the start.                           *)
MCPreloaded == << <<CHOOSE m \in Model : TRUE, CHOOSE v \in Version : TRUE>> >>

(* The deque of urgent requests holds one, the other two.                  *)
MCQueueLength == <<1, 2>>

VARIABLE part  \* the one that runs

aggregatorVars == <<syncVars, correlationVars, nodesVars>>
engineVars == <<registryVars, batchVars>>
vars == <<part, aggregatorVars, engineVars, zoneVars>>

Syncs(A) ==
  part = "sync" /\ A /\ UNCHANGED <<part, correlationVars, nodesVars, engineVars, zoneVars>>
Correlates(A) ==
  part = "correlate" /\ A /\ UNCHANGED <<part, syncVars, nodesVars, engineVars, zoneVars>>
Keeps(A) ==
  part = "nodes" /\ A /\ UNCHANGED <<part, syncVars, correlationVars, engineVars, zoneVars>>
Serves(A) == part = "registry" /\ A /\ UNCHANGED <<part, aggregatorVars, batchVars, zoneVars>>
Infers(A) == part = "batch" /\ A /\ UNCHANGED <<part, aggregatorVars, registryVars, zoneVars>>
Zone(A) ==
  part \in {"rounds", "deploy", "sla"} /\ A /\ UNCHANGED <<part, aggregatorVars, engineVars>>

(* Rounds, deployments and the checks of the SLA change nothing that the   *)
(* others read: each is explored with the registry and its monitor, the    *)
(* deployments with stations that both fall silent, the others with one.   *)
OneFallsSilent == Cardinality({n \in Node : silences'[n] > 0}) <= 1

Orchestrate ==
  \/ part = "rounds" /\ Zone(StationNext({{}}) \/ RoundNext) /\ OneFallsSilent
  \/ part = "deploy" /\ Zone(StationNext({{}}) \/ DeployNext)
  \/ part = "sla" /\ Zone(StationNext(Excess) \/ \E n \in Node : CheckStation(n)) /\ OneFallsSilent

Init ==
  /\ part \in {"sync", "correlate", "nodes", "registry", "batch", "rounds", "deploy", "sla"}
  /\ SyncInit /\ CorrelationInit /\ NodesInit /\ RegistryInit /\ BatchInit /\ OrchestratorInit

Next ==
  \/ Syncs(SyncNext) \/ Correlates(CorrelationNext) \/ Keeps(NodesNext)
  \/ Serves(RegistryNext) \/ Infers(BatchNext) \/ Orchestrate

(* Of the fairness of SyncSpec, BatchSpec and OrchestratorSpec what the    *)
(* liveness properties need.                                               *)
Spec ==
  /\ Init /\ [][Next]_vars
  /\ \A m \in ModelIds : WF_vars(Infers(TimeOut(m)))
  /\ SF_vars(Zone(LoopRuns)) /\ WF_vars(Zone(HeartbeatEnds))
=============================================================================
