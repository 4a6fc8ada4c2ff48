---------------------------- MODULE MCOperations ----------------------------
(***************************************************************************)
(* The services beside the decision path for TLC: the InfluxDB writer, the *)
(* clock monitor, the alert deduplicator, the Kavach advisory, maintenance *)
(* (feature extractor and service), the corridor simulation, the latency   *)
(* monitor, the delay graph and the authentication of requests.  They      *)
(* share no state, so TLC explores them one at a time.                     *)
(***************************************************************************)
EXTENDS InfluxWriter, ClockMonitor, AlertDeduplicator, KavachAdvisory, MaintenanceService,
        Corridor, LatencyMonitor, DelayGraph, Authentication

MCWindows == <<1, 3>>

(* Two of the six configured trains, the quickest and the slowest to stop. *)
MCTrain ==
  {[brakeWeight |-> 100, aero |-> 737, davisC |-> 97, inertia |-> 108, reaction |-> 15,
    propagation |-> 10],
   [brakeWeight |-> 75, aero |-> 266, davisC |-> 74, inertia |-> 104, reaction |-> 25,
    propagation |-> 60]}
(* The strongest leaves the smallest adhesion, with which the slowest      *)
(* train runs on when the cap ends the integration.                        *)
MCVibration == {NoVibration, 0, 35, 150, 400}

(* No train, for the other parts, or one: trains do not see each other.    *)
MCFleets == {{}, {"T-12301"}, {"T-22436"}, {"T-12213"}}

MCSpanChain == <<"sensor_ingest_edge", "ml_inference", "browser_render">>
MCGraphTrain == <<"a", "b", "c">>

(* What the theorem about the graph asks of its inputs.                    *)
ASSUME InputsAreAsProved == \A l \in DefectLength : l <= 11

VARIABLE part  \* the one that runs

pipelineVars == <<influxVars, monitorVars, latencyVars>>
advisoryVars == <<dedupVars, kavachVars, maintenanceVars>>
twinVars == <<corridorVars, graphVars>>
lastVars == <<twinVars, authVars>>
vars == <<part, pipelineVars, advisoryVars, lastVars>>

Writes(A) ==
  part = "influx" /\ A /\ UNCHANGED <<part, monitorVars, latencyVars, advisoryVars, lastVars>>
Monitors(A) ==
  part = "clock" /\ A /\ UNCHANGED <<part, influxVars, latencyVars, advisoryVars, lastVars>>
Measures(A) ==
  part = "latency" /\ A /\ UNCHANGED <<part, influxVars, monitorVars, advisoryVars, lastVars>>
Suppresses(A) ==
  part = "alerts" /\ A /\ UNCHANGED <<part, kavachVars, maintenanceVars, pipelineVars, lastVars>>
Advises(A) ==
  part = "kavach" /\ A /\ UNCHANGED <<part, dedupVars, maintenanceVars, pipelineVars, lastVars>>
Maintains(A) ==
  part = "maintenance" /\ A /\ UNCHANGED <<part, dedupVars, kavachVars, pipelineVars, lastVars>>
Simulates(A) ==
  part = "corridor" /\ A /\ UNCHANGED <<part, graphVars, pipelineVars, advisoryVars, authVars>>
Predicts(A) ==
  part = "graph" /\ A /\ UNCHANGED <<part, corridorVars, pipelineVars, advisoryVars, authVars>>
Authenticates(A) ==
  part = "auth" /\ A /\ UNCHANGED <<part, pipelineVars, advisoryVars, twinVars>>

Init ==
  /\ part \in {"influx", "clock", "latency", "alerts", "kavach", "maintenance", "corridor", "graph",
              "auth"}
  /\ InfluxInit /\ MonitorInit /\ LatencyInit /\ DedupInit /\ KavachInit /\ MaintenanceInit
  /\ CorridorInit /\ GraphInit /\ AuthInit
  /\ (part = "corridor") = (DOMAIN trains # {})

Next ==
  \/ Writes(InfluxNext) \/ Monitors(MonitorNext) \/ Measures(LatencyNext)
  \/ Suppresses(DedupNext) \/ Advises(KavachNext) \/ Maintains(MaintenanceNext)
  \/ Simulates(Tick) \/ Predicts(PredictDelays) \/ Authenticates(AuthNext)

(* The fairness of CorridorSpec.                                           *)
Spec == Init /\ [][Next]_vars /\ WF_vars(Simulates(Tick))
=============================================================================
