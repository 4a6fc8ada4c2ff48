-------------------------- MODULE ZoneOrchestrator --------------------------
(***************************************************************************)
(* The orchestrator of a zone                                              *)
(* (services/edge_compute/zone_compute/zone_orchestrator.py): the station  *)
(* registry, the loops that watch the heartbeats and the SLA, the          *)
(* federated aggregator with the loop that starts its rounds, and the      *)
(* deployments.                                                            *)
(*                                                                         *)
(* The three loops are tasks of one event loop and wait only between their *)
(* passes.  The handlers of the requests run in threads of a pool and come *)
(* between any two steps of a loop that are not under one lock.  A         *)
(* heartbeat holds the lock of the registry and writes the time before the *)
(* health; the health loop reads them in the same order and without it.  A *)
(* check of the SLA, which reads a few fields, is one step.  Gradients carry only   *)
(* the number of the round they were computed for, which the program does  *)
(* not send.                                                               *)
(***************************************************************************)
EXTENDS Integers, Sequences, FiniteSetsExt

CONSTANTS
  Node,
  NoNode,
  Reported,      \* health values that stations send: HEALTHY, OVERLOADED, ...
  Excess,        \* sets of the metrics a heartbeat may show beyond the SLA
  Restarting,    \* bound: nodes that register more than once
  MaxObjects,    \* bound: registrations of such a node
  MaxSilences,   \* bound: times a node falls silent
  MaxRounds,     \* bound: federated rounds
  MaxViolations, \* bound: violations counted on an object
  MaxRollouts    \* bound: deployments

ASSUME OrchestratorAssumption ==
  /\ IsFiniteSet(Node) /\ NoNode \notin Node /\ Restarting \subseteq Node
  /\ "HEALTHY" \in Reported /\ "OFFLINE" \notin Reported
  /\ Excess \subseteq SUBSET {"queue_depth", "temperature"}
  /\ {MaxSilences, MaxRounds, MaxViolations, MaxRollouts} \subseteq Nat
  /\ MaxObjects \in Nat \ {0}

VARIABLES
  object,    \* number of the StationNode object of a node, 0: not registered
  health,    \* health of every object, also of those that were replaced
  alive,     \* is_alive() of every object: a heartbeat within 60 s
  excess,    \* of queue_depth and temperature_c of every object, those beyond the SLA
  beating,   \* heartbeat: the object whose time is written and its health not yet
  todo,      \* health_check_loop: objects still to look at in this pass
  suspect,   \* health_check_loop: the object found dead, its health not yet read
  judged,    \* health_check_loop: the object to be marked
  alerts,    \* station_failure entries of _cross_station_alerts, by node
  violations,\* sla_violations_count of every object
  rollouts,  \* target_nodes of _deployments
  silences,  \* how often a node fell silent
  revived,   \* ghost: how often an object of a node was judged that had come back
             \* since it was found dead
  invited,   \* federated_round_loop: participants read from the registry
  round,     \* _current_round: participants and gradients by node
  counter,   \* _round_counter
  version,   \* round number in _global_model_version
  history,   \* _round_history
  training   \* the round a station computes gradients for

stationVars == <<object, health, alive, excess, beating>>
healthLoopVars == <<todo, suspect, judged, alerts, revived>>
monitorVars == <<healthLoopVars, violations, rollouts>>
roundVars == <<round, counter, version, history>>
federatedVars == <<invited, roundVars, training>>
zoneVars == <<stationVars, monitorVars, silences, federatedVars>>

Health == Reported \cup {"OFFLINE"}
NoRound == [number |-> 0, participants |-> {}, gradients |-> <<>>]
NotReading == {NoNode}

Object == Node \X (1..MaxObjects)
Current(n) == <<n, object[n]>>
Registered == {n \in Node : object[n] # 0}

Round == [number : 0..MaxRounds, participants : SUBSET Node,
          gradients : UNION {[S -> 0..MaxRounds] : S \in SUBSET Node}]

OrchestratorTypeOK ==
  /\ object \in [Node -> 0..MaxObjects]
  /\ health \in [Object -> Health]
  /\ alive \in [Object -> BOOLEAN]
  /\ excess \in [Object -> Excess \cup {{}}]
  /\ violations \in [Object -> 0..MaxViolations]
  /\ rollouts \in Seq(SUBSET Node)
  /\ todo \subseteq Object
  /\ {suspect, judged, beating} \subseteq Object \cup {NoNode}
  /\ alerts \in [Node -> Nat] /\ revived \in [Node -> Nat]
  /\ silences \in [Node -> 0..MaxSilences]
  /\ invited \in (SUBSET Node) \cup {NotReading}
  /\ round \in Round
  /\ {counter, version} \subseteq 0..MaxRounds
  /\ history \in Seq(Round)
  /\ training \in [Node -> 0..MaxRounds]

OrchestratorInit ==
  /\ object = [n \in Node |-> 0]
  /\ health = [o \in Object |-> "HEALTHY"]
  /\ alive = [o \in Object |-> TRUE]
  /\ excess = [o \in Object |-> {}]
  /\ beating = NoNode
  /\ todo = {} /\ suspect = NoNode /\ judged = NoNode
  /\ violations = [o \in Object |-> 0] /\ rollouts = <<>>
  /\ alerts = [n \in Node |-> 0] /\ revived = [n \in Node |-> 0]
  /\ silences = [n \in Node |-> 0]
  /\ invited = NotReading
  /\ round = NoRound /\ counter = 0 /\ version = 0 /\ history = <<>>
  /\ training = [n \in Node |-> 0]

-----------------------------------------------------------------------------
(* The registry.                                                           *)

(* The lock of the registry, which only a heartbeat holds for two steps.   *)
RegistryIsFree == beating = NoNode

(* register: a new object, also for a node that is known.                  *)
Register(n) ==
  /\ RegistryIsFree
  /\ object[n] < IF n \in Restarting THEN MaxObjects ELSE 1
  /\ object' = [object EXCEPT ![n] = @ + 1]
  /\ UNCHANGED <<health, alive, excess, beating, monitorVars, silences, federatedVars>>

(* heartbeat: last_heartbeat ...                                           *)
Heartbeat(n) ==
  /\ RegistryIsFree /\ n \in Registered
  /\ alive' = [alive EXCEPT ![Current(n)] = TRUE]
  /\ beating' = Current(n)
  /\ UNCHANGED <<object, health, excess, monitorVars, silences, federatedVars>>

(* ... then health and the metrics.                                        *)
HeartbeatStatus(h, e) ==
  /\ beating # NoNode /\ beating' = NoNode
  /\ health' = [health EXCEPT ![beating] = h]
  /\ excess' = [excess EXCEPT ![beating] = e]
  /\ UNCHANGED <<object, alive, monitorVars, silences, federatedVars>>

(* 60 s pass since the last heartbeat on an object of n; a heartbeat does  *)
(* not take as long.                                                       *)
FallSilent(n) ==
  /\ silences[n] < MaxSilences
  /\ \E k \in 1..object[n] :
       /\ alive[<<n, k>>] /\ beating # <<n, k>>
       /\ alive' = [alive EXCEPT ![<<n, k>>] = FALSE]
  /\ silences' = [silences EXCEPT ![n] = @ + 1]
  /\ UNCHANGED <<object, health, excess, beating, monitorVars, federatedVars>>

-----------------------------------------------------------------------------
(* health_check_loop                                                       *)

(* No task of the event loop is in the middle of a pass.                   *)
LoopIsFree == todo = {} /\ suspect = NoNode /\ judged = NoNode /\ invited = NotReading

(* get_all                                                                 *)
StartPass ==
  /\ LoopIsFree /\ RegistryIsFree
  /\ todo' = {Current(n) : n \in Registered}
  /\ UNCHANGED <<stationVars, suspect, judged, alerts, revived, violations, rollouts, silences,
                 federatedVars>>

Others_none(o) == {}

(* The stations the pass has still to look at after o.                     *)
Others(o) == todo \ {o}

(* The first condition on a station: is_alive ...                          *)
FindDead(o) ==
  /\ suspect = NoNode /\ judged = NoNode /\ o \in todo
  /\ todo' = Others(o)
  /\ suspect' = IF alive[o] THEN NoNode ELSE o
  /\ UNCHANGED <<stationVars, judged, alerts, revived, violations, rollouts, silences,
                 federatedVars>>

MustBeMarked_again(o) == TRUE

(* ... and the second, read after it: not marked yet.                      *)
MustBeMarked(o) == health[o] # "OFFLINE"

(* A heartbeat may have come since the station was found dead.             *)
Judge ==
  /\ suspect # NoNode /\ suspect' = NoNode
  /\ judged' = IF MustBeMarked(suspect) THEN suspect ELSE NoNode
  /\ revived' = IF judged' # NoNode /\ alive[suspect]
                   THEN [revived EXCEPT ![suspect[1]] = @ + 1] ELSE revived
  /\ UNCHANGED <<stationVars, todo, alerts, violations, rollouts, silences, federatedVars>>

(* _handle_station_failure: an alert about the station.                    *)
HandleStationFailure(n) == alerts' = [alerts EXCEPT ![n] = @ + 1]

(* health = OFFLINE and _handle_station_failure; the object may have been  *)
(* heard from, or replaced, since it was judged.                           *)
MarkOffline ==
  /\ judged # NoNode
  /\ health' = [health EXCEPT ![judged] = "OFFLINE"]
  /\ HandleStationFailure(judged[1])
  /\ judged' = NoNode
  /\ UNCHANGED <<object, alive, excess, beating, todo, suspect, revived, violations, rollouts,
                 silences, federatedVars>>

HealthLoop == StartPass \/ (\E o \in todo : FindDead(o)) \/ Judge \/ MarkOffline

-----------------------------------------------------------------------------
(* sla_check_loop: a pass is its checks, of objects that are, or were when *)
(* it began, in the registry.                                              *)

(* check_station: the metrics that are violated.                           *)
Violated(o) == excess[o] \cup (IF health[o] = "OVERLOADED" THEN {"health"} ELSE {})

(* check_station of a station that is alive, and _remediate, which logs.   *)
CheckStation(n) ==
  /\ LoopIsFree
  /\ \E k \in 1..object[n] :
       LET o == <<n, k>> IN
       /\ alive[o] /\ Violated(o) # {}
       /\ violations' = [violations EXCEPT ![o] =
            Min({@ + Cardinality(Violated(o)), MaxViolations})]
  /\ UNCHANGED <<stationVars, healthLoopVars, rollouts, silences, federatedVars>>

-----------------------------------------------------------------------------
(* federated_round_loop and the aggregator                                 *)

Healthy == {n \in Registered : alive[Current(n)] /\ health[Current(n)] = "HEALTHY"}

ReadHealthy ==
  /\ LoopIsFree /\ RegistryIsFree /\ counter < MaxRounds
  /\ invited' = IF Cardinality(Healthy) >= 2 THEN Healthy ELSE NotReading
  /\ UNCHANGED <<stationVars, monitorVars, silences, roundVars, training>>

(* start_round: takes the place of a round in progress.                    *)
StartRound ==
  /\ invited # NotReading
  /\ counter' = counter + 1
  /\ round' = [number |-> counter', participants |-> invited, gradients |-> <<>>]
  /\ invited' = NotReading
  /\ UNCHANGED <<stationVars, monitorVars, silences, version, history, training>>

(* A station trains on the model of the round in progress.                 *)
Train(n) ==
  /\ n \in round.participants /\ training[n] # round.number
  /\ training' = [training EXCEPT ![n] = round.number]
  /\ UNCHANGED <<stationVars, monitorVars, silences, invited, roundVars>>

(* The checks of submit_gradients.                                         *)
IsParticipant(n) == round # NoRound /\ n \in round.participants

WithGradients(n) ==
  [round EXCEPT !.gradients = [m \in DOMAIN @ \cup {n} |-> IF m = n THEN training[n] ELSE @[m]]]

AllSubmitted(r) == Cardinality(DOMAIN r.gradients) = Cardinality(r.participants)

NextRound_kept(r) == r

(* _current_round after _aggregate.                                        *)
NextRound(r) == NoRound

(* submit_gradients, with _aggregate when it is the last one.  The         *)
(* gradients may belong to an earlier round.                               *)
SubmitGradients(n) ==
  /\ training[n] # 0 /\ IsParticipant(n)
  /\ LET r == WithGradients(n) IN
       IF AllSubmitted(r)
         THEN /\ version' = r.number
              /\ history' = Append(history, r)
              /\ round' = NextRound(r)
         ELSE round' = r /\ UNCHANGED <<version, history>>
  /\ UNCHANGED <<stationVars, monitorVars, silences, invited, counter, training>>

(* deploy: without targets to the stations that are healthy.               *)
Deploy(targets) ==
  /\ Len(rollouts) < MaxRollouts /\ (targets = {} => RegistryIsFree)
  /\ rollouts' = Append(rollouts, IF targets = {} THEN Healthy ELSE targets)
  /\ UNCHANGED <<stationVars, healthLoopVars, violations, silences, federatedVars>>

-----------------------------------------------------------------------------
(* The registry and its monitor, with heartbeats that show an excess of E; *)
(* the rounds; the deployments.  With the checks of the SLA these change   *)
(* nothing that another of them reads.                                     *)
StationNext(E) ==
  \/ \E n \in Node : Register(n) \/ FallSilent(n) \/ Heartbeat(n)
  \/ \E h \in Reported, e \in E : HeartbeatStatus(h, e)
  \/ HealthLoop

RoundNext ==
  \/ ReadHealthy \/ StartRound
  \/ \E n \in Node : Train(n) \/ SubmitGradients(n)

DeployNext == \E targets \in SUBSET Node : Deploy(targets)

OrchestratorNext == StationNext(Excess) \/ RoundNext \/ DeployNext
                    \/ \E n \in Node : CheckStation(n)

(* A heartbeat that began ends.                                            *)
HeartbeatEnds == \E h \in Reported, e \in Excess \cup {{}} : HeartbeatStatus(h, e)

(* The event loop: the monitor, and a pass that chose participants.        *)
LoopRuns == HealthLoop \/ StartRound

(* The loop runs for ever, also when it has to wait for the lock of the    *)
(* registry now and then.                                                  *)
OrchestratorSpec ==
  /\ OrchestratorInit /\ [][OrchestratorNext]_zoneVars
  /\ SF_zoneVars(LoopRuns) /\ WF_zoneVars(HeartbeatEnds)

-----------------------------------------------------------------------------
(* The monitor reports an outage once, whatever heartbeats and             *)
(* registrations come between its steps.  It reports another time only if  *)
(* the station comes back between the two reads of one check, which        *)
(* happens at most once for each silence.                                  *)
AlertsHaveCause ==
  \A n \in Node : alerts[n] <= silences[n] + revived[n] /\ revived[n] <= silences[n]

(* The same without the exception: not so, for the two reads.              *)
AlertedOncePerSilence == \A n \in Node : alerts[n] <= silences[n]

(* A round is aggregated once, from exactly its participants, although     *)
(* rounds overtake each other and stations that left keep sending.         *)
RoundsAreWhole ==
  /\ \A i \in 1..Len(history) : DOMAIN history[i].gradients = history[i].participants
  /\ \A i, j \in 1..Len(history) : i < j => history[i].number < history[j].number

Silent(n) == IF n \in Registered THEN ~alive[Current(n)] ELSE FALSE

(* A station that stays silent is marked OFFLINE, and it is reported no    *)
(* more often than that justifies.                                         *)
SilenceIsNoticed ==
  /\ []AlertsHaveCause
  /\ \A n \in Node : Silent(n) ~> (~Silent(n) \/ health[Current(n)] = "OFFLINE")

(* zone_orchestrator.py: "Handle station going offline".  A station that   *)
(* is marked OFFLINE is silent.                                            *)
OfflineIsSilent == \A n \in Registered : health[Current(n)] = "OFFLINE" => Silent(n)

(* zone_orchestrator.py: "Zone broadcasts current global model to          *)
(* stations", "Stations train locally".  A round is made from gradients    *)
(* for that round.                                                         *)
GradientsAreOfTheRound ==
  \A i \in 1..Len(history) :
    \A n \in DOMAIN history[i].gradients : history[i].gradients[n] = history[i].number
=============================================================================
