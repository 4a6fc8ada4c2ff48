----------------------------- MODULE MCPipeline -----------------------------
(***************************************************************************)
(* The services around the event pipeline for TLC: the adapters of NTES,   *)
(* OMRS and WILD, the schema validator, the conflict detector of the       *)
(* digital twin, the zone isolator and the feed watchdog.  They are        *)
(* processes of their own and meet only on Kafka, so TLC explores them one *)
(* at a time.                                                              *)
(***************************************************************************)
EXTENDS NtesAdapter, StreamAdapter, SchemaValidator, ConflictDetector, ZoneIsolator,
        HeartbeatWatchdog

CONSTANTS single, double

CapacityOfSegments == [s \in Segment |-> IF s = single THEN 1 ELSE 2]

VARIABLE part  \* the one that runs

adapterVars == <<ntesVars, streamVars>>
feedVars == <<isolatorVars, watchdogVars>>
vars == <<part, adapterVars, validatorVars, twinVars, feedVars>>

Adapts(A) == part = "ntes" /\ A /\ UNCHANGED <<part, streamVars, validatorVars, twinVars, feedVars>>
Streams(A) == part = "stream" /\ A /\ UNCHANGED <<part, ntesVars, validatorVars, twinVars, feedVars>>
Validates(A) == part = "validator" /\ A /\ UNCHANGED <<part, adapterVars, twinVars, feedVars>>
Detects(A) == part = "twin" /\ A /\ UNCHANGED <<part, adapterVars, validatorVars, feedVars>>
Isolates(A) ==
  part = "isolator" /\ A /\ UNCHANGED <<part, adapterVars, validatorVars, twinVars, watchdogVars>>
Watches(A) ==
  part = "watchdog" /\ A /\ UNCHANGED <<part, adapterVars, validatorVars, twinVars, isolatorVars>>

Init ==
  /\ part \in {"ntes", "stream", "validator", "twin", "isolator", "watchdog"}
  /\ NtesInit /\ StreamInit /\ ValidatorInit /\ TwinInit /\ IsolatorInit /\ WatchdogInit
  /\ part # "stream" => framing = "omrs" /\ eventSource = CHOOSE s \in Sensor : TRUE
  /\ part # "validator" => sensorLog = <<>>

Next ==
  \/ Adapts(NtesNext) \/ Streams(StreamNext) \/ Validates(ValidatorNext)
  \/ Detects(TwinNext) \/ Isolates(IsolatorNext) \/ Watches(WatchdogNext)

(* The fairness of WatchdogSpec.                                           *)
Spec ==
  /\ Init /\ [][Next]_vars
  /\ WF_vars(Watches(Watch)) /\ WF_vars(Watches(TimePasses)) /\ WF_vars(Watches(KafkaRecovers))
=============================================================================
