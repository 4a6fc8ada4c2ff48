--------------------------- MODULE MCEdgeDevices ---------------------------
(***************************************************************************)
(* The services of an edge node and of the micro edge in front of it for   *)
(* TLC: uploader, storage alerter, thermal protection, model store, sensor *)
(* hub and signal processor.  In the code they share no variable that they *)
(* write, so a behaviour of the node is, for each of them, a behaviour of  *)
(* its own module; TLC explores them one at a time.                        *)
(***************************************************************************)
EXTENDS ReconnectUploader, NodeServices, SensorHub, SignalProcessor, TLC

CONSTANTS e1, e2, e3, e4, d1, d2, axle, temp

(* Sensor time: e1 before e2 before e3 before e4.                          *)
MCTimestamp == e1 :> 1 @@ e2 :> 2 @@ e3 :> 3 @@ e4 :> 4

(* The accelerometer fills its buffer and wraps, the thermometer sends one *)
(* sample.                                                                 *)
MCWindow == axle :> 2 @@ temp :> 1
MCMaxSample == axle :> 5 @@ temp :> 1

(* Two readings are enough to tell every position of a window apart.       *)
MCReading == {-1, 0}

VARIABLE part  \* the one that runs

deviceVars == <<alerterVars, thermalVars, storeVars>>
microVars == <<hubVars, signalVars>>
vars == <<part, uploaderVars, deviceVars, microVars>>

(* One state type per part.                                                *)
TypeOK ==
  /\ UploaderTypeOK /\ AlerterTypeOK /\ ThermalTypeOK /\ StoreTypeOK /\ HubTypeOK
  /\ part \in {"uploader", "alerter", "thermal", "store", "hub", "signal"}

(* The three loops of a node that nobody watches keep to what they are     *)
(* for: an upload returns with everything tried, a full buffer is reported *)
(* again and again, and a throttled node is not switched back too soon.    *)
DeviceLoopsAreKept ==
  StartReturns /\ []CompleteMeansTried /\ FullIsReported /\ NoRapidToggling

Uploads(A) == part = "uploader" /\ A /\ UNCHANGED <<part, deviceVars, microVars>>
Alerts(A) ==
  part = "alerter" /\ A /\ UNCHANGED <<part, uploaderVars, thermalVars, storeVars, microVars>>
Protects(A) ==
  part = "thermal" /\ A /\ UNCHANGED <<part, uploaderVars, alerterVars, storeVars, microVars>>
Stores(A) ==
  part = "store" /\ A /\ UNCHANGED <<part, uploaderVars, alerterVars, thermalVars, microVars>>
Senses(A) == part = "hub" /\ A /\ UNCHANGED <<part, uploaderVars, deviceVars, signalVars>>
Filters(A) == part = "signal" /\ A /\ UNCHANGED <<part, uploaderVars, deviceVars, hubVars>>

Init ==
  /\ part \in {"uploader", "alerter", "thermal", "store", "hub", "signal"}
  /\ UploaderInit /\ AlerterInit /\ ThermalInit /\ StoreInit /\ HubInit /\ SignalInit
  /\ part # "alerter" => ~full /\ sinceLast = 0

Next ==
  \/ Uploads(UploaderNext) \/ Alerts(AlerterNext) \/ Protects(ThermalNext)
  \/ Stores(StoreNext) \/ Senses(HubNext) \/ Filters(SignalNext)

(* The fairness of UploaderSpec, AlerterSpec and ThermalSpec.              *)
Spec ==
  /\ Init /\ [][Next]_vars
  /\ \A d \in Drain : WF_vars(Uploads(ReadBatch(d) \/ PostAccepted(d) \/ PostFails(d)))
  /\ WF_vars(Alerts(Check))
  /\ WF_vars(Protects(Sample))
=============================================================================
