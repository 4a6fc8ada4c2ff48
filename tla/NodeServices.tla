---------------------------- MODULE NodeServices ----------------------------
(***************************************************************************)
(* The services of an edge node beside its link: the two loops that watch  *)
(* its storage and its temperature, and the store of model weights.        *)
(***************************************************************************)
EXTENDS Integers, FiniteSets

(* The storage alerter thread of an edge node                              *)
(* (services/edge_node/alerter/storage_alerter.py). Every check interval   *)
(* it looks at the fill level of the buffer; at 90 % and more it sends an  *)
(* alert, at most one per retry interval. Time advances in check           *)
(* intervals.                                                              *)

CONSTANTS
  RetryChecks,  \* RETRY_INTERVAL_S in check intervals (5)
  HasGateway,   \* SMS_GATEWAY_URL is set
  MaxUptime     \* uptime above which the model stops telling times apart

ASSUME AlerterAssumption ==
  /\ RetryChecks \in Nat \ {0}
  /\ HasGateway \in BOOLEAN
  /\ MaxUptime \in Nat /\ MaxUptime > RetryChecks

Channels == {"sms", "console", "audit"}

VARIABLES
  full,       \* capacity_pct() >= CAPACITY_THRESHOLD
  sinceLast,  \* time.monotonic() - _last_alert, at most MaxUptime
  attempted,  \* an alert was attempted at this check
  reached     \* channels the alert of this check reached

alerterVars == <<full, sinceLast, attempted, reached>>

AlerterTypeOK ==
  /\ full \in BOOLEAN
  /\ sinceLast \in 0..MaxUptime
  /\ attempted \in BOOLEAN
  /\ reached \subseteq Channels

(* _last_alert starts at 0.0 on a clock that counts from the boot of the   *)
(* machine, so the thread starts as if an alert had been sent at boot.     *)
AlerterInit ==
  /\ full \in BOOLEAN
  /\ sinceLast \in 0..MaxUptime
  /\ attempted = FALSE /\ reached = {}

Elapsed == IF sinceLast < MaxUptime THEN sinceLast + 1 ELSE MaxUptime

(* now - _last_alert >= RETRY_INTERVAL_S                                    *)
Due == Elapsed >= RetryChecks

(* _send_alert.  A gateway that takes the message ends the call; otherwise *)
(* the alert is printed, and written to the audit log if that is possible. *)
Outcomes ==
  LET local == {{"console", "audit"}, {"console"}} IN
  IF HasGateway THEN {{"sms"}} \cup local ELSE local

Skip_stamped == attempted' = FALSE /\ reached' = {} /\ sinceLast' = 0

(* A check that sends nothing leaves _last_alert alone.                    *)
Skip == attempted' = FALSE /\ reached' = {} /\ sinceLast' = Elapsed

(* One turn of the loop of run(): _last_alert is set however the attempt   *)
(* ended.                                                                  *)
Check ==
  /\ IF full /\ Due
       THEN attempted' = TRUE /\ reached' \in Outcomes /\ sinceLast' = 0
       ELSE Skip
  /\ UNCHANGED full

(* The buffer fills up or is drained.                                      *)
BufferChanges == full' = ~full /\ UNCHANGED <<sinceLast, attempted, reached>>

AlerterNext == Check \/ BufferChanges

AlerterSpec == AlerterInit /\ [][AlerterNext]_alerterVars /\ WF_alerterVars(Check)

-----------------------------------------------------------------------------
(* A buffer that stays full is reported again and again.                   *)
FullIsReported == <>[]full => []<>attempted

(* storage_alerter.py: "Audit log (always write, even if above channels    *)
(* succeeded)", for a log that can be written.                             *)
SentIsAudited == (reached # {}) => ("audit" \in reached)

-----------------------------------------------------------------------------
(* Thermal protection of an edge node                                      *)
(* (services/edge_node/telemetry/hardware_telemetry.py). The telemetry     *)
(* loop samples the temperature; a hot sample throttles inference, and a   *)
(* long enough cool spell lifts the throttle. A sample comes at least one  *)
(* tick (the sample interval, 10 s) after the last, later when the alert   *)
(* of the last one was slow to send.                                       *)

CONSTANTS
  Recovery,  \* THERMAL_RECOVERY_S in ticks (6)
  MaxGap,    \* longest time between two samples, in ticks
  Never      \* None: not below the threshold since any time

ASSUME ThermalAssumption ==
  /\ Recovery \in Nat \ {0}
  /\ MaxGap \in Nat \ {0}
  /\ Never \notin Nat

VARIABLES
  hot,        \* the temperature is above the threshold
  active,     \* _thermal_protection_active
  coolSince,  \* age of _thermal_below_threshold_since at the last sample
  throttled,  \* ghost: ticks the throttle has been active
  coolFor     \* ghost: ticks since the first cool sample after the last hot one

thermalVars == <<hot, active, coolSince, throttled, coolFor>>

(* Ages are told apart up to this one.                                     *)
Horizon == Recovery + MaxGap

Capped(t) == IF t < Horizon THEN t ELSE Horizon

ThermalTypeOK ==
  /\ hot \in BOOLEAN
  /\ active \in BOOLEAN
  /\ coolSince \in 0..Horizon \cup {Never}
  /\ throttled \in 0..Horizon
  /\ coolFor \in 0..Horizon \cup {Never}

ThermalInit == hot = FALSE /\ active = FALSE /\ coolSince = Never /\ throttled = 0 /\ coolFor = Never

Forgotten_kept(g) == IF coolSince = Never THEN Never ELSE Capped(coolSince + g)

(* _thermal_below_threshold_since = None, at a sample g ticks after the    *)
(* last one.                                                               *)
Forgotten(g) == Never

(* _handle_thermal above the threshold.  A throttle that is active already *)
(* is left as it is.                                                       *)
HotSample(g) ==
  /\ hot
  /\ IF active
       THEN /\ UNCHANGED active
            /\ coolSince' = IF coolSince = Never THEN Never ELSE Capped(coolSince + g)
            /\ throttled' = Capped(throttled + g)
       ELSE active' = TRUE /\ coolSince' = Forgotten(g) /\ throttled' = 0
  /\ coolFor' = Never

(* The cool spell the code has been measuring is long enough.              *)
Recovered(g) == coolSince # Never /\ coolSince + g >= Recovery

(* _handle_thermal at or below the threshold.                              *)
CoolSample(g) ==
  /\ ~hot
  /\ IF active /\ ~Recovered(g)
       THEN /\ UNCHANGED active
            /\ coolSince' = IF coolSince = Never THEN 0 ELSE Capped(coolSince + g)
            /\ throttled' = Capped(throttled + g)
       ELSE /\ active' = FALSE
            /\ coolSince' = Forgotten(g)
            /\ throttled' = IF active THEN Capped(throttled + g) ELSE 0
  /\ coolFor' = IF coolFor = Never THEN 0 ELSE Capped(coolFor + g)

(* One turn of telemetry_loop.                                             *)
Sample == \E g \in 1..MaxGap : (HotSample(g) \/ CoolSample(g)) /\ UNCHANGED hot

TemperatureChanges == hot' = ~hot /\ UNCHANGED <<active, coolSince, throttled, coolFor>>

ThermalNext == Sample \/ TemperatureChanges

(* The loop goes on sampling, whatever the temperature does.               *)
ThermalSpec == ThermalInit /\ [][ThermalNext]_thermalVars /\ WF_thermalVars(Sample)

-----------------------------------------------------------------------------
(* Req 44 C4 against oscillation: once throttled, inference stays          *)
(* throttled for at least the recovery time, also when an earlier throttle *)
(* was lifted just before.                                                 *)
NoRapidToggling == [][active /\ ~active' => throttled' >= Recovery]_thermalVars

(* Req 44 C4: full capacity is restored "only after the measured           *)
(* temperature falls below the safe operational threshold for a minimum of *)
(* 60 consecutive seconds".  A hot sample while the throttle is active     *)
(* does not restart the measurement.                                       *)
LiftedAfterCoolSpell == [][active /\ ~active' => coolFor' # Never /\ coolFor' >= Recovery]_thermalVars

-----------------------------------------------------------------------------
(* The store of model weights on an edge node (model_store.py): a file per *)
(* version, an index in memory and the same index on the disk.  Neither    *)
(* the copy of the weights nor the write of the index is atomic, and the   *)
(* process may end between any two steps and start again from the disk.    *)

CONSTANTS StoredModel, StoredVersion,
          MaxCrashes  \* bound

NoVersion == "none"
NoIndex == [m \in StoredModel |-> NoVersion]

VARIABLES weights,    \* of each model and version: absent, partial or whole
          memIndex,   \* _index
          diskIndex,  \* INDEX_FILE: readable with an index in it, or torn
          saving,     \* the save_model in progress
          crashes,
          overwrites  \* ghost: saves of a version the index names, not copied yet

storeVars == <<weights, memIndex, diskIndex, saving, crashes, overwrites>>

NotSaving == [at |-> "none", m |-> {}, v |-> {}]

(* _load_index: what cannot be read counts as no index.                    *)
LoadIndex(disk) == IF disk.readable THEN disk.index ELSE NoIndex

StoreInit ==
  /\ weights = [m \in StoredModel |-> [v \in StoredVersion |-> "absent"]]
  /\ memIndex = NoIndex
  /\ diskIndex = [readable |-> TRUE, index |-> NoIndex]
  /\ saving = NotSaving /\ crashes = 0 /\ overwrites = {}

StoreTypeOK ==
  /\ weights \in [StoredModel -> [StoredVersion -> {"absent", "partial", "whole"}]]
  /\ memIndex \in [StoredModel -> StoredVersion \cup {NoVersion}]
  /\ saving.at \in {"none", "copy", "index", "write"} /\ crashes \in 0 .. MaxCrashes
  /\ overwrites \subseteq StoredModel \X StoredVersion

(* copy2 truncates the file of that model and version, also when it is the *)
(* one the index names.                                                    *)
SaveModel(m, v) ==
  /\ saving = NotSaving
  /\ weights' = [weights EXCEPT ![m][v] = "partial"]
  /\ saving' = [at |-> "copy", m |-> {m}, v |-> {v}]
  /\ overwrites' = IF memIndex[m] = v THEN overwrites \cup {<<m, v>>} ELSE overwrites
  /\ UNCHANGED <<memIndex, diskIndex, crashes>>

Copied_index_first(m, v) ==
  /\ saving.at = "copy" /\ saving.m = {m} /\ saving.v = {v}
  /\ memIndex' = [memIndex EXCEPT ![m] = v]
  /\ diskIndex' = [readable |-> TRUE, index |-> memIndex']
  /\ saving' = [saving EXCEPT !.at = "index"]
  /\ UNCHANGED <<weights, crashes, overwrites>>

Copied(m, v) ==
  /\ saving.at = "copy" /\ saving.m = {m} /\ saving.v = {v}
  /\ weights' = [weights EXCEPT ![m][v] = "whole"]
  /\ saving' = [saving EXCEPT !.at = "index"]
  /\ overwrites' = overwrites \ {<<m, v>>}
  /\ UNCHANGED <<memIndex, diskIndex, crashes>>

(* The index in memory, and write_text has emptied the file.               *)
Indexed(m, v) ==
  /\ saving.at = "index" /\ saving.m = {m} /\ saving.v = {v}
  /\ memIndex' = [memIndex EXCEPT ![m] = v]
  /\ diskIndex' = [diskIndex EXCEPT !.readable = FALSE]
  /\ saving' = [saving EXCEPT !.at = "write"]
  /\ UNCHANGED <<weights, crashes, overwrites>>

SaveIndex ==
  /\ saving.at = "write"
  /\ diskIndex' = [readable |-> TRUE, index |-> memIndex]
  /\ saving' = NotSaving
  /\ UNCHANGED <<weights, memIndex, crashes, overwrites>>

(* The process ends and the next one reads the index.                      *)
Restart ==
  /\ crashes < MaxCrashes /\ crashes' = crashes + 1
  /\ memIndex' = LoadIndex(diskIndex)
  /\ saving' = NotSaving
  /\ UNCHANGED <<weights, diskIndex, overwrites>>

StoreNext ==
  \/ \E m \in StoredModel, v \in StoredVersion : SaveModel(m, v) \/ Copied(m, v) \/ Indexed(m, v)
  \/ SaveIndex \/ Restart

StoreSpec == StoreInit /\ [][StoreNext]_storeVars

---------------------------------------------------------------------------
(* Whenever load_model runs and wherever the process ended, it returns     *)
(* whole weights: they are copied before an index names them, in memory    *)
(* and on the disk.  The exception is a version saved again over the file  *)
(* an index names already: until that copy is complete, and for ever if    *)
(* the process ends in it, the file is torn.                               *)
LoadedIsWhole ==
  \A m \in StoredModel :
    \A index \in {memIndex, LoadIndex(diskIndex)} :
      \/ index[m] = NoVersion
      \/ weights[m][index[m]] = "whole"
      \/ <<m, index[m]>> \in overwrites

(* Without the exception: not so for a version saved again.                *)
LoadedIsAlwaysWhole ==
  \A m \in StoredModel :
    \A index \in {memIndex, LoadIndex(diskIndex)} :
      index[m] # NoVersion => weights[m][index[m]] = "whole"
=============================================================================
