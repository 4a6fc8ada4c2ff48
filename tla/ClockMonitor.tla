---------------------------- MODULE ClockMonitor ----------------------------
(***************************************************************************)
(* The clock monitor of a node (clock_monitor.py): a poll of the kernel's  *)
(* clock every second, a flag file for the adapters of the pod, alerts.    *)
(* The producer may raise KafkaError, which is logged where it happens, or *)
(* something else, which leaves the poll; the file may not be writable;    *)
(* the process may end at any step and is started again.                   *)
(***************************************************************************)
EXTENDS Integers

CONSTANTS Cooldown,  \* polls between two drift alerts: 60
          MaxPolls   \* bound

ASSUME ClockAssumption == Cooldown \in Nat /\ MaxPolls \in Nat

VARIABLES flagFile,      \* what read_clock_status finds in the file
          prevReliable,
          cooldown,
          monitorAt,     \* "sleep", "publish", "open", "write" or "drift"
          measured,      \* what this poll measured
          wrote,         \* the last write of the flag by this process: none, ok, failed
          polls,         \* polls of this process
          lastDriftAlert \* the poll of the last drift alert; 0 if none

monitorVars ==
  <<flagFile, prevReliable, cooldown, monitorAt, measured, wrote, polls, lastDriftAlert>>

NoFlag == [found |-> FALSE, reliable |-> TRUE]
Flag(reliable) == [found |-> TRUE, reliable |-> reliable]

(* read_clock_status: a file that is missing or torn counts as reliable.   *)
ReadClockStatus == flagFile.found => flagFile.reliable

MonitorStart ==
  /\ prevReliable' = TRUE /\ cooldown' = 0 /\ monitorAt' = "sleep"
  /\ wrote' = "none" /\ polls' = 0 /\ lastDriftAlert' = 0

MonitorInit ==
  /\ flagFile = NoFlag
  /\ prevReliable = TRUE /\ cooldown = 0 /\ monitorAt = "sleep"
  /\ measured = [reliable |-> TRUE, drifted |-> FALSE]
  /\ wrote = "none" /\ polls = 0 /\ lastDriftAlert = 0

MonitorTypeOK ==
  /\ {prevReliable, flagFile.found, flagFile.reliable} \subseteq BOOLEAN
  /\ cooldown \in 0 .. Cooldown
  /\ monitorAt \in {"sleep", "publish", "open", "write", "drift"}
  /\ wrote \in {"none", "ok", "failed"} /\ {polls, lastDriftAlert} \subseteq 0 .. MaxPolls

(* get_clock_drift_ms; then, on a change, the event and the flag.          *)
Measure ==
  /\ monitorAt = "sleep" /\ polls < MaxPolls /\ polls' = polls + 1
  /\ measured' \in [reliable : BOOLEAN, drifted : BOOLEAN]
  /\ monitorAt' = IF ~measured'.reliable /\ prevReliable THEN "publish"
                  ELSE IF measured'.reliable /\ ~prevReliable THEN "open" ELSE "drift"
  /\ UNCHANGED <<flagFile, prevReliable, cooldown, wrote, lastDriftAlert>>

PublishUnreliable ==
  /\ monitorAt = "publish" /\ monitorAt' = "open"
  /\ UNCHANGED <<flagFile, prevReliable, cooldown, measured, wrote, polls, lastDriftAlert>>

(* An exception other than KafkaError ends the poll where it is.           *)
PublishRaises_late ==
  /\ monitorAt = "publish" /\ monitorAt' = "sleep"
  /\ prevReliable' = measured.reliable
  /\ UNCHANGED <<flagFile, cooldown, measured, wrote, polls, lastDriftAlert>>

PublishRaises ==
  /\ monitorAt = "publish" /\ monitorAt' = "sleep"
  /\ UNCHANGED <<flagFile, prevReliable, cooldown, measured, wrote, polls, lastDriftAlert>>

MeasureRaises ==
  /\ monitorAt = "sleep" /\ polls < MaxPolls /\ polls' = polls + 1
  /\ UNCHANGED <<flagFile, prevReliable, cooldown, monitorAt, measured, wrote, lastDriftAlert>>

(* write_clock_status: the file is emptied, then written; OSError is       *)
(* logged and the poll goes on.                                            *)
OpenFlag ==
  /\ monitorAt = "open" /\ flagFile' = NoFlag /\ monitorAt' = "write"
  /\ UNCHANGED <<prevReliable, cooldown, measured, wrote, polls, lastDriftAlert>>

WriteFlag ==
  /\ monitorAt = "write" /\ flagFile' = Flag(measured.reliable)
  /\ wrote' = "ok" /\ monitorAt' = "drift"
  /\ UNCHANGED <<prevReliable, cooldown, measured, polls, lastDriftAlert>>

WriteFails ==
  /\ monitorAt \in {"open", "write"} /\ wrote' = "failed" /\ monitorAt' = "drift"
  /\ UNCHANGED <<flagFile, prevReliable, cooldown, measured, polls, lastDriftAlert>>

CheckDrift_unarmed ==
  /\ monitorAt = "drift"
  /\ prevReliable' = measured.reliable
  /\ LET due == measured.reliable /\ measured.drifted /\ cooldown <= 0
     IN /\ lastDriftAlert' = IF due THEN polls ELSE lastDriftAlert
        /\ cooldown' = IF cooldown > 0 THEN cooldown - 1 ELSE cooldown
  /\ monitorAt' = "sleep"
  /\ UNCHANGED <<flagFile, measured, wrote, polls>>

(* The rest of the poll: the state is kept, and a drift of a reliable      *)
(* clock is alerted unless one was within the cooldown.                    *)
CheckDrift ==
  /\ monitorAt = "drift"
  /\ prevReliable' = measured.reliable
  /\ LET due == measured.reliable /\ measured.drifted /\ cooldown <= 0
         left == IF due THEN Cooldown ELSE cooldown
     IN /\ lastDriftAlert' = IF due THEN polls ELSE lastDriftAlert
        /\ cooldown' = IF left > 0 THEN left - 1 ELSE left
  /\ monitorAt' = "sleep"
  /\ UNCHANGED <<flagFile, measured, wrote, polls>>

(* Publishing the drift alert raises: it counts as not sent.               *)
DriftRaises ==
  /\ monitorAt = "drift" /\ measured.reliable /\ measured.drifted /\ cooldown <= 0
  /\ prevReliable' = TRUE /\ monitorAt' = "sleep"
  /\ UNCHANGED <<flagFile, cooldown, measured, wrote, polls, lastDriftAlert>>

MonitorRestarts == MonitorStart /\ UNCHANGED <<flagFile, measured>>

MonitorNext ==
  \/ Measure \/ MeasureRaises \/ PublishUnreliable \/ PublishRaises \/ OpenFlag \/ WriteFlag \/ WriteFails
  \/ CheckDrift \/ DriftRaises \/ MonitorRestarts

MonitorSpec == MonitorInit /\ [][MonitorNext]_monitorVars

---------------------------------------------------------------------------
(* Between two polls the adapters read what the monitor last saw of the    *)
(* clock, if its last write of the flag came through: a poll that an       *)
(* exception leaves before the write is made up for by the next one.       *)
FlagFollowsClock ==
  monitorAt = "sleep" /\ wrote = "ok" => ReadClockStatus = prevReliable

(* Two drift alerts of a process are at least the cooldown apart, also     *)
(* when polls between them fail.                                           *)
DriftAlertIsSpaced ==
  lastDriftAlert # 0 /\ lastDriftAlert' > lastDriftAlert
    => lastDriftAlert' - lastDriftAlert >= Cooldown

(* What the monitor tells the pod and the operators is true of the clock,  *)
(* after whatever step of a poll: the flag follows the clock, and a clock  *)
(* that drifts on is not reported again within the cooldown.               *)
ClockIsReported == [][FlagFollowsClock' /\ DriftAlertIsSpaced]_monitorVars
=============================================================================
