---------------------------- MODULE ZoneIsolator ----------------------------
(***************************************************************************)
(* Geographic failure isolation                                            *)
(* (services/pipeline/geographic_isolation/zone_isolator.py): a zone is    *)
(* isolated after a number of alerts and restored by a caller.  Isolation  *)
(* reports and stops the zone's Flink deployment with the lock held;       *)
(* restoring reports after the lock was released.  Reports and kubectl may *)
(* fail, which is only logged.                                             *)
(***************************************************************************)
EXTENDS Integers, FiniteSets

CONSTANTS
  Zone,
  ZoneThreshold,   \* _zone_alert_threshold
  Restorer,    \* threads that call restore_zone
  NotRestoring,    \* a thread that does not
  MaxAlerts    \* bound: alerts of a zone after it was isolated

ASSUME IsolatorAssumption ==
  /\ ZoneThreshold \in Nat \ {0} /\ MaxAlerts \in Nat
  /\ NotRestoring \notin Zone

VARIABLES
  degraded,    \* _zone_degraded
  count,       \* _zone_alert_counts
  restoring,   \* the zone each restorer has restored and not reported
  reported,    \* last status of a zone on monitoring.alerts
  flink,       \* whether the zone's deployment has replicas
  alertsSince  \* alerts of a zone since it was last restored

isolatorVars == <<degraded, count, restoring, reported, flink, alertsSince>>

Limit == ZoneThreshold + MaxAlerts

IsolatorTypeOK ==
  /\ degraded \in [Zone -> BOOLEAN]
  /\ count \in [Zone -> 0..Limit]
  /\ restoring \in [Restorer -> Zone \cup {NotRestoring}]
  /\ reported \in [Zone -> {"RESTORED", "ISOLATED"}]
  /\ flink \in [Zone -> BOOLEAN]
  /\ alertsSince \in [Zone -> 0..Limit]

IsolatorInit ==
  /\ degraded = [z \in Zone |-> FALSE]
  /\ count = [z \in Zone |-> 0]
  /\ restoring = [r \in Restorer |-> NotRestoring]
  /\ reported = [z \in Zone |-> "RESTORED"]
  /\ flink = [z \in Zone |-> TRUE]
  /\ alertsSince = [z \in Zone |-> 0]

(* _emit_zone_status, which may fail.                                      *)
Reported(z, status) == reported' \in {reported, [reported EXCEPT ![z] = status]}

(* _isolate_flink_processing_unit, which may fail.                         *)
Stopped(z) == flink' \in {flink, [flink EXCEPT ![z] = FALSE]}

(* The alert takes the zone into isolation.                                *)
Enters(z) == ~degraded[z] /\ count[z] + 1 >= ZoneThreshold

(* record_zone_alert                                                       *)
RecordAlert(z) ==
  /\ count[z] < Limit
  /\ count' = [count EXCEPT ![z] = @ + 1]
  /\ alertsSince' = [alertsSince EXCEPT ![z] = @ + 1]
  /\ IF Enters(z)
       THEN /\ degraded' = [degraded EXCEPT ![z] = TRUE]
            /\ Reported(z, "ISOLATED")
            /\ Stopped(z)
       ELSE UNCHANGED <<degraded, reported, flink>>
  /\ UNCHANGED restoring

CountAfterRestore_kept(z) == count[z]

CountAfterRestore(z) == 0

(* restore_zone, with the lock.                                            *)
Restore(r, z) ==
  /\ restoring[r] = NotRestoring
  /\ degraded' = [degraded EXCEPT ![z] = FALSE]
  /\ count' = [count EXCEPT ![z] = CountAfterRestore(z)]
  /\ alertsSince' = [alertsSince EXCEPT ![z] = 0]
  /\ restoring' = [restoring EXCEPT ![r] = z]
  /\ UNCHANGED <<reported, flink>>

(* restore_zone, after the lock.                                           *)
ReportRestored(r) ==
  /\ restoring[r] # NotRestoring
  /\ Reported(restoring[r], "RESTORED")
  /\ restoring' = [restoring EXCEPT ![r] = NotRestoring]
  /\ UNCHANGED <<degraded, count, flink, alertsSince>>

IsolatorNext ==
  \/ \E z \in Zone : RecordAlert(z)
  \/ \E r \in Restorer : ReportRestored(r) \/ \E z \in Zone : Restore(r, z)

IsolatorSpec == IsolatorInit /\ [][IsolatorNext]_isolatorVars

-----------------------------------------------------------------------------
(* A zone is isolated exactly while enough alerts of its own have come in  *)
(* since it was last restored; alerts of other zones and overlapping       *)
(* restores do not count.                                                  *)
IsolationIsEarned == \A z \in Zone : degraded[z] <=> alertsSince[z] >= ZoneThreshold

NobodyRestores(z) == \A r \in Restorer : restoring[r] # z

(* zone_isolator.py: "Restore a zone from isolation".  When a zone is      *)
(* reported as restored, it is.                                            *)
ReportsAreInOrder ==
  [][\A r \in Restorer :
       LET z == restoring[r] IN
         ReportRestored(r) /\ reported'[z] = "RESTORED" /\ reported[z] # "RESTORED" => ~degraded[z]]_isolatorVars

(* zone_isolator.py: "Restore a zone from isolation".  The deployment of a *)
(* zone that was restored runs again.                                      *)
RestoredRuns == \A z \in Zone : ~degraded[z] /\ NobodyRestores(z) => flink[z]
=============================================================================
