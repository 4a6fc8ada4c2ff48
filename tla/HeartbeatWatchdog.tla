-------------------------- MODULE HeartbeatWatchdog --------------------------
(***************************************************************************)
(* The feed watchdog                                                       *)
(* (services/pipeline/heartbeat_watchdog/heartbeat_watchdog.py).  The      *)
(* consumer thread records messages; the watchdog thread reads the clock,  *)
(* takes the lock and goes through the topics, sending FEED_UNAVAILABLE    *)
(* for the silent ones with the lock held.  A send takes time and fails    *)
(* while Kafka does not answer, which is only logged.                      *)
(***************************************************************************)
EXTENDS Integers, FiniteSets

CONSTANTS
  Topic,      \* _topics
  Timeout,    \* HEARTBEAT_TIMEOUT_S, in units of time
  MaxLate,    \* bound: time a pass takes from reading the clock to its end
  MaxAge,     \* bound: ages are cut off here
  MaxOutages  \* bound: Kafka outages

ASSUME WatchdogAssumption ==
  /\ {Timeout, MaxLate, MaxAge, MaxOutages} \subseteq Nat
  /\ 0 < Timeout /\ Timeout + MaxLate <= MaxAge

VARIABLES
  age,      \* time since the last recorded message of a topic
  alerted,  \* _alerted
  pass,     \* what check_all does: sleeps, waits for the lock, holds it
  todo,     \* topics it still goes through
  late,     \* time since check_all read the clock
  kafka,    \* whether Kafka answers
  outages,  \* outages so far
  alertsSent  \* alerts sent since the last recorded message of a topic, at most 2

watchdogVars == <<age, alerted, pass, todo, late, kafka, outages, alertsSent>>

WatchdogTypeOK ==
  /\ age \in [Topic -> 0..MaxAge]
  /\ alerted \in [Topic -> BOOLEAN]
  /\ pass \in {"sleeps", "waits", "checks"}
  /\ todo \subseteq Topic /\ (todo # {} => pass = "checks")
  /\ late \in 0..MaxLate
  /\ kafka \in BOOLEAN /\ outages \in 0..MaxOutages
  /\ alertsSent \in [Topic -> 0..2]

WatchdogInit ==
  /\ age = [t \in Topic |-> 0]
  /\ alerted = [t \in Topic |-> FALSE]
  /\ pass = "sleeps" /\ todo = {} /\ late = 0
  /\ kafka = TRUE /\ outages = 0
  /\ alertsSent = [t \in Topic |-> 0]

Older(k) == IF k < MaxAge THEN k + 1 ELSE k

TimePasses ==
  /\ late < MaxLate
  /\ age' = [t \in Topic |-> Older(age[t])]
  /\ late' = IF pass = "sleeps" THEN 0 ELSE late + 1
  /\ UNCHANGED <<alerted, pass, todo, kafka, outages, alertsSent>>

KafkaFails ==
  /\ kafka /\ outages < MaxOutages
  /\ kafka' = FALSE /\ outages' = outages + 1
  /\ UNCHANGED <<age, alerted, pass, todo, late, alertsSent>>

KafkaRecovers ==
  /\ ~kafka /\ kafka' = TRUE
  /\ UNCHANGED <<age, alerted, pass, todo, late, outages, alertsSent>>

AlertedAfterMessage_kept(t) == alerted[t]

(* record_message clears _alerted.                                         *)
AlertedAfterMessage(t) == FALSE

(* record_message, which waits for the lock.                               *)
RecordMessage(t) ==
  /\ pass # "checks"
  /\ age' = [age EXCEPT ![t] = 0]
  /\ alerted' = [alerted EXCEPT ![t] = AlertedAfterMessage(t)]
  /\ alertsSent' = [alertsSent EXCEPT ![t] = 0]
  /\ UNCHANGED <<pass, todo, late, kafka, outages>>

(* check_all reads the clock and then takes the lock.                      *)
ReadClock ==
  /\ pass = "sleeps" /\ pass' = "waits" /\ late' = 0
  /\ UNCHANGED <<age, alerted, todo, kafka, outages, alertsSent>>

TakeLock ==
  /\ pass = "waits" /\ pass' = "checks" /\ todo' = Topic
  /\ UNCHANGED <<age, alerted, late, kafka, outages, alertsSent>>

(* elapsed >= HEARTBEAT_TIMEOUT_S, by the clock as it was read.            *)
Silent(t) == age[t] - late >= Timeout

MustAlert_again(t) == Silent(t)

MustAlert(t) == Silent(t) /\ ~alerted[t]

(* One topic of the loop, with _emit_alert.                                *)
CheckTopic(t) ==
  /\ t \in todo
  /\ todo' = todo \ {t}
  /\ IF MustAlert(t)
       THEN /\ alerted' = [alerted EXCEPT ![t] = TRUE]
            /\ alertsSent' = [alertsSent EXCEPT ![t] = IF kafka /\ @ < 2 THEN @ + 1 ELSE @]
       ELSE UNCHANGED <<alerted, alertsSent>>
  /\ UNCHANGED <<age, pass, late, kafka, outages>>

EndCheck ==
  /\ pass = "checks" /\ todo = {}
  /\ pass' = "sleeps" /\ late' = 0
  /\ UNCHANGED <<age, alerted, todo, kafka, outages, alertsSent>>

(* _watchdog_loop                                                          *)
Watch == ReadClock \/ TakeLock \/ EndCheck \/ \E t \in Topic : CheckTopic(t)

WatchdogNext ==
  \/ TimePasses \/ KafkaFails \/ KafkaRecovers
  \/ \E t \in Topic : RecordMessage(t)
  \/ Watch

(* The watchdog loop runs, time passes and Kafka comes back; messages may  *)
(* or may not arrive.                                                      *)
WatchdogSpec == WatchdogInit /\ [][WatchdogNext]_watchdogVars /\ WF_watchdogVars(Watch) /\ WF_watchdogVars(TimePasses) /\ WF_watchdogVars(KafkaRecovers)

-----------------------------------------------------------------------------
(* A feed is reported at most once for each time it falls silent, and only *)
(* when it has been silent for the whole timeout, although the clock was   *)
(* read before the lock was taken and sending for other feeds takes time.  *)
ReportsAreTrue == \A t \in Topic : alertsSent[t] <= 1 /\ (alertsSent[t] > 0 => age[t] >= Timeout)

StaysSilent(t) == age[t] = MaxAge
WasReported(t) == alertsSent[t] > 0 \/ age[t] < Timeout

(* A feed that was heard after the last outage and stays silent is         *)
(* reported, whatever was reported or lost before, and no feed is reported *)
(* without a cause.                                                        *)
LaterSilenceIsReported ==
  /\ []ReportsAreTrue
  /\ \A t \in Topic :
    [](kafka /\ outages = MaxOutages /\ age[t] = 0 => [](StaysSilent(t) => <>WasReported(t)))

(* heartbeat_watchdog.py: "emits FEED_UNAVAILABLE when silent for 10 s".   *)
(* A feed that stays silent is reported.                                   *)
SilenceIsReported == \A t \in Topic : StaysSilent(t) ~> WasReported(t)
=============================================================================
