---------------------------- MODULE InfluxWriter ----------------------------
(***************************************************************************)
(* The writer of sensor events to InfluxDB (influxdb_writer.py): a Kafka   *)
(* consumer, bounded retries, and a failure queue on the disk for what     *)
(* could not be written.  A write may reach the database and still be      *)
(* reported as failed; the process may end at any step and is started      *)
(* again by its deployment.  The consumer commits its position only when   *)
(* it is asked for the next message.                                       *)
(***************************************************************************)
EXTENDS Integers, Sequences, FiniteSets

CONSTANTS MaxOffset,     \* bound: messages of the log
          MaxAttempts,   \* length of RETRY_DELAYS: 3
          MaxRestarts    \* bound

(* What a message is: an event, no JSON, or JSON that is no event.         *)
MessageKinds == {"event", "malformed", "no_object"}

Uncommitted == 0  \* no committed offset

VARIABLES topicLog,   \* kinds of the messages, in order
          position,   \* messages the consumer has handed out
          committed,  \* offset committed, or Uncommitted
          writerAt,   \* "poll", "write", "exhausted", "enqueue" or "down"
          attempt,
          database,   \* offsets written to InfluxDB
          failed,     \* offsets in the failure queue
          skipped,    \* offsets a start behind them passed over
          restarts

influxVars ==
  <<topicLog, position, committed, writerAt, attempt, database, failed, skipped, restarts>>
storeOfEvents == <<database, failed, skipped>>

InfluxInit ==
  /\ topicLog = <<>> /\ position = 0 /\ committed = Uncommitted
  /\ writerAt = "poll" /\ attempt = 0
  /\ database = {} /\ failed = {} /\ skipped = {} /\ restarts = 0

InfluxTypeOK ==
  /\ topicLog \in Seq(MessageKinds) /\ position \in 0 .. Len(topicLog)
  /\ committed \in 0 .. MaxOffset
  /\ writerAt \in {"poll", "write", "exhausted", "enqueue", "down"}
  /\ attempt \in 0 .. MaxAttempts
  /\ database \cup failed \cup skipped \subseteq 1 .. MaxOffset /\ restarts \in 0 .. MaxRestarts

(* The environment: a message arrives on one of the topics.                *)
MessageArrives ==
  /\ Len(topicLog) < MaxOffset
  /\ \E k \in MessageKinds : topicLog' = Append(topicLog, k)
  /\ UNCHANGED <<position, committed, writerAt, attempt, storeOfEvents, restarts>>

(* enable_auto_commit: the position, at most every five seconds.           *)
AutoCommit_eager ==
  /\ writerAt \in {"poll", "write"} /\ committed # position /\ committed' = position
  /\ UNCHANGED <<topicLog, position, writerAt, attempt, storeOfEvents, restarts>>

AutoCommit ==
  /\ writerAt = "poll" /\ committed # position /\ committed' = position
  /\ UNCHANGED <<topicLog, position, writerAt, attempt, storeOfEvents, restarts>>

(* The next message: malformed JSON is logged and left; JSON that is no    *)
(* object ends the process in _build_record.                               *)
NextMessage ==
  /\ writerAt = "poll" /\ position < Len(topicLog)
  /\ position' = position + 1
  /\ writerAt' = CASE topicLog[position'] = "event" -> "write"
                   [] topicLog[position'] = "malformed" -> "poll"
                   [] topicLog[position'] = "no_object" -> "down"
  /\ attempt' = 1
  /\ UNCHANGED <<topicLog, committed, storeOfEvents, restarts>>

WriteSucceeds ==
  /\ writerAt = "write"
  /\ database' = database \cup {position} /\ writerAt' = "poll"
  /\ UNCHANGED <<topicLog, position, committed, attempt, failed, skipped, restarts>>

(* An attempt that raises, whether or not the database took the point.     *)
WriteRaises ==
  /\ writerAt = "write"
  /\ database' \in {database, database \cup {position}}
  /\ IF attempt < MaxAttempts
     THEN attempt' = attempt + 1 /\ UNCHANGED writerAt
     ELSE writerAt' = "exhausted" /\ UNCHANGED attempt
  /\ UNCHANGED <<topicLog, position, committed, failed, skipped, restarts>>

(* _emit_write_failure_alert: delivered or not, the event goes on.         *)
EmitWriteFailureAlert ==
  /\ writerAt = "exhausted" /\ writerAt' = "enqueue"
  /\ UNCHANGED <<topicLog, position, committed, attempt, storeOfEvents, restarts>>

Enqueued ==
  /\ writerAt = "enqueue"
  /\ failed' = failed \cup {position} /\ writerAt' = "poll"
  /\ UNCHANGED <<topicLog, position, committed, attempt, database, skipped, restarts>>

(* A queue that cannot be written, or the end of the process at any step.  *)
Ends ==
  /\ writerAt # "down" /\ writerAt' = "down"
  /\ UNCHANGED <<topicLog, position, committed, attempt, storeOfEvents, restarts>>

(* A new consumer of the group: from the committed offset, or from the end *)
(* of the log if there is none (auto_offset_reset).                        *)
StartAgain ==
  /\ writerAt = "down" /\ restarts < MaxRestarts /\ restarts' = restarts + 1
  /\ position' = IF committed = Uncommitted THEN Len(topicLog) ELSE committed
  /\ skipped' = IF committed = Uncommitted THEN skipped \cup 1 .. Len(topicLog) ELSE skipped
  /\ writerAt' = "poll"
  /\ UNCHANGED <<topicLog, committed, attempt, database, failed>>

InfluxNext ==
  \/ MessageArrives \/ AutoCommit \/ NextMessage \/ WriteSucceeds \/ WriteRaises
  \/ EmitWriteFailureAlert \/ Enqueued \/ Ends \/ StartAgain

InfluxSpec == InfluxInit /\ [][InfluxNext]_influxVars

---------------------------------------------------------------------------
(* An event behind the committed offset is in the database or in the       *)
(* failure queue, whatever failed and wherever the process ended; only a   *)
(* start before the first commit passes events over.                       *)
NothingDiscarded ==
  \A o \in 1 .. committed :
    topicLog[o] = "event" => o \in database \cup failed \cup skipped
=============================================================================
