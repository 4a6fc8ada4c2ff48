-------------------------- MODULE SchemaValidator --------------------------
(***************************************************************************)
(* The schema validator job                                                *)
(* (flink_jobs/schema_validator/schema_validator_job.py) on Flink: one     *)
(* task, its Kafka source and its exactly-once sink.  What Flink does at a *)
(* checkpoint and at a restart is taken from its use here: the source's    *)
(* offset and the sink's transaction belong to the checkpoint, which is    *)
(* complete before the transaction is committed; a failure aborts what is  *)
(* not in a checkpoint and commits what is.  The broker aborts by itself a *)
(* transaction that is older than its timeout.                             *)
(***************************************************************************)
EXTENDS Integers, Sequences

CONSTANTS MaxRecords, MaxFailures  \* bounds

VARIABLES
  sensorLog,    \* records in the source's partition, in order
  consumed,     \* the source's offset: records read
  transaction,  \* messages of the open transaction
  prepared,     \* messages of a checkpoint that is complete, not yet committed
  checkpoint,   \* the offset of the last complete checkpoint; -1 if there is none
  started,      \* the offset the job first read from
  routedOut,    \* messages committed to the output topics
  expired,      \* ghost: records of checkpointed transactions that the broker aborted
  jobFailures

validatorVars ==
  <<sensorLog, consumed, transaction, prepared, checkpoint, started, routedOut, expired, jobFailures>>
sinkVars == <<prepared, checkpoint, started, routedOut, expired>>

(* What json.loads and the schema make of a record.  "no object" is JSON   *)
(* that is neither an object nor valid: event.get raises in flat_map.      *)
RecordKind == {"valid", "invalid", "malformed", "no object"}

(* What flat_map yields for record i.  The topic of the record             *)
(* is not known to it: every valid event goes to "unknown_validated".      *)
DeadLetter(i) == [topic |-> "dead-letter.schema-failures", record |-> i]
Alert(i) == [topic |-> "monitoring.alerts", record |-> i]

FlatMap(i) ==
  IF sensorLog[i] = "valid" THEN <<[topic |-> "track.sensor.unknown_validated", record |-> i]>>
  ELSE <<DeadLetter(i), Alert(i)>>

Yields == [i \in DOMAIN sensorLog |-> FlatMap(i)]

(* The messages are what these records yield, one record after the other.  *)
IsOutput(messages, yields, indices) ==
  /\ \A k \in DOMAIN messages : messages[k].record \in indices
  /\ \A k, l \in DOMAIN messages : k <= l => messages[k].record <= messages[l].record
  /\ \A i \in indices : \E k \in 0 .. Len(messages) :
       /\ {l \in DOMAIN messages : messages[l].record = i} = k + 1 .. k + Len(yields[i])
       /\ \A j \in 1 .. Len(yields[i]) : messages[k + j] = yields[i][j]

(* Records sent before the job's first start are not read.                 *)
ValidatorInit ==
  /\ sensorLog \in {<<>>, <<"valid">>} /\ started = Len(sensorLog) /\ consumed = started
  /\ transaction = <<>> /\ prepared = <<>> /\ checkpoint = -1
  /\ routedOut = <<>> /\ expired = {} /\ jobFailures = 0

ValidatorTypeOK ==
  /\ sensorLog \in Seq(RecordKind) /\ Len(sensorLog) <= MaxRecords
  /\ consumed \in 0 .. Len(sensorLog) /\ checkpoint \in -1 .. consumed
  /\ jobFailures \in 0 .. MaxFailures

RecordArrives ==
  /\ Len(sensorLog) < MaxRecords
  /\ \E kind \in RecordKind : sensorLog' = Append(sensorLog, kind)
  /\ UNCHANGED <<consumed, transaction, sinkVars, jobFailures>>

(* DeliveryGuarantee.EXACTLY_ONCE: the sink writes within a transaction.   *)
Produce_at_least_once(messages) ==
  routedOut' = routedOut \o messages /\ UNCHANGED transaction

Produce(messages) ==
  transaction' = transaction \o messages /\ UNCHANGED routedOut

ValidateRecord ==
  /\ consumed < Len(sensorLog) /\ sensorLog[consumed + 1] # "no object"
  /\ consumed' = consumed + 1
  /\ Produce(FlatMap(consumed + 1))
  /\ UNCHANGED <<sensorLog, prepared, checkpoint, started, expired, jobFailures>>

(* enable_checkpointing: every 10 s, one at a time.                        *)
TakeCheckpoint ==
  /\ prepared = <<>> /\ checkpoint # consumed
  /\ checkpoint' = consumed /\ prepared' = transaction /\ transaction' = <<>>
  /\ UNCHANGED <<sensorLog, consumed, started, routedOut, expired, jobFailures>>

CommitTransaction ==
  /\ prepared # <<>>
  /\ routedOut' = routedOut \o prepared /\ prepared' = <<>>
  /\ UNCHANGED <<sensorLog, consumed, transaction, checkpoint, started, expired, jobFailures>>

RecordsOf(messages) == {messages[k].record : k \in DOMAIN messages}

(* transaction.timeout.ms: a checkpoint that takes too long, or a job that *)
(* is down too long after it, does not come to commit before the broker    *)
(* aborts; the commit is then given up.  When the open transaction expires *)
(* the job fails.                                                          *)
TransactionExpires ==
  /\ prepared # <<>> /\ prepared' = <<>>
  /\ expired' = expired \cup RecordsOf(prepared)
  /\ UNCHANGED <<sensorLog, consumed, transaction, checkpoint, started, routedOut, jobFailures>>

(* The task or its machine fails, or flat_map raises; the job goes on from *)
(* its last checkpoint.  Without one it starts from the latest record.     *)
JobRestarts ==
  /\ jobFailures < MaxFailures /\ jobFailures' = jobFailures + 1
  /\ transaction' = <<>>
  /\ IF checkpoint = -1
       THEN consumed' = Len(sensorLog) /\ started' = consumed' /\ UNCHANGED <<prepared, routedOut>>
       ELSE /\ consumed' = checkpoint /\ routedOut' = routedOut \o prepared /\ prepared' = <<>>
            /\ UNCHANGED started
  /\ UNCHANGED <<sensorLog, checkpoint, expired>>

ValidatorNext ==
  \/ RecordArrives \/ ValidateRecord \/ TakeCheckpoint \/ CommitTransaction
  \/ TransactionExpires \/ JobRestarts

ValidatorSpec == ValidatorInit /\ [][ValidatorNext]_validatorVars

---------------------------------------------------------------------------
(* The records read up to the last complete checkpoint.                    *)
Checkpointed == IF checkpoint = -1 THEN started ELSE checkpoint

Answerable == started + 1 .. Checkpointed

(* Consumers of the output topics, who read what is committed, see each    *)
(* record since the job's start once and in order, an invalid one as a     *)
(* dead letter with its alert, however often the job fails, and nothing of *)
(* a record the job may read again.  Only what the broker aborted after a  *)
(* checkpoint is missing, the whole of it.                                 *)
ValidatedOnce == IsOutput(routedOut \o prepared, Yields, Answerable \ expired)

(* schema_validator_job.py: "Exactly-once delivery via Kafka               *)
(* checkpointing".  Nothing is missing.                                    *)
NothingExpires == IsOutput(routedOut \o prepared, Yields, Answerable)
=============================================================================
