------------------------- MODULE ReconnectUploader -------------------------
(***************************************************************************)
(* The asynchronous uploader of an edge node, class ReconnectUploader of   *)
(* services/edge_node/uploader/reconnect_uploader.py.  A call of start()   *)
(* reads the buffer of CircularBuffer batch by batch, posts each event and *)
(* acknowledges it; it remembers the events that failed and does not try   *)
(* them again.  Sensors go on writing, and several calls may overlap.      *)
(***************************************************************************)
EXTENDS Integers, Sequences, FiniteSets

CONSTANTS
  Event, Timestamp, MaxRows,  \* the buffer, see CircularBuffer
  Rejected,    \* events the pipeline never accepts
  Flaky,       \* requests may fail although the event is acceptable
  BatchSize,   \* batch_size
  RetryCount,  \* retry_count
  Drain        \* calls of start()

ASSUME UploaderAssumption ==
  /\ Timestamp \in [Event -> Nat] /\ MaxRows \in Nat \ {0}
  /\ Rejected \subseteq Event
  /\ Flaky \in BOOLEAN
  /\ {BatchSize, RetryCount} \subseteq Nat \ {0}

VARIABLES
  rows, evicted, written, acked,  \* the buffer
  pc,        \* where each call is
  pending,   \* events of the current batch it has still to handle
  attempt,   \* number of the next attempt for the head of pending
  failed,    \* failed_ids
  stored,    \* ghost: events the pipeline has stored
  late       \* ghost: events written after the last read of the call

buffer == <<rows, evicted, written, acked>>
call == <<pc, pending, attempt, failed>>
uploaderVars == <<buffer, call, stored, late>>

Buffer == INSTANCE CircularBuffer

UploaderTypeOK ==
  /\ Buffer!TypeOK
  /\ pc \in [Drain -> {"idle", "reading", "posting", "done"}]
  /\ pending \in [Drain -> Seq(Event)]
  /\ attempt \in [Drain -> 1..RetryCount]
  /\ failed \in [Drain -> SUBSET Event]
  /\ stored \subseteq Event
  /\ late \in [Drain -> SUBSET Event]

UploaderInit ==
  /\ Buffer!Init
  /\ pc = [d \in Drain |-> "idle"]
  /\ pending = [d \in Drain |-> <<>>]
  /\ attempt = [d \in Drain |-> 1]
  /\ failed = [d \in Drain |-> {}]
  /\ stored = {}
  /\ late = [d \in Drain |-> {}]

-----------------------------------------------------------------------------
SensorWrites(e) ==
  /\ e \notin written
  /\ Buffer!Write(e)
  /\ late' = [d \in Drain |-> late[d] \cup {e}]
  /\ UNCHANGED <<call, stored>>

Start(d) ==
  /\ pc[d] = "idle"
  /\ pc' = [pc EXCEPT ![d] = "reading"]
  /\ UNCHANGED <<buffer, pending, attempt, failed, stored, late>>

(* if not pending: break                                                   *)
Exhausted(b, d) == \A i \in DOMAIN b : b[i] \in failed[d]

(* [e for e in batch if e["_buffer_event_id"] not in failed_ids]: what is  *)
(* left of b, in its order.                                                *)
Untried(b, d) ==
  LET left == {i \in DOMAIN b : b[i] \notin failed[d]}
      orders == {q \in [1..Cardinality(left) -> left] : \A i, j \in DOMAIN q : i < j => q[i] < q[j]}
  IN {[i \in DOMAIN q |-> b[q[i]]] : q \in orders}

(* read_oldest, and the filter on failed_ids.  A batch of nothing but      *)
(* failed events ends the call, which emits reconnect_upload_complete.     *)
ReadBatch(d) ==
  /\ pc[d] = "reading"
  /\ \E b \in Buffer!Batches(BatchSize) : \E left \in Untried(b, d) :
       /\ pending' = [pending EXCEPT ![d] = left]
       /\ pc' = [pc EXCEPT ![d] = IF Exhausted(b, d) THEN "done" ELSE "posting"]
  /\ late' = [late EXCEPT ![d] = {}]
  /\ UNCHANGED <<buffer, attempt, failed, stored>>

(* On to the next pending event, or to the next batch.                     *)
NextEvent(d) ==
  /\ pending' = [pending EXCEPT ![d] = Tail(@)]
  /\ attempt' = [attempt EXCEPT ![d] = 1]
  /\ pc' = [pc EXCEPT ![d] = IF Len(pending[d]) = 1 THEN "reading" ELSE "posting"]

(* self._buffer.ack(buf_id)                                                *)
AckRow(e) == Buffer!Ack(e)

(* The pipeline answers 200; the row is acknowledged before the call       *)
(* awaits anything else.                                                   *)
PostAccepted(d) ==
  /\ pc[d] = "posting" /\ Head(pending[d]) \notin Rejected
  /\ LET e == Head(pending[d]) IN
       /\ stored' = stored \cup {e}
       /\ AckRow(e)
  /\ NextEvent(d)
  /\ UNCHANGED <<failed, late>>

GiveUp_unremembered(d, e) == UNCHANGED failed

(* The attempts for e are used up.                                         *)
GiveUp(d, e) == failed' = [failed EXCEPT ![d] = @ \cup {e}]

KeepRow_acked(e) == Buffer!Ack(e)

(* A failed event stays in the buffer.                                     *)
KeepRow(e) == UNCHANGED buffer

(* An attempt fails; the last one puts the event on failed_ids.            *)
PostFails(d) ==
  /\ pc[d] = "posting" /\ (Flaky \/ Head(pending[d]) \in Rejected)
  /\ IF attempt[d] < RetryCount
       THEN attempt' = [attempt EXCEPT ![d] = @ + 1] /\ UNCHANGED <<pc, pending, failed>>
       ELSE GiveUp(d, Head(pending[d])) /\ NextEvent(d)
  /\ KeepRow(Head(pending[d]))
  /\ UNCHANGED <<stored, late>>

Turn(d) == Start(d) \/ ReadBatch(d) \/ PostAccepted(d) \/ PostFails(d)

UploaderNext == (\E e \in Event : SensorWrites(e)) \/ (\E d \in Drain : Turn(d))

(* A call that was started is resumed by the event loop.                   *)
UploaderSpec == UploaderInit /\ [][UploaderNext]_uploaderVars /\ \A d \in Drain : WF_uploaderVars(ReadBatch(d) \/ PostAccepted(d) \/ PostFails(d))

-----------------------------------------------------------------------------

(* An event leaves the buffer only when the pipeline has stored it or with *)
(* an entry in the overflow log, however drains and writes overlap.        *)
NoEventLost == \A e \in written : e \in rows \cup evicted \cup stored

(* Overlapping calls implement HandOver, step by step: no call takes a row *)
(* away that the pipeline did not just store, none delivers what was never *)
(* written or is rejected, also when another call acknowledged the event   *)
(* or an overflow took it while this one held it.                          *)
Contract == INSTANCE HandOver WITH
  accepted <- written, waiting <- rows, logged <- evicted, delivered <- stored

ImplementsHandOver == Contract!Spec

(* A pass that gave up on fewer events than a batch holds leaves only      *)
(* these behind, and what was written after it looked last.                *)
CompleteMeansTried ==
  \A d \in Drain :
    pc[d] = "done" /\ Cardinality(failed[d]) < BatchSize => rows \subseteq failed[d] \cup late[d]

(* start(): "preventing an infinite loop on a record the pipeline keeps    *)
(* rejecting".  Every call ends, whatever the pipeline answers.            *)
StartReturns == \A d \in Drain : (pc[d] = "reading") ~> (pc[d] = "done")

(* reconnect_uploader.py: "When the buffer is drained, a                   *)
(* reconnect_upload_complete event is emitted".  A batch full of failed    *)
(* events hides the rest of the buffer and ends the call all the same.     *)
CompleteMeansDrained ==
  \A d \in Drain : pc[d] = "done" => rows \subseteq failed[d] \cup late[d]
=============================================================================
