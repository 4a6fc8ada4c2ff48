------------------------------ MODULE EdgeNode ------------------------------
(***************************************************************************)
(* An edge node at a station (services/edge_node): the heartbeat thread    *)
(* with its three-state machine, the event buffer of CircularBuffer and    *)
(* the synchronous drain upload_buffered_events.                           *)
(*                                                                         *)
(* Sensors write into the buffer all the time.  The heartbeat thread beats *)
(* against the central pipeline and, on the first success after an outage, *)
(* uploads the buffer from within the state-change callback of the         *)
(* machine, so with the lock of the machine held.  The node may lose power *)
(* at any moment; the buffer is on disk, everything else starts afresh.    *)
(***************************************************************************)
EXTENDS Integers, Sequences, FiniteSets

CONSTANTS
  Event, Timestamp, MaxRows,  \* the buffer, see CircularBuffer
  Rejected,     \* events the pipeline never accepts
  BatchSize,    \* BATCH_SIZE
  MaxRetries,   \* MAX_RETRIES
  Window,       \* WINDOW_S
  RefusedBeat,  \* least time between two beats that fail at once
  TimedOutBeat, \* least time between two beats that run into the timeout
  MaxFaults     \* bound on power losses, lost answers and buffer errors

FailureThreshold == 3

ASSUME EdgeAssumption ==
  /\ Timestamp \in [Event -> Nat]
  /\ Rejected \subseteq Event
  /\ {MaxRows, BatchSize, MaxRetries, RefusedBeat, TimedOutBeat} \subseteq Nat \ {0}
  /\ {Window, MaxFaults} \subseteq Nat

VARIABLES
  rows, evicted, written, acked,  \* the buffer
  link,      \* what a request to the pipeline meets: "up", "refusing" or "blackhole"
  state,     \* _state of HeartbeatFSM
  failures,  \* _failures, as the ages of the failures at the last beat
  locked,    \* _lock of HeartbeatFSM is held by the heartbeat thread
  thread,    \* where the heartbeat thread is
  batch,     \* events of the current batch not handled yet
  attempt,   \* number of the next attempt for the head of batch
  copies,    \* ghost: how often the pipeline stored each event
  streak,    \* ghost: heartbeats failed since the last success or start
  faults     \* ghost: power losses, lost answers and buffer errors so far

buffer == <<rows, evicted, written, acked>>
upload == <<batch, attempt, copies>>
fsm == <<state, failures, locked, streak>>
vars == <<buffer, link, fsm, thread, upload, faults>>

Buffer == INSTANCE CircularBuffer

State == {"CONNECTED", "AUTONOMOUS", "RECONNECTING"}
Draining == {"reading", "posting", "acking", "drained"}

TypeOK ==
  /\ Buffer!TypeOK
  /\ link \in {"up", "refusing", "blackhole"}
  /\ state \in State
  /\ failures \subseteq 0..Window
  /\ locked \in BOOLEAN
  /\ thread \in {"sleeping", "blocked"} \cup Draining
  /\ batch \in Seq(Event)
  /\ attempt \in 1..MaxRetries
  /\ copies \in [Event -> Nat]
  /\ streak \in 0..FailureThreshold
  /\ faults \in 0..MaxFaults

Init ==
  /\ Buffer!Init
  /\ link = "up"
  /\ state = "CONNECTED" /\ failures = {} /\ locked = FALSE
  /\ thread = "sleeping" /\ batch = <<>> /\ attempt = 1
  /\ copies = [e \in Event |-> 0]
  /\ streak = 0 /\ faults = 0

-----------------------------------------------------------------------------
(* The environment.                                                        *)

(* A sensor writes a new event.                                            *)
SensorWrites(e) ==
  /\ e \notin written
  /\ Buffer!Write(e)
  /\ UNCHANGED <<link, fsm, thread, upload, faults>>

LinkChanges ==
  /\ link' \in {"up", "refusing", "blackhole"} \ {link}
  /\ UNCHANGED <<buffer, fsm, thread, upload, faults>>

(* Power is lost and comes back: main() runs again on the old database.    *)
Restart ==
  /\ faults < MaxFaults /\ faults' = faults + 1
  /\ state' = "CONNECTED" /\ failures' = {} /\ locked' = FALSE /\ streak' = 0
  /\ thread' = "sleeping" /\ batch' = <<>> /\ attempt' = 1
  /\ UNCHANGED <<buffer, link, copies>>

-----------------------------------------------------------------------------
(* The heartbeat loop.                                                     *)

(* The failures a beat remembers that ends d after the previous one.       *)
Aged(d) == {age + d : age \in failures} \cap (0..Window)

(* _failures.clear() of record_heartbeat_success.                          *)
ClearedBySuccess == {}

(* record_heartbeat_success: the first success after an outage starts the  *)
(* drain, inside _transition and thus with the lock held.                  *)
BeatSucceeds ==
  /\ thread = "sleeping" /\ link = "up" /\ ~locked
  /\ failures' = ClearedBySuccess /\ streak' = 0
  /\ IF state = "AUTONOMOUS"
       THEN state' = "RECONNECTING" /\ thread' = "reading" /\ locked' = TRUE
       ELSE UNCHANGED <<state, thread, locked>>
  /\ UNCHANGED <<buffer, link, upload, faults>>

Threshold_exceeded == FailureThreshold + 1

(* FAILURE_THRESHOLD as record_heartbeat_failure compares with it.         *)
Threshold == FailureThreshold

(* record_heartbeat_failure, d after the previous beat.                    *)
BeatFails(d) ==
  /\ thread = "sleeping" /\ ~locked
  /\ failures' = Aged(d) \cup {0}
  /\ state' = IF state = "CONNECTED" /\ Cardinality(failures') >= Threshold
                THEN "AUTONOMOUS" ELSE state
  /\ streak' = IF streak < FailureThreshold THEN streak + 1 ELSE streak
  /\ UNCHANGED <<buffer, link, locked, thread, upload, faults>>

(* A refused request fails at once, one that gets no answer after 5 s; both *)
(* come on top of the 10 s the loop sleeps.                                *)
BeatRefused == link = "refusing" /\ BeatFails(RefusedBeat)

BeatTimesOut == link = "blackhole" /\ BeatFails(TimedOutBeat)

-----------------------------------------------------------------------------
(* _do_reconnect_upload and upload_buffered_events, on the heartbeat       *)
(* thread.                                                                 *)

(* read_oldest; an empty batch ends the drain.                             *)
ReadBatch ==
  /\ thread = "reading"
  /\ \E b \in Buffer!Batches(BatchSize) :
       /\ batch' = b
       /\ thread' = IF b = <<>> THEN "drained" ELSE "posting"
  /\ attempt' = 1
  /\ UNCHANGED <<buffer, link, fsm, copies, faults>>

(* The loop goes on to the next event of the batch, or to the next batch.  *)
NextEvent ==
  /\ batch' = Tail(batch) /\ attempt' = 1
  /\ thread' = IF Len(batch) = 1 THEN "reading" ELSE "posting"

(* The POST is answered with 200.                                          *)
PostAccepted ==
  /\ thread = "posting" /\ link = "up" /\ Head(batch) \notin Rejected
  /\ copies' = [copies EXCEPT ![Head(batch)] = @ + 1]
  /\ thread' = "acking"
  /\ UNCHANGED <<buffer, link, fsm, batch, attempt, faults>>

AttemptFailed_halts ==
  /\ attempt' = IF attempt < MaxRetries THEN attempt + 1 ELSE 1
  /\ UNCHANGED <<batch, thread>>

(* An attempt failed: try again after RETRY_DELAY_S, or skip the event     *)
(* after the last attempt; it stays in the buffer.                         *)
AttemptFailed ==
  IF attempt < MaxRetries
    THEN attempt' = attempt + 1 /\ UNCHANGED <<batch, thread>>
    ELSE NextEvent

(* The pipeline cannot be reached, or does not accept the event.           *)
PostFails ==
  /\ thread = "posting" /\ (link # "up" \/ Head(batch) \in Rejected)
  /\ AttemptFailed
  /\ UNCHANGED <<buffer, link, fsm, copies, faults>>

(* The pipeline stores the event, but its answer does not come through.    *)
AnswerLost ==
  /\ thread = "posting" /\ link = "up" /\ Head(batch) \notin Rejected
  /\ faults < MaxFaults /\ faults' = faults + 1
  /\ copies' = [copies EXCEPT ![Head(batch)] = @ + 1]
  /\ AttemptFailed
  /\ UNCHANGED <<buffer, link, fsm>>

AckRow_next == IF Len(batch) = 1 THEN Buffer!Ack(Head(batch)) ELSE Buffer!Ack(batch[2])

AckRow_forgotten == UNCHANGED buffer

(* The row acknowledged is the one the accepted event was read from.       *)
AckRow == Buffer!Ack(Head(batch))

AckEvent ==
  /\ thread = "acking"
  /\ AckRow
  /\ NextEvent
  /\ UNCHANGED <<link, fsm, copies, faults>>

(* A database error ends upload_buffered_events; _do_reconnect_upload logs *)
(* it, and the callback returns.                                           *)
DrainRaises ==
  /\ thread \in {"reading", "acking"}
  /\ faults < MaxFaults /\ faults' = faults + 1
  /\ thread' = "sleeping" /\ locked' = FALSE
  /\ batch' = <<>> /\ attempt' = 1
  /\ UNCHANGED <<buffer, link, state, failures, streak, copies>>

(* record_upload_complete.  The lock is not reentrant and held by the very *)
(* thread that asks for it, which then waits for ever.                     *)
CompleteDrain ==
  /\ thread = "drained"
  /\ IF locked
       THEN thread' = "blocked" /\ UNCHANGED state
       ELSE thread' = "sleeping" /\ state' = "CONNECTED"
  /\ UNCHANGED <<buffer, link, failures, locked, streak, upload, faults>>

-----------------------------------------------------------------------------
HeartbeatThread ==
  \/ BeatSucceeds \/ BeatRefused \/ BeatTimesOut
  \/ ReadBatch \/ PostAccepted \/ PostFails \/ AckEvent \/ CompleteDrain

Environment ==
  \/ \E e \in Event : SensorWrites(e)
  \/ LinkChanges \/ Restart \/ AnswerLost \/ DrainRaises

Next == HeartbeatThread \/ Environment

(* The heartbeat thread runs whenever it can: every call of its loop has a *)
(* timeout.  Sensors, the link and the faults are under no obligation.     *)
Spec == Init /\ [][Next]_vars /\ WF_vars(HeartbeatThread)

-----------------------------------------------------------------------------
(* Safety                                                                  *)

(* Req 2 C2, C3: an event leaves the buffer only after the pipeline has    *)
(* stored it or with an entry in the overflow log, also when the node      *)
(* loses power or the buffer overflows in the middle of a drain.           *)
NoEventLost ==
  \A e \in written : e \in rows \/ e \in evicted \/ copies[e] > 0

(* Buffer and drain implement HandOver, step by step: nothing but an       *)
(* overflow of a full table or a delivery takes an event out of the        *)
(* buffer, an overflow takes the oldest, what the pipeline gets was        *)
(* written and not rejected, and neither the log nor the pipeline forgets. *)
Contract == INSTANCE HandOver WITH
  accepted <- written, waiting <- rows, logged <- evicted,
  delivered <- {e \in Event : copies[e] > 0}

ImplementsHandOver == Contract!Spec

(* The buffer stays within its limit while it is written to and drained.   *)
BufferWithinLimit == Buffer!CapacityBound

(* The pipeline receives an event once more only for a power loss, a lost  *)
(* answer or a buffer error: the drain itself repeats nothing it has       *)
(* delivered.                                                              *)
DuplicatesAreExcused == \A e \in Event : copies[e] <= 1 + faults

(* The node turns autonomous only after three failed heartbeats in a row,  *)
(* however failures and successes alternate before.                        *)
AutonomousAfterThree == (state = "AUTONOMOUS") => streak = FailureThreshold

-----------------------------------------------------------------------------
(* Liveness                                                                *)

(* Req 2: local operation continues when central connectivity is lost.     *)
(* Heartbeats that time out are more than 15 s apart, so at the third the  *)
(* first is older than 30 s and forgotten: every beat leaves the machine   *)
(* as it found it.                                                         *)
SilenceIsNoticed == <>[](link = "blackhole") => <>[](state # "CONNECTED")

(* A pipeline that refuses the connection for good is noticed: failures at *)
(* that pace fit into the window, so the node ends up out of CONNECTED; it *)
(* gets there by three failures in a row and not before.                   *)
OutageIsNoticed ==
  /\ []AutonomousAfterThree
  /\ (<>[](link = "refusing") => <>[](state # "CONNECTED"))

(* Refused events stay the oldest of the buffer and come first in every    *)
(* batch; as many of them as a batch holds hide all that is younger.       *)
HiddenByRefused(e) ==
  Cardinality({r \in rows \cap Rejected : Timestamp[r] <= Timestamp[e]}) >= BatchSize

(* A drain that finds the link up for good hands over every event that was *)
(* in the buffer, beside those the pipeline does not take and those which  *)
(* they hide, unless it is interrupted or overtaken by an overflow.  A     *)
(* refused event in front of an acceptable one must not stop the drain.    *)
DrainDelivers ==
  <>[](link = "up") =>
    \A e \in Event \ Rejected :
      (thread = "reading" /\ e \in rows) ~>
        (copies[e] > 0 \/ e \in evicted \/ thread = "sleeping" \/ HiddenByRefused(e))

(* The same without the excuse.  The drain reads a batch of refused events *)
(* again and again, and what is behind them is never sent.                 *)
DrainReachesAll ==
  <>[](link = "up") =>
    \A e \in Event \ Rejected :
      (thread = "reading" /\ e \in rows) ~> (copies[e] > 0 \/ e \in evicted \/ thread = "sleeping")

(* heartbeat_fsm.py, Reconnecting -> Connected: "buffer upload complete +  *)
(* ACK".  With the link up for good the machine returns to CONNECTED.      *)
ReturnsToConnected ==
  <>[](link = "up") => ((state = "RECONNECTING") ~> (state = "CONNECTED"))

(* Req 2 C3: a record whose upload keeps failing is skipped, so a drain    *)
(* that started comes to its end.                                          *)
DrainEnds ==
  <>[](link = "up") => ((thread \in Draining) ~> (thread \notin Draining))
=============================================================================
