----------------------------- MODULE SensorHub -----------------------------
(***************************************************************************)
(* The sensor hub of a trackside node (sensor_hub.py) over the ring buffer *)
(* of edge_protocol.py.  A request thread pushes batches of samples into   *)
(* the buffer of a channel; the loop reads windows out of it, looks for    *)
(* anomalies, extracts features and forwards both.  Nothing takes the      *)
(* lock the hub has, so a read may fall between any two assignments of a   *)
(* push.  A sample is its number in the stream of its channel; what the    *)
(* statistics make of a window is a choice among the verdicts the code can *)
(* reach with the baseline it has learned.                                 *)
(***************************************************************************)
EXTENDS Integers, Sequences

CONSTANTS Channel, Capacity,      \* 4 s of samples
          Window,                 \* samples in an analysis window, by channel
          MinWindow, FlatlineMin, \* 10 and 100 samples
          BatchForwardSize,
          BatchSizes,             \* samples in one request
          MaxSample               \* bound: samples, by channel

(* A request brings less than the buffer holds beside a window (4 s of     *)
(* samples against 100 ms).                                                *)
ASSUME HubAssumption ==
  /\ Capacity \in Nat \ {0} /\ BatchSizes \subseteq Nat \ {0}
  /\ \A c \in Channel : Window[c] \in Nat \ {0}
  /\ \A n \in BatchSizes, c \in Channel : n + Window[c] <= Capacity

NoPush == [ch |-> {}, n |-> 0, at |-> "none"]
NoRead == [ch |-> {}, len |-> 0, idx |-> 0, newest |-> 0, at |-> "none"]

VARIABLES ring,      \* per channel: _buf, _head, _count
          taken,     \* samples a channel was given so far
          push,      \* the push_batch in progress: where it stands
          read,      \* the get_window in progress
          learned,   \* updates of the baseline of a channel, at most 2 told apart
          phase,     \* of run_loop: resting, processing a cycle, forwarding
          todo,      \* channels of this cycle still to be processed
          seen,      \* the window the detector or the extractor last read
          batch,     \* features waiting to be forwarded
          flags,     \* anomalies of this cycle
          station,   \* newest sample, by channel, in a batch that was sent
          producer,  \* the lazily created Kafka producer exists
          running

ringVars == <<ring, taken, push>>
loopVars == <<phase, todo, read, seen, learned, batch, flags>>
hubVars == <<ringVars, loopVars, station, producer, running>>

Empty == [buf |-> [i \in 0 .. Capacity - 1 |-> 0], head |-> 0, count |-> 0]

(* register_channel for every sensor of the node.                          *)
HubInit ==
  /\ ring = [c \in Channel |-> Empty]
  /\ taken = [c \in Channel |-> 0]
  /\ push = NoPush /\ read = NoRead
  /\ learned = [c \in Channel |-> 0]
  /\ phase = "rest" /\ todo = {} /\ seen = <<>> /\ batch = <<>> /\ flags = <<>>
  /\ station = [c \in Channel |-> 0]
  /\ producer = FALSE /\ running = TRUE

HubTypeOK ==
  /\ \A c \in Channel :
       /\ ring[c].head \in 0 .. Capacity - 1
       /\ {taken[c], ring[c].count, station[c]} \subseteq 0 .. MaxSample[c]
  /\ learned \in [Channel -> 0 .. 2]
  /\ push.at \in {"none", "slice", "head", "count"}
  /\ read.at \in {"none", "check", "extract"} /\ todo \subseteq Channel
  /\ phase \in {"rest", "cycle", "send", "alert"}
  /\ producer \in BOOLEAN /\ running \in BOOLEAN

---------------------------------------------------------------------------
(* push_batch, one assignment at a time.                                   *)

(* A request is taken; the samples that come while a window is read (some  *)
(* microseconds) do not come round to it.                                  *)
Ingest(c) ==
  /\ push = NoPush
  /\ \E n \in BatchSizes :
       /\ taken[c] + n <= MaxSample[c]
       /\ read.ch = {c} => taken[c] + n - (read.newest - read.len) <= Capacity
       /\ taken' = [taken EXCEPT ![c] = @ + n]
       /\ push' = [ch |-> {c}, n |-> n, at |-> "slice"]
  /\ UNCHANGED <<ring, loopVars, station, producer, running>>

Written_unwrapped(r, c, n) ==
  [r EXCEPT !.buf = [i \in 0 .. Capacity - 1 |->
                       IF i \in r.head .. r.head + n - 1 THEN taken[c] - n + 1 + i - r.head
                       ELSE r.buf[i]]]

(* The samples, in one slice or, past the end of the buffer, in two.       *)
Written(r, c, n) ==
  LET first == taken[c] - n + 1
      offset(i) == (i - r.head + Capacity) % Capacity
  IN [r EXCEPT !.buf = [i \in 0 .. Capacity - 1 |->
                          IF offset(i) < n THEN first + offset(i) ELSE r.buf[i]]]

HeadMoved(r, n) == [r EXCEPT !.head = (@ + n) % Capacity]
Counted(r, n) == [r EXCEPT !.count = @ + n]

(* The order of the assignments of push_batch.                             *)
StepAfter == [slice |-> "head", head |-> "count", count |-> "none"]

PushStep(c) ==
  /\ push.ch = {c}
  /\ ring' = [ring EXCEPT ![c] = CASE push.at = "slice" -> Written(@, c, push.n)
                                   [] push.at = "head" -> HeadMoved(@, push.n)
                                   [] push.at = "count" -> Counted(@, push.n)]
  /\ push' = IF push.at = "count" THEN NoPush ELSE [push EXCEPT !.at = StepAfter[@]]
  /\ UNCHANGED <<taken, loopVars, station, producer, running>>

---------------------------------------------------------------------------
(* process_cycle                                                           *)

Count(c) == IF ring[c].count < Capacity THEN ring[c].count ELSE Capacity

(* The first half of get_window: the length and the place to start at.     *)
WindowOf(c, stage) ==
  LET last == (ring[c].head + Capacity - 1) % Capacity
  IN [ch |-> {c}, len |-> IF Window[c] < Count(c) THEN Window[c] ELSE Count(c),
      idx |-> last, newest |-> ring[c].buf[last], at |-> stage]

(* The second half: the samples, the newest first.                         *)
Samples(c, r) == [k \in 1 .. r.len |-> ring[c].buf[(r.idx + Capacity - (k - 1)) % Capacity]]

StartCycle ==
  /\ running /\ phase = "rest"
  /\ phase' = "cycle" /\ todo' = Channel
  /\ UNCHANGED <<ringVars, read, seen, learned, batch, flags, station, producer, running>>

(* A channel without enough data is left out of the cycle.                 *)
SkipChannel(c) ==
  /\ c \in todo /\ read = NoRead /\ Count(c) < Window[c]
  /\ todo' = todo \ {c}
  /\ UNCHANGED <<ringVars, phase, read, seen, learned, batch, flags, station, producer, running>>

TakeChannel(c) ==
  /\ c \in todo /\ read = NoRead /\ Count(c) >= Window[c]
  /\ read' = WindowOf(c, "check")
  /\ UNCHANGED <<ringVars, phase, todo, seen, learned, batch, flags, station, producer, running>>

(* MicroEdgeAnomalyDetector.check: a short window is not looked at; the    *)
(* first update of a baseline leaves its deviation and its mean change at  *)
(* zero, so two are needed before the z-score or a spike can be found.     *)
Verdicts(c, w) ==
  IF Len(w) < MinWindow THEN {"too_short"}
  ELSE {"normal"} \cup (IF learned[c] = 2 THEN {"z_score_violation", "rate_spike"} ELSE {})
                  \cup (IF Len(w) >= FlatlineMin THEN {"flatline"} ELSE {})

(* Only a window without an anomaly is learned.                            *)
Learn(c, verdict) ==
  learned' = IF verdict = "normal" /\ learned[c] < 2
             THEN [learned EXCEPT ![c] = @ + 1] ELSE learned

Detect(c) ==
  /\ read.at = "check" /\ read.ch = {c}
  /\ LET w == Samples(c, read) IN
       \E verdict \in Verdicts(c, w) :
         /\ Learn(c, verdict)
         /\ flags' = IF verdict \in {"too_short", "normal"} THEN flags
                     ELSE Append(flags, [ch |-> c, at |-> w[1]])
         /\ seen' = w
  /\ read' = WindowOf(c, "extract")
  /\ UNCHANGED <<ringVars, phase, todo, batch, station, producer, running>>

(* FeatureExtractor.extract reads the window again.                        *)
Extract(c) ==
  /\ read.at = "extract" /\ read.ch = {c}
  /\ LET w == Samples(c, read) IN
       /\ seen' = w
       /\ batch' = Append(batch, [ch |-> c, at |-> w[1]])
  /\ read' = NoRead /\ todo' = todo \ {c}
  /\ UNCHANGED <<ringVars, phase, learned, flags, station, producer, running>>

---------------------------------------------------------------------------
(* run_loop and forward_to_station                                         *)

(* The features are kept until there are enough of them or an anomaly.     *)
EndCycle ==
  /\ phase = "cycle" /\ todo = {} /\ read = NoRead
  /\ phase' = IF Len(batch) >= BatchForwardSize \/ flags # <<>> THEN "send" ELSE "rest"
  /\ seen' = <<>>
  /\ UNCHANGED <<ringVars, todo, read, learned, batch, flags, station, producer, running>>

(* _kafka_send: a producer that cannot be created, or a send that fails,   *)
(* is logged and the message is gone.                                      *)
KafkaSend(delivered) ==
  /\ producer' \in BOOLEAN /\ (producer => producer')
  /\ delivered => producer'

NewestOf(c, default) ==
  LET mine == {i \in DOMAIN batch : batch[i].ch = c}
  IN IF mine = {} THEN default ELSE batch[CHOOSE i \in mine : \A j \in mine : j <= i].at

(* The batch first, then an alert for every anomaly; the lists are emptied *)
(* whatever became of them.                                                *)
SendBatch ==
  /\ phase = "send"
  /\ \E delivered \in BOOLEAN :
       /\ KafkaSend(delivered)
       /\ station' = IF delivered THEN [c \in Channel |-> NewestOf(c, station[c])] ELSE station
  /\ batch' = <<>>
  /\ phase' = IF flags = <<>> THEN "rest" ELSE "alert"
  /\ UNCHANGED <<ringVars, todo, read, seen, learned, flags, running>>

SendAlert ==
  /\ phase = "alert"
  /\ \E delivered \in BOOLEAN : KafkaSend(delivered)
  /\ flags' = Tail(flags)
  /\ phase' = IF flags' = <<>> THEN "rest" ELSE "alert"
  /\ UNCHANGED <<ringVars, todo, read, seen, learned, batch, station, running>>

(* The loop leaves at its next test; what was not forwarded is dropped.    *)
Stop ==
  /\ running /\ running' = FALSE
  /\ UNCHANGED <<ringVars, loopVars, station, producer>>

HubNext ==
  \/ \E c \in Channel :
       \/ Ingest(c) \/ PushStep(c)
       \/ SkipChannel(c) \/ TakeChannel(c) \/ Detect(c) \/ Extract(c)
  \/ StartCycle \/ EndCycle \/ SendBatch \/ SendAlert \/ Stop

HubSpec == HubInit /\ [][HubNext]_hubVars

---------------------------------------------------------------------------
(* Properties                                                              *)

(* Though no lock is taken, the windows the loop reads beside the pushes   *)
(* are runs of consecutive samples, the newest first, that were really     *)
(* taken, and the features of a channel go upstream in the order of their  *)
(* samples: push_batch writes the samples before it moves the head, and    *)
(* moves the head before it counts.                                        *)
WindowsAreRuns ==
  /\ \A k \in 1 .. Len(seen) - 1 : seen[k + 1] = seen[k] - 1
  /\ seen # <<>> => seen[Len(seen)] >= 1
  /\ \A i, j \in DOMAIN batch :
       batch[i].ch = batch[j].ch /\ i <= j => station[batch[i].ch] <= batch[i].at /\ batch[i].at <= batch[j].at
=============================================================================
