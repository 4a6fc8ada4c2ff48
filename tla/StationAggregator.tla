------------------------- MODULE StationAggregator -------------------------
(***************************************************************************)
(* The aggregator of a station                                             *)
(* (services/edge_compute/station_edge/station_aggregator.py): the sync    *)
(* with the zone above, the correlation of anomalies, and the table of     *)
(* active nodes with the inference requests their features lead to.  The   *)
(* three share no variable: a correlation that was found is queued for the *)
(* sync, and nothing comes back.                                           *)
(***************************************************************************)
EXTENDS Integers, Sequences, FiniteSets, SequencesExt

-----------------------------------------------------------------------------
(***************************************************************************)
(* SyncManager and sync_loop: request threads append events to a bounded   *)
(* deque; the loop takes a batch off it under the lock and sends the batch *)
(* without the lock.                                                       *)
(***************************************************************************)
CONSTANTS
  BatchSize,        \* _batch_size
  Capacity,         \* maxlen of _pending
  MaxEvents,        \* bound: events queued, numbered in the order they come
  MaxSendFailures,  \* bound: sends that raise
  MaxInitFailures   \* bound: times the producer cannot be created

ASSUME SyncAssumption ==
  /\ {BatchSize, Capacity} \subseteq Nat \ {0}
  /\ {MaxEvents, MaxSendFailures, MaxInitFailures} \subseteq Nat

VARIABLES
  pending,   \* _pending
  batch,     \* what flush has taken off and not handed on
  flushing,  \* what flush does: nothing, gets the producer, sends
  producer,  \* whether _kafka_producer exists
  queued,    \* events queued so far
  sent,      \* events handed to the producer, in order
  crowded,   \* whether the deque ever dropped an event
  sendFails, initFails

syncVars == <<pending, batch, flushing, producer, queued, sent, crowded, sendFails, initFails>>

Event == 1..MaxEvents

SyncTypeOK ==
  /\ pending \in Seq(Event) /\ Len(pending) <= Capacity
  /\ batch \in Seq(Event) /\ Len(batch) <= BatchSize
  /\ flushing \in {"no", "producer", "sends"} /\ (flushing = "no" => batch = <<>>)
  /\ producer \in BOOLEAN
  /\ queued \in 0..MaxEvents
  /\ sent \in Seq(Event) /\ crowded \in BOOLEAN
  /\ sendFails \in 0..MaxSendFailures /\ initFails \in 0..MaxInitFailures

SyncInit ==
  /\ pending = <<>> /\ batch = <<>> /\ sent = <<>>
  /\ flushing = "no" /\ producer = FALSE /\ crowded = FALSE
  /\ queued = 0 /\ sendFails = 0 /\ initFails = 0

(* Appending to a full deque drops the event at the other end.             *)
Appended(s, e) == IF Len(s) < Capacity THEN Append(s, e) ELSE Append(Tail(s), e)
AppendedLeft(s, e) == IF Len(s) < Capacity THEN <<e>> \o s ELSE <<e>> \o Front(s)

QueueEvent ==
  /\ queued < MaxEvents /\ queued' = queued + 1
  /\ pending' = Appended(pending, queued + 1)
  /\ crowded' = (crowded \/ Len(pending) = Capacity)
  /\ UNCHANGED <<batch, flushing, producer, sent, sendFails, initFails>>

Taken == SubSeq(pending, 1, IF Len(pending) < BatchSize THEN Len(pending) ELSE BatchSize)

Left == SubSeq(pending, Len(Taken) + 1, Len(pending))

(* flush, with the lock.                                                   *)
TakeBatch ==
  /\ flushing = "no" /\ pending # <<>>
  /\ batch' = Taken
  /\ pending' = Left
  /\ flushing' = "producer"
  /\ UNCHANGED <<producer, queued, sent, crowded, sendFails, initFails>>

(* _get_producer                                                           *)
GetProducer ==
  /\ flushing = "producer"
  /\ flushing' = "sends" /\ producer' = TRUE
  /\ UNCHANGED <<pending, batch, queued, sent, crowded, sendFails, initFails>>

(* Without a producer flush returns; the batch is a local variable.        *)
NoProducer ==
  /\ flushing = "producer" /\ ~producer /\ initFails < MaxInitFailures
  /\ flushing' = "no" /\ batch' = <<>> /\ initFails' = initFails + 1
  /\ UNCHANGED <<pending, producer, queued, sent, crowded, sendFails>>

SendEvent ==
  /\ flushing = "sends" /\ batch # <<>>
  /\ sent' = Append(sent, Head(batch)) /\ batch' = Tail(batch)
  /\ UNCHANGED <<pending, flushing, producer, queued, crowded, sendFails, initFails>>

Requeued_right(e) == Appended(pending, e)

Requeued(e) == AppendedLeft(pending, e)

(* A send raises: the event is queued again and the loop left.             *)
SendFails ==
  /\ flushing = "sends" /\ batch # <<>> /\ sendFails < MaxSendFailures
  /\ pending' = Requeued(Head(batch))
  /\ crowded' = (crowded \/ Len(pending) = Capacity)
  /\ batch' = <<>> /\ flushing' = "no" /\ sendFails' = sendFails + 1
  /\ UNCHANGED <<producer, queued, sent, initFails>>

EndFlush ==
  /\ flushing = "sends" /\ batch = <<>> /\ flushing' = "no"
  /\ UNCHANGED <<pending, batch, producer, queued, sent, crowded, sendFails, initFails>>

(* sync_loop                                                               *)
Sync == TakeBatch \/ GetProducer \/ NoProducer \/ SendEvent \/ SendFails \/ EndFlush

SyncNext == QueueEvent \/ Sync

(* The sync loop keeps running; failures are bounded.                      *)
SyncSpec == SyncInit /\ [][SyncNext]_syncVars /\ WF_syncVars(Sync)

-----------------------------------------------------------------------------
(* Events reach the producer in the order they were queued, and none       *)
(* twice, whatever fails between.                                          *)
SentInOrder == \A i, j \in DOMAIN sent : i < j => sent[i] < sent[j]

Waiting(e) == e <= queued /\ e \notin ToSet(sent)

(* station_aggregator.py: "Re-queue failed events".  An event is given up  *)
(* only when the deque is full.                                            *)
FailedAreRequeued ==
  \A e \in Event : Waiting(e) /\ ~crowded => e \in ToSet(pending) \cup ToSet(batch)

-----------------------------------------------------------------------------
(***************************************************************************)
(* CorrelationWindow and receive_micro_edge_batch: request threads add the *)
(* anomalies of their batches one at a time, reading the clock before they *)
(* take the lock, and then look for correlations in the window.  Anomalies *)
(* leave the window only when one is added.                                *)
(***************************************************************************)
CONSTANTS
  Thread,      \* request threads
  Flag,        \* anomalies: records of node, sensor and type
  Batches,     \* the anomalies of a batch: sequences over Flag
  Window,      \* window_ns, in units of time
  MaxWindow,   \* bound: anomalies in the window
  MaxWait      \* bound: time between reading the clock and taking the lock

ASSUME CorrelationAssumption ==
  /\ {Window, MaxWindow, MaxWait} \subseteq Nat
  /\ Batches \subseteq Seq(Flag)

VARIABLES
  window,   \* _anomalies: flags with the time since their clock reading
  job,      \* anomalies of a thread's batch that were not added
  phase,    \* what a thread does: nothing, adds, waits for the lock
  waited,   \* time since a waiting thread read the clock
  recent    \* anomalies added whose clock reading is at most Window old, with ages

correlationVars == <<window, job, phase, waited, recent>>

MaxAge == Window + MaxWait + 1
Aged == [flag : Flag, age : 0..MaxAge]

CorrelationTypeOK ==
  /\ window \in Seq(Aged) /\ Len(window) <= MaxWindow
  /\ job \in [Thread -> Seq(Flag)]
  /\ phase \in [Thread -> {"idle", "adds", "waits"}]
  /\ \A th \in Thread : waited[th] \in 0..MaxWait /\ (waited[th] > 0 => phase[th] = "waits")
  /\ recent \subseteq Aged

CorrelationInit ==
  /\ window = <<>> /\ recent = {}
  /\ job = [th \in Thread |-> <<>>]
  /\ phase = [th \in Thread |-> "idle"]
  /\ waited = [th \in Thread |-> 0]

Older(a) == [a EXCEPT !.age = IF @ < MaxAge THEN @ + 1 ELSE @]

TimePasses ==
  /\ \A th \in Thread : phase[th] = "waits" => waited[th] < MaxWait
  /\ window' = [i \in DOMAIN window |-> Older(window[i])]
  /\ recent' = {Older(a) : a \in {b \in recent : b.age < Window}}
  /\ waited' = [th \in Thread |-> IF phase[th] = "waits" THEN waited[th] + 1 ELSE 0]
  /\ UNCHANGED <<job, phase>>

ReceiveBatch(th, b) ==
  /\ phase[th] = "idle" /\ phase' = [phase EXCEPT ![th] = "adds"]
  /\ job' = [job EXCEPT ![th] = b]
  /\ UNCHANGED <<window, waited, recent>>

(* add_anomaly reads the clock ...                                         *)
ReadClock(th) ==
  /\ phase[th] = "adds" /\ job[th] # <<>>
  /\ phase' = [phase EXCEPT ![th] = "waits"]
  /\ UNCHANGED <<window, job, waited, recent>>

Expired_early(a, now) == a.age - now >= Window

(* The anomaly is older than the window, by a clock read "now" ago.        *)
Expired(a, now) == a.age - now > Window

(* The loop that evicts from the left stops at the first that stays.       *)
Evicted(w, now) ==
  LET stays == {i \in DOMAIN w : ~Expired(w[i], now)}
      first == IF stays = {} THEN Len(w) + 1 ELSE CHOOSE i \in stays : \A j \in stays : i <= j
  IN SubSeq(w, first, Len(w))

(* ... and appends and evicts with the lock.                               *)
AddAnomaly(th) ==
  LET a == [flag |-> Head(job[th]), age |-> waited[th]] IN
    /\ phase[th] = "waits" /\ Len(window) < MaxWindow
    /\ window' = Evicted(Append(window, a), waited[th])
    /\ recent' = IF a.age <= Window THEN recent \cup {a} ELSE recent
    /\ job' = [job EXCEPT ![th] = Tail(@)]
    /\ phase' = [phase EXCEPT ![th] = "adds"]
    /\ waited' = [waited EXCEPT ![th] = 0]

(* find_correlations over the flags of a window: sensors of one node, or   *)
(* one type on several nodes.                                              *)
Correlated(flags) ==
  LET nodes == {f.node : f \in flags}
      types == {f.type : f \in flags}
  IN {n \in nodes : Cardinality({f.sensor : f \in {g \in flags : g.node = n}}) >= 2}
       \cup {t \in types : Cardinality({f.node : f \in {g \in flags : g.type = t}}) >= 2}

Found == Correlated({window[i].flag : i \in DOMAIN window})

(* The batch is done: its correlations are queued.                         *)
EndBatch(th) ==
  /\ phase[th] = "adds" /\ job[th] = <<>>
  /\ phase' = [phase EXCEPT ![th] = "idle"]
  /\ UNCHANGED <<window, job, waited, recent>>

CorrelationNext ==
  \/ TimePasses
  \/ \E th \in Thread :
       \/ \E b \in Batches : ReceiveBatch(th, b)
       \/ ReadClock(th) \/ AddAnomaly(th) \/ EndBatch(th)

CorrelationSpec == CorrelationInit /\ [][CorrelationNext]_correlationVars

-----------------------------------------------------------------------------
InTime == Correlated({a.flag : a \in recent})

(* Threads may append out of the order of their clocks and evict by a      *)
(* clock that is late; still no correlation between anomalies of the last  *)
(* window is missed.                                                       *)
NoneMissed == InTime \subseteq Found

(* find_correlations: "Find correlated anomalies from different sensors in *)
(* the same time window".  What a batch reports is true of the last        *)
(* window, give or take the waiting for the lock.                          *)
FoundInWindow ==
  [][\A th \in Thread : EndBatch(th) =>
       Found \subseteq Correlated({window[i].flag : i \in {j \in DOMAIN window :
                                     window[j].age <= Window + MaxWait}})]_correlationVars

-----------------------------------------------------------------------------
(***************************************************************************)
(* _active_nodes and InferenceQueue: batches come in request threads and   *)
(* insert into _active_nodes without a lock while housekeeping_loop walks  *)
(* over it; a dictionary that grows under the walk ends the loop for good. *)
(***************************************************************************)
CONSTANTS Micro,                    \* micro-edge nodes
          StaleAfter, HousekeepingPeriod,  \* 60 s and 30 s
          QueueLength,              \* of the deque of each priority, in order of service
          MaxTime, MaxAsked         \* bounds

ASSUME NodesAssumption ==
  /\ {StaleAfter, HousekeepingPeriod, MaxTime, MaxAsked} \subseteq Nat
  /\ QueueLength \in Seq(Nat)

Unseen == -1
Priorities == DOMAIN QueueLength

VARIABLES clock,
          activeNodes,  \* when a node was last seen; Unseen if not listed
          keeper,       \* housekeeping_loop: where it stands
          queues,       \* _queues, by priority
          asked,        \* inference requests so far
          accepted, served  \* requests the queue took and gave out, by priority

keeperVars == <<clock, activeNodes, keeper>>
queueVars == <<queues, asked, accepted, served>>
nodesVars == <<keeperVars, queueVars>>

Listed == {n \in Micro : activeNodes[n] # Unseen}
Sleeping(until) == [at |-> "sleep", wake |-> until, walked |-> {}, over |-> {}, stale |-> {}]
Dead == [at |-> "dead", wake |-> 0, walked |-> {}, over |-> {}, stale |-> {}]

NodesInit ==
  /\ clock = 0
  /\ activeNodes = [n \in Micro |-> Unseen]
  /\ keeper = Sleeping(0)
  /\ queues = [p \in Priorities |-> <<>>]
  /\ asked = 0
  /\ accepted = [p \in Priorities |-> <<>>] /\ served = [p \in Priorities |-> <<>>]

NodesTypeOK ==
  /\ clock \in 0 .. MaxTime /\ activeNodes \in [Micro -> Unseen .. MaxTime]
  /\ keeper.at \in {"sleep", "walk", "remove", "dead"}
  /\ asked \in 0 .. MaxAsked

---------------------------------------------------------------------------
(* Requests                                                                *)

(* receive_micro_edge_batch of a node without elevated features.           *)
NodeSeen(n) ==
  /\ activeNodes' = [activeNodes EXCEPT ![n] = clock]
  /\ UNCHANGED <<clock, keeper, queueVars>>

(* InferenceQueue.enqueue: a full queue refuses.                           *)
Enqueue_evicting(p, q) ==
  /\ queues' = [queues EXCEPT ![p] = IF Len(@) >= QueueLength[p] THEN Append(Tail(@), q)
                                     ELSE Append(@, q)]
  /\ accepted' = [accepted EXCEPT ![p] = Append(@, q)]

Enqueue(p, q) ==
  IF Len(queues[p]) >= QueueLength[p] THEN UNCHANGED <<queues, accepted>>
  ELSE /\ queues' = [queues EXCEPT ![p] = Append(@, q)]
       /\ accepted' = [accepted EXCEPT ![p] = Append(@, q)]

(* _process_feature: elevated vibration asks for an inference; whether the *)
(* queue took the request is not looked at.                                *)
ProcessFeature(n, p) ==
  /\ asked < MaxAsked /\ asked' = asked + 1
  /\ activeNodes' = [activeNodes EXCEPT ![n] = clock]
  /\ Enqueue(p, asked')
  /\ UNCHANGED <<clock, keeper, served>>

(* InferenceQueue.dequeue for get_next_inference: the highest priority.    *)
Dequeue ==
  \E p \in Priorities :
    /\ queues[p] # <<>> /\ \A higher \in 1 .. p - 1 : queues[higher] = <<>>
    /\ served' = [served EXCEPT ![p] = Append(@, Head(queues[p]))]
    /\ queues' = [queues EXCEPT ![p] = Tail(@)]
    /\ UNCHANGED <<keeperVars, asked, accepted>>

---------------------------------------------------------------------------
(* housekeeping_loop                                                       *)

Wake ==
  /\ keeper.at = "sleep" /\ keeper.wake <= clock
  /\ keeper' = [keeper EXCEPT !.at = "walk", !.over = Listed, !.wake = clock]
  /\ UNCHANGED <<clock, activeNodes, queueVars>>

IsStale_bug(n) == keeper.wake - activeNodes[n] > StaleAfter + HousekeepingPeriod
IsStale(n) == keeper.wake - activeNodes[n] > StaleAfter

(* One item of the dictionary; RuntimeError if its size changed.           *)
Walk ==
  /\ keeper.at = "walk"
  /\ IF Listed # keeper.over THEN keeper' = Dead
     ELSE IF keeper.walked = keeper.over THEN keeper' = [keeper EXCEPT !.at = "remove"]
     ELSE \E n \in keeper.over \ keeper.walked :
            keeper' = [keeper EXCEPT !.walked = @ \cup {n},
                                     !.stale = IF IsStale(n) THEN @ \cup {n} ELSE @]
  /\ UNCHANGED <<clock, activeNodes, queueVars>>

(* Every node that was stale is removed, also one that came back since.    *)
RemoveStale ==
  /\ keeper.at = "remove"
  /\ activeNodes' = [n \in Micro |-> IF n \in keeper.stale THEN Unseen ELSE activeNodes[n]]
  /\ keeper' = Sleeping(clock + HousekeepingPeriod)
  /\ UNCHANGED <<clock, queueVars>>

(* The loop is on time: a round takes no time a second can measure.        *)
ClockTicks ==
  /\ clock < MaxTime
  /\ keeper.at = "dead" \/ (keeper.at = "sleep" /\ keeper.wake > clock)
  /\ clock' = clock + 1
  /\ UNCHANGED <<activeNodes, keeper, queueVars>>

NodesNext ==
  \/ \E n \in Micro : NodeSeen(n) \/ (\E p \in Priorities : ProcessFeature(n, p))
  \/ Dequeue \/ Wake \/ Walk \/ RemoveStale \/ ClockTicks

NodesSpec == NodesInit /\ [][NodesNext]_nodesVars

---------------------------------------------------------------------------
(* Properties                                                              *)

(* A request the queue took is served or still in it, in the order they    *)
(* came: the bounded deques never push an old request out.                 *)
AcceptedAreServed == \A p \in Priorities : accepted[p] = served[p] \o queues[p]

(* As long as the housekeeping loop lives, no node is listed as active     *)
(* that was silent for longer than the threshold and one period, though    *)
(* batches are written under the walk of the loop; and nothing that was    *)
(* accepted is pushed out.                                                 *)
ListedAreRecent ==
  /\ AcceptedAreServed
  /\ keeper.at # "dead" =>
       \A n \in Listed : clock - activeNodes[n] <= StaleAfter + HousekeepingPeriod
=============================================================================
