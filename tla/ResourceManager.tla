--------------------------- MODULE ResourceManager ---------------------------
(***************************************************************************)
(* The resource manager of a zone                                          *)
(* (services/edge_compute/zone_compute/resource_manager.py): workloads are *)
(* scheduled on compute nodes, queued when no node accepts them, drained   *)
(* from the queue and released.  Beside them the auto-scaler, which shares *)
(* nothing with them that either writes.                                   *)
(*                                                                         *)
(* ResourceManager takes its lock only to copy the list of nodes, and the  *)
(* scheduler never takes the lock it creates, so the steps of schedule(),  *)
(* of release_workload() and of the loop in drain_pending() interleave     *)
(* with other callers.  Node scores are abstracted to a choice among the   *)
(* nodes that accept; "x += 1" on an attribute, which calls nothing, is    *)
(* one step, and the "max(0, x - 1)" of a release is two.  The drain reads *)
(* the nodes as they are.  The scaler has no lock at all.                  *)
(***************************************************************************)
EXTENDS Integers, Sequences, FiniteSetsExt

CONSTANTS
  Node, Work,
  NoNode,
  MaxConcurrent, \* max_concurrent of a node
  Caller,        \* threads that call schedule_workload and release_workload
  Renewed,       \* nodes that register under an id that is taken
  MaxRetry,      \* bound: length of retry_queue
  Evaluator,     \* threads that call check_scaling
  MinReplicas, MaxReplicas, ScaleStep, \* ScalingPolicy: 1, 8 and 1
  ScaleCooldown, \* cooldown_s: 120 s
  MaxEvaluation, \* bound: time that evaluate() takes
  MaxScaleTime   \* bound: time of the scaler

ASSUME ManagerAssumption ==
  /\ NoNode \notin Node /\ IsFiniteSet(Work) /\ Renewed \subseteq Node
  /\ {MaxConcurrent, MaxRetry, ScaleStep, ScaleCooldown, MaxEvaluation, MaxScaleTime} \subseteq Nat
  /\ {MinReplicas, MaxReplicas} \subseteq Nat /\ MinReplicas <= MaxReplicas

VARIABLES
  load,      \* current_workloads of each node
  usable,    \* available, below 95 % GPU and below 85 degrees
  scheduled, \* _scheduled: the node of a workload
  pending,   \* _pending
  retry,     \* retry_queue of the drain under way
  drain,     \* drain_pending: not running, in its loop, about to assign _pending
  chosen,    \* what each caller is about to assign: workload, node, and whether
             \* the object of the node is still the one in the registry
  lowering,  \* what each caller is about to store: node and current_workloads
  submitted, \* workloads handed to schedule_workload
  answered,  \* workloads whose caller was told "scheduled" or "rejected"
  late,      \* workloads whose deadline passed twice over
  exposed,   \* ghost: workloads queued between the last look of a drain at _pending
             \* and its replacement
  overwritten, \* ghost: nodes that were given a workload between the two halves of
             \* a release
  replicas,  \* _current_replicas
  lastScale, \* _last_scale_time
  scaleTime, \* time.monotonic of the scaler
  evaluating, \* what each evaluate() has decided
  decided    \* and when it began

nodeVars == <<load, usable, scheduled, chosen, lowering, overwritten>>
queueVars == <<pending, retry, drain, exposed>>
callVars == <<submitted, answered, late>>
managerVars == <<nodeVars, queueVars, callVars>>

scalerVars == <<replicas, lastScale, scaleTime, evaluating, decided>>

Idle == <<>>

ManagerTypeOK ==
  /\ load \in [Node -> Nat]
  /\ usable \in [Node -> BOOLEAN]
  /\ scheduled \in [Work -> Node \cup {NoNode}]
  /\ {pending, retry} \subseteq Seq(Work)
  /\ drain \in {"no", "loop", "swap"}
  /\ chosen \in [Caller -> (Work \X Node \X {"current", "replaced"}) \cup {Idle}]
  /\ lowering \in [Caller -> (Node \X Nat) \cup {Idle}]
  /\ \A c \in Caller : chosen[c] = Idle \/ lowering[c] = Idle
  /\ {submitted, answered, late, exposed} \subseteq SUBSET Work /\ overwritten \subseteq Node
  /\ replicas \in MinReplicas .. MaxReplicas
  /\ lastScale \in -ScaleCooldown .. MaxScaleTime /\ scaleTime \in 0 .. MaxScaleTime
  /\ evaluating \in [Evaluator -> {"up", "down", "no"}]
  /\ decided \in [Evaluator -> -ScaleCooldown .. MaxScaleTime]

ManagerInit ==
  /\ load = [n \in Node |-> 0]
  /\ usable = [n \in Node |-> TRUE]
  /\ scheduled = [w \in Work |-> NoNode]
  /\ pending = <<>> /\ retry = <<>> /\ drain = "no"
  /\ chosen = [c \in Caller |-> Idle] /\ lowering = [c \in Caller |-> Idle]
  /\ submitted = {} /\ answered = {} /\ late = {}
  /\ exposed = {} /\ overwritten = {}

-----------------------------------------------------------------------------

(* can_accept_workload                                                     *)
CanAccept(n) == usable[n] /\ load[n] < MaxConcurrent

Accepting == {n \in Node : CanAccept(n)}

(* _score_node: affinity, load and temperature may put any of the nodes    *)
(* that accept before the others.                                          *)
Best == Accepting

(* A caller is in one call at a time.                                      *)
IsFree(c) == chosen[c] = Idle /\ lowering[c] = Idle

(* schedule, first half: choose a node, or queue a request of priority 0   *)
(* or 1, or reject one of another.                                         *)
Choose(c, w) ==
  /\ IsFree(c) /\ w \notin submitted
  /\ submitted' = submitted \cup {w}
  /\ IF Accepting # {}
       THEN /\ \E n \in Best : chosen' = [chosen EXCEPT ![c] = <<w, n, "current">>]
            /\ UNCHANGED <<pending, exposed, answered>>
       ELSE /\ \/ /\ pending' = Append(pending, w) /\ UNCHANGED answered
                  /\ exposed' = IF drain = "swap" THEN exposed \cup {w} ELSE exposed
               \/ answered' = answered \cup {w} /\ UNCHANGED <<pending, exposed>>
            /\ UNCHANGED chosen
  /\ UNCHANGED <<load, usable, scheduled, lowering, overwritten, retry, drain, late>>

(* A release has read the count of a node and has not stored it.           *)
BeingLowered(n) == \E c \in Caller : lowering[c] # Idle /\ lowering[c][1] = n

Assigned_onlyNew(w, n, object) ==
  /\ load' = IF scheduled[w] = NoNode /\ object = "current" THEN [load EXCEPT ![n] = @ + 1] ELSE load
  /\ scheduled' = [scheduled EXCEPT ![w] = n]
  /\ answered' = answered \cup {w}
  /\ overwritten' = IF BeingLowered(n) THEN overwritten \cup {n} ELSE overwritten

(* schedule, second half.  The object of a node that registered again is   *)
(* counted up in vain.                                                     *)
Assigned(w, n, object) ==
  /\ load' = IF object = "current" THEN [load EXCEPT ![n] = @ + 1] ELSE load
  /\ scheduled' = [scheduled EXCEPT ![w] = n]
  /\ answered' = answered \cup {w}
  /\ overwritten' = IF BeingLowered(n) THEN overwritten \cup {n} ELSE overwritten

Assign(c) ==
  /\ chosen[c] # Idle
  /\ Assigned(chosen[c][1], chosen[c][2], chosen[c][3])
  /\ chosen' = [chosen EXCEPT ![c] = Idle]
  /\ UNCHANGED <<usable, lowering, queueVars, submitted, late>>

Lowered_two(k) == IF k <= 1 THEN 0 ELSE k - 2

Lowered(k) == IF k = 0 THEN 0 ELSE k - 1

(* release_workload: the workload leaves _scheduled and the count of its   *)
(* node is read ...                                                        *)
Release(c, w) ==
  /\ IsFree(c) /\ scheduled[w] # NoNode
  /\ lowering' = [lowering EXCEPT ![c] = <<scheduled[w], Lowered(load[scheduled[w]])>>]
  /\ scheduled' = [scheduled EXCEPT ![w] = NoNode]
  /\ UNCHANGED <<load, usable, chosen, overwritten, queueVars, callVars>>

(* ... and stored, one less and not below zero.                            *)
StoreLowered(c) ==
  /\ lowering[c] # Idle
  /\ load' = [load EXCEPT ![lowering[c][1]] = lowering[c][2]]
  /\ lowering' = [lowering EXCEPT ![c] = Idle]
  /\ UNCHANGED <<usable, scheduled, chosen, overwritten, queueVars, callVars>>

-----------------------------------------------------------------------------
(* drain_pending                                                           *)
StartDrain ==
  /\ drain = "no" /\ drain' = "loop" /\ retry' = <<>>
  /\ UNCHANGED <<pending, exposed, nodeVars, callVars>>

Kept_dropped(w) == <<Tail(pending), retry>>

(* The two queues after a workload found no node again: schedule() itself  *)
(* appends it to _pending, drain_pending() to retry_queue.                 *)
Kept(w) == <<Append(Tail(pending), w), Append(retry, w)>>

DrainNext ==
  /\ drain = "loop" /\ pending # <<>>
  /\ LET w == Head(pending) IN
       \/ /\ w \in late
          /\ pending' = Tail(pending) /\ answered' = answered \cup {w}
          /\ UNCHANGED <<load, scheduled, overwritten, retry>>
       \/ /\ w \notin late /\ Accepting # {}
          /\ \E n \in Best : Assigned(w, n, "current")
          /\ pending' = Tail(pending)
          /\ UNCHANGED retry
       \/ /\ w \notin late /\ Accepting = {} /\ Len(retry) < MaxRetry
          /\ pending' = Kept(w)[1] /\ retry' = Kept(w)[2]
          /\ UNCHANGED <<load, scheduled, overwritten, answered>>
  /\ UNCHANGED <<usable, chosen, lowering, drain, exposed, submitted, late>>

LeaveLoop ==
  /\ drain = "loop" /\ pending = <<>> /\ drain' = "swap"
  /\ UNCHANGED <<pending, retry, exposed, nodeVars, callVars>>

EndDrain ==
  /\ drain = "swap" /\ drain' = "no"
  /\ pending' = retry /\ retry' = <<>>
  /\ UNCHANGED <<exposed, nodeVars, callVars>>

-----------------------------------------------------------------------------
(* update_usage                                                            *)
UpdateUsage(n) ==
  /\ usable' = [usable EXCEPT ![n] = ~@]
  /\ UNCHANGED <<load, scheduled, chosen, lowering, overwritten, queueVars, callVars>>

(* register_node under an id that is taken: a fresh node replaces it, and  *)
(* the calls under way go on with the old one.                             *)
RenewNode(n) ==
  /\ n \in Renewed
  /\ load' = [load EXCEPT ![n] = 0]
  /\ usable' = [usable EXCEPT ![n] = TRUE]
  /\ chosen' = [c \in Caller |-> IF chosen[c] # Idle /\ chosen[c][2] = n
                                   THEN <<chosen[c][1], n, "replaced">> ELSE chosen[c]]
  /\ lowering' = [c \in Caller |-> IF lowering[c] # Idle /\ lowering[c][1] = n
                                     THEN Idle ELSE lowering[c]]
  /\ UNCHANGED <<scheduled, overwritten, queueVars, callVars>>

Queued == {pending[i] : i \in 1..Len(pending)} \cup {retry[i] : i \in 1..Len(retry)}

(* Whether a workload is late counts only while it waits.                  *)
TimePasses(w) ==
  /\ w \in Queued \ late /\ late' = late \cup {w}
  /\ UNCHANGED <<submitted, answered, nodeVars, queueVars>>

ManagerNext ==
  \/ \E c \in Caller : Assign(c) \/ StoreLowered(c) \/ \E w \in Work : Choose(c, w) \/ Release(c, w)
  \/ \E w \in Work : TimePasses(w)
  \/ \E n \in Node : UpdateUsage(n) \/ RenewNode(n)
  \/ StartDrain \/ DrainNext \/ LeaveLoop \/ EndDrain

-----------------------------------------------------------------------------
(* AutoScaler.  The first evaluation is not held up by the cooldown: the   *)
(* clock has run for longer than that.                                     *)
ScalerInit ==
  /\ replicas = MinReplicas /\ lastScale = -ScaleCooldown /\ scaleTime = 0
  /\ evaluating = [e \in Evaluator |-> "no"]
  /\ decided = [e \in Evaluator |-> -ScaleCooldown]

Rested_never == scaleTime - lastScale >= 0

(* The cooldown since the last action is over.                             *)
Rested == scaleTime - lastScale >= ScaleCooldown

(* evaluate, up to a decision; the usage of the nodes and the queue ask    *)
(* for any of the two.  Without one nothing changes.                       *)
Evaluate(e) ==
  /\ evaluating[e] = "no" /\ Rested
  /\ \E decision \in {"up", "down"} :
       /\ IF decision = "up" THEN replicas < MaxReplicas ELSE replicas > MinReplicas
       /\ evaluating' = [evaluating EXCEPT ![e] = decision]
  /\ decided' = [decided EXCEPT ![e] = scaleTime]
  /\ UNCHANGED <<managerVars, replicas, lastScale, scaleTime>>

(* _current_replicas after a decision; another thread may have moved it.   *)
Replicas(decision) ==
  IF decision = "up" THEN Min({MaxReplicas, replicas + ScaleStep})
                     ELSE Max({MinReplicas, replicas - ScaleStep})

Recorded_first(e) == IF lastScale < 0 THEN decided[e] ELSE lastScale

(* _last_scale_time after a decision: when the evaluation began.           *)
Recorded(e) == decided[e]

Scale(e) ==
  /\ evaluating[e] # "no"
  /\ replicas' = Replicas(evaluating[e]) /\ lastScale' = Recorded(e)
  /\ evaluating' = [evaluating EXCEPT ![e] = "no"]
  /\ UNCHANGED <<managerVars, scaleTime, decided>>

ScaleTimePasses ==
  /\ scaleTime < MaxScaleTime /\ scaleTime' = scaleTime + 1
  /\ \A e \in Evaluator : evaluating[e] # "no" => scaleTime - decided[e] < MaxEvaluation
  /\ UNCHANGED <<managerVars, replicas, lastScale, evaluating, decided>>

ScalerNext == ScaleTimePasses \/ \E e \in Evaluator : Evaluate(e) \/ Scale(e)

ManagerSpec ==
  /\ ManagerInit /\ ScalerInit
  /\ [][(ManagerNext /\ UNCHANGED scalerVars) \/ ScalerNext]_<<managerVars, scalerVars>>

-----------------------------------------------------------------------------
On(n) == {w \in Work : scheduled[w] = n}

(* A node is never given more workloads than it takes.                     *)
LoadWithinLimit == \A n \in Node : load[n] <= MaxConcurrent

(* Every workload that runs on a node is counted there, over any sequence  *)
(* of calls, copies of a workload in the queue included.                   *)
LoadCoversScheduled == \A n \in Node \ Renewed : load[n] >= Cardinality(On(n))

(* The same with the one way to lose a count: a workload that is assigned  *)
(* between the two halves of a release is not in what the release stores.  *)
OnlyReleasesMiscount ==
  \A n \in Node \ (Renewed \cup overwritten) : load[n] >= Cardinality(On(n))

InHand == {w \in Work : \E c \in Caller : chosen[c] # Idle /\ chosen[c][1] = w}

(* A workload whose caller was told that it is queued stays queued until   *)
(* it is scheduled or its deadline passed.                                 *)
QueuedIsKept == submitted \subseteq answered \cup Queued \cup InHand

(* The same with the one way to lose a workload: to be queued between the  *)
(* last look of a drain at _pending and its replacement.  At any other     *)
(* moment calls and drains may overlap.                                    *)
OnlySwapsLose == submitted \ exposed \subseteq answered \cup Queued \cup InHand

(* A thread that may scale decided last a cooldown ago, less the time that *)
(* an evaluation of another takes, although each writes its own beginning  *)
(* over the beginnings of the others.                                      *)
ThreadsRest ==
  \A e \in Evaluator : evaluating[e] = "no" /\ Rested =>
                         scaleTime - decided[e] >= ScaleCooldown - MaxEvaluation

(* With calls, releases and drains that overlap in any way: what runs is   *)
(* counted, what waits is kept, and no thread scales twice in a cooldown,  *)
(* with the exceptions named above.                                        *)
WorkIsAccounted == OnlyReleasesMiscount /\ OnlySwapsLose /\ ThreadsRest

(* ScalingPolicy: "seconds between scaling actions".  The actions of all   *)
(* threads are a cooldown apart.                                           *)
ScalingsRest ==
  [][\A e, f \in Evaluator : Evaluate(e) => scaleTime - decided[f] >= ScaleCooldown]_scalerVars

(* resource_manager.py: "Release a completed workload from its node".  A   *)
(* node counts the workloads that run on it, so that after the last        *)
(* release it is free again.                                               *)
LoadIsScheduled == \A n \in Node : load[n] = Cardinality(On(n))
=============================================================================
