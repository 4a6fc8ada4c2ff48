------------------------- MODULE AuthorizationGate -------------------------
(***************************************************************************)
(* The human-in-the-loop authorization gate of RailOS                      *)
(* (services/authorization_gate/gate_service.py).                          *)
(*                                                                         *)
(* ML subsystems POST advisories to the gate; they wait in an in-memory    *)
(* queue until an Operations Controller authorizes or rejects them.  An    *)
(* advisory of Tier 1 needs two different controllers.  An authorized      *)
(* advisory is published on a Kafka topic on a best-effort basis.  A       *)
(* background thread escalates advisories that wait too long.              *)
(*                                                                         *)
(* A Request is one call of POST /enqueue: it stands for the handler       *)
(* thread and for the _QueuedAdvisory object the handler creates.  Two     *)
(* requests may carry the same advisory id; the later one then takes the   *)
(* place of the earlier one in the queue.                                  *)
(***************************************************************************)
EXTENDS Integers, Sequences, FiniteSets

CONSTANTS
  Request,      \* enqueue calls, each creating one _QueuedAdvisory
  Advisory,     \* advisory ids
  Controller,   \* controller ids that reach the API
  Role,         \* [Controller -> role]; an unknown id has the role "OC"
  Nobody,       \* first_auth_by of an advisory nobody has authorized yet
  None,         \* "not in the queue"
  Timeout,      \* ESCALATION_TIMEOUTS, [Tier -> ticks]
  AuditCap,     \* maxlen of _audit_log (100 in the code)
  MaxTime       \* bound on the clock of the model

Tier == 1..3
Roles == {"SENIOR_OC", "OC", "SUPERVISOR"}
MaxEscalations == 3

ASSUME GateAssumption ==
  /\ IsFiniteSet(Request)
  /\ IsFiniteSet(Advisory)
  /\ Role \in [Controller -> Roles]
  /\ Nobody \notin Controller
  /\ None \notin Request
  /\ Timeout \in [Tier -> Nat \ {0}]
  /\ AuditCap \in Nat \ {0}
  /\ MaxTime \in Nat

(* CONTROLLER_ROLES: the tiers a role may decide.                          *)
CanAuthorizeTier(role) ==
  [SENIOR_OC |-> {1, 2, 3}, OC |-> {2, 3}, SUPERVISOR |-> {3}][role]

Eligible(c, t) == t \in CanAuthorizeTier(Role[c])

VARIABLES
  pc,         \* progress of each enqueue handler
  qa,         \* the _QueuedAdvisory object each request created
  queue,      \* _queue: advisory id -> request whose object is queued
  dirty,      \* _queue_dirty
  cache,      \* _queue_sorted_cache, as the set of requests it lists
  depthRead,  \* len(_queue) as an enqueue handler read it, outside the lock
  gauge,      \* queue_depth_gauge
  stats,      \* _stats
  audit,      \* _audit_log
  now,        \* time.monotonic()
  scan,       \* escalation thread: time it read before it took the lock
  approvals,  \* history: controllers whose AUTHORIZE call was accepted
  fate,       \* history: how a request left the queue
  topic       \* external: requests whose advisory reached the Kafka topic

(* Operators named Op_bug are Op with a plausible programming error.  No   *)
(* definition uses them: they show that a property would notice the error. *)

vars == <<pc, qa, queue, dirty, cache, depthRead, gauge, stats, audit, now,
          scan, approvals, fate, topic>>

Asleep == -1   \* the escalation thread is in time.sleep(15)

QueuedAdvisory ==
  [id: Advisory \cup {None}, tier: Tier, first_auth_by: Controller \cup {Nobody},
   created_at: Nat, escalation_count: 0..MaxEscalations]

(* The object before the handler has made it.                              *)
NoAdvisory == [id |-> None, tier |-> 3, first_auth_by |-> Nobody,
               created_at |-> 0, escalation_count |-> 0]

Stats == [enqueued: Nat, authorized: Nat, rejected: Nat, escalated: Nat]

AuditEntry == [request: Request, action: {"AUTHORIZE", "REJECT"},
               controllerId: Controller]

Queued == {r \in Request : \E a \in Advisory : queue[a] = r}
Depth(q) == Cardinality({a \in Advisory : q[a] # None})

TypeOK ==
  /\ pc \in [Request -> {"new", "stored", "measured", "done"}]
  /\ qa \in [Request -> QueuedAdvisory]
  /\ queue \in [Advisory -> Request \cup {None}]
  /\ dirty \in BOOLEAN
  /\ cache \subseteq Request
  /\ depthRead \in [Request -> Nat]
  /\ gauge \in Nat
  /\ stats \in Stats
  /\ audit \in Seq(AuditEntry)
  /\ now \in 0..MaxTime
  /\ scan \in Nat \cup {Asleep}
  /\ approvals \in [Request -> SUBSET Controller]
  /\ fate \in [Request -> {"open", "AUTHORIZE", "REJECT", "replaced"}]
  /\ topic \subseteq Request

-----------------------------------------------------------------------------
Init ==
  /\ pc = [r \in Request |-> "new"]
  /\ qa = [r \in Request |-> NoAdvisory]
  /\ queue = [a \in Advisory |-> None]
  /\ dirty = TRUE
  /\ cache = {}
  /\ depthRead = [r \in Request |-> 0]
  /\ gauge = 0
  /\ stats = [enqueued |-> 0, authorized |-> 0, rejected |-> 0, escalated |-> 0]
  /\ audit = <<>>
  /\ now = 0
  /\ scan = Asleep
  /\ approvals = [r \in Request |-> {}]
  /\ fate = [r \in Request |-> "open"]
  /\ topic = {}

-----------------------------------------------------------------------------
(* POST /enqueue.  The handler stores the object under the queue lock,     *)
(* then, without it, measures the queue, sets the gauge and counts.  An    *)
(* id that is already queued is overwritten.                               *)
StoreAdvisory(r, a, t) ==
  /\ pc[r] = "new"
  /\ pc' = [pc EXCEPT ![r] = "stored"]
  /\ qa' = [qa EXCEPT ![r] =
       [id |-> a, tier |-> t, first_auth_by |-> Nobody,
        created_at |-> now, escalation_count |-> 0]]
  /\ fate' = [q \in Request |-> IF q = queue[a] THEN "replaced" ELSE fate[q]]
  /\ queue' = [queue EXCEPT ![a] = r]
  /\ dirty' = TRUE
  /\ UNCHANGED <<cache, depthRead, gauge, stats, audit, now, scan, approvals, topic>>

MeasureDepth(r) ==
  /\ pc[r] = "stored"
  /\ pc' = [pc EXCEPT ![r] = "measured"]
  /\ depthRead' = [depthRead EXCEPT ![r] = Depth(queue)]
  /\ UNCHANGED <<qa, queue, dirty, cache, gauge, stats, audit, now, scan,
                 approvals, fate, topic>>

CountEnqueued_lost == stats
CountEnqueued == [stats EXCEPT !.enqueued = @ + 1]

FinishEnqueue(r) ==
  /\ pc[r] = "measured"
  /\ pc' = [pc EXCEPT ![r] = "done"]
  /\ gauge' = depthRead[r]
  /\ depthRead' = [depthRead EXCEPT ![r] = 0]
  /\ stats' = CountEnqueued
  /\ UNCHANGED <<qa, queue, dirty, cache, audit, now, scan,
                 approvals, fate, topic>>

-----------------------------------------------------------------------------
(* POST /authorize runs under the queue lock from lookup to answer.        *)

(* _publish_kafka: no producer, or a send that raises, loses the message   *)
(* and tells nobody.                                                       *)
Publish(r) == topic' \in {topic, topic \cup {r}}

(* _record_decision: counters, and one entry in a deque with a maxlen,     *)
(* naming the controller of this call only.                                *)
KeepLast_offByOne(s) == IF Len(s) >= AuditCap THEN Tail(s) ELSE s
KeepLast(s) == IF Len(s) > AuditCap THEN Tail(s) ELSE s

RecordDecision(r, action, c) ==
  /\ stats' = IF action = "AUTHORIZE"
              THEN [stats EXCEPT !.authorized = @ + 1]
              ELSE [stats EXCEPT !.rejected = @ + 1]
  /\ audit' = KeepLast(Append(audit,
                [request |-> r, action |-> action, controllerId |-> c]))
  /\ fate' = [fate EXCEPT ![r] = action]

Dequeue_keepsView(a) ==
  /\ queue' = [queue EXCEPT ![a] = None]
  /\ dirty' = dirty
  /\ gauge' = Depth(queue')

Dequeue(a) ==
  /\ queue' = [queue EXCEPT ![a] = None]
  /\ dirty' = TRUE
  /\ gauge' = Depth(queue')

(* The guards every decision passes: queued (404), role covers tier (403). *)
MayDecide_anyRole(a, c) == queue[a] # None

MayDecide(a, c) ==
  /\ queue[a] # None
  /\ Eligible(c, qa[queue[a]].tier)

FirstAuthorization(a, c) ==
  LET r == queue[a] IN
  /\ MayDecide(a, c)
  /\ qa[r].tier = 1
  /\ qa[r].first_auth_by = Nobody
  /\ qa' = [qa EXCEPT ![r].first_auth_by = c]
  /\ approvals' = [approvals EXCEPT ![r] = @ \cup {c}]
  /\ UNCHANGED <<pc, queue, dirty, cache, depthRead, gauge, stats, audit, now,
                 scan, fate, topic>>

(* Tier 1: a second, different controller (400 otherwise).                 *)
SecondFromAnother_same(r, c) == qa[r].first_auth_by # Nobody

SecondFromAnother(r, c) ==
  /\ qa[r].first_auth_by # Nobody
  /\ qa[r].first_auth_by # c

Authorize(a, c) ==
  LET r == queue[a] IN
  /\ MayDecide(a, c)
  /\ qa[r].tier = 1 => SecondFromAnother(r, c)
  /\ Publish(r)
  /\ Dequeue(a)
  /\ RecordDecision(r, "AUTHORIZE", c)
  /\ approvals' = [approvals EXCEPT ![r] = @ \cup {c}]
  /\ UNCHANGED <<pc, qa, cache, depthRead, now, scan>>

Reject(a, c) ==
  /\ MayDecide(a, c)
  /\ Dequeue(a)
  /\ RecordDecision(queue[a], "REJECT", c)
  /\ UNCHANGED <<pc, qa, cache, depthRead, now, scan, approvals, topic>>

(* GET /queue rebuilds the sorted view only when the queue changed.        *)
GetQueue ==
  /\ dirty
  /\ cache' = Queued
  /\ dirty' = FALSE
  /\ UNCHANGED <<pc, qa, queue, depthRead, gauge, stats, audit, now, scan,
                 approvals, fate, topic>>

-----------------------------------------------------------------------------
(* _escalation_loop reads the clock when it wakes, and only then takes the *)
(* queue lock; one pass raises each overdue advisory by one level.         *)
EscalationWakes ==
  /\ scan = Asleep
  /\ scan' = now
  /\ UNCHANGED <<pc, qa, queue, dirty, cache, depthRead, gauge, stats, audit,
                 now, approvals, fate, topic>>

Overdue_early(r, t) ==
  /\ t - qa[r].created_at > Timeout[qa[r].tier] * qa[r].escalation_count
  /\ qa[r].escalation_count < MaxEscalations

Overdue_once(r, t) ==
  /\ t - qa[r].created_at > Timeout[qa[r].tier] * (qa[r].escalation_count + 1)
  /\ qa[r].escalation_count = 0

Overdue(r, t) ==
  /\ t - qa[r].created_at > Timeout[qa[r].tier] * (qa[r].escalation_count + 1)
  /\ qa[r].escalation_count < MaxEscalations

EscalationPass ==
  LET due == {r \in Queued : Overdue(r, scan)} IN
  /\ scan # Asleep
  /\ scan' = Asleep
  /\ qa' = [r \in Request |-> IF r \in due
                               THEN [qa[r] EXCEPT !.escalation_count = @ + 1]
                               ELSE qa[r]]
  /\ stats' = [stats EXCEPT !.escalated = @ + Cardinality(due)]
  /\ UNCHANGED <<pc, queue, dirty, cache, depthRead, gauge, audit, now,
                 approvals, fate, topic>>

Tick ==
  /\ now < MaxTime
  /\ now' = now + 1
  /\ UNCHANGED <<pc, qa, queue, dirty, cache, depthRead, gauge, stats, audit,
                 scan, approvals, fate, topic>>

-----------------------------------------------------------------------------
Enqueue(r) == \/ \E a \in Advisory, t \in Tier : StoreAdvisory(r, a, t)
              \/ MeasureDepth(r)
              \/ FinishEnqueue(r)

Decide(a) == \E c \in Controller : \/ FirstAuthorization(a, c)
                                   \/ Authorize(a, c)
                                   \/ Reject(a, c)

Next ==
  \/ \E r \in Request : Enqueue(r)
  \/ \E a \in Advisory : Decide(a)
  \/ GetQueue
  \/ EscalationWakes
  \/ EscalationPass
  \/ Tick

Spec == Init /\ [][Next]_vars

(* The escalation thread is a daemon thread that never blocks for ever:    *)
(* the queue lock is held for a bounded time by every handler.             *)
FairSpec ==
  Spec /\ WF_vars(EscalationWakes) /\ WF_vars(EscalationPass) /\ WF_vars(Tick)

-----------------------------------------------------------------------------
(* Properties.                                                             *)

Decided(r) == fate[r] \in {"AUTHORIZE", "REJECT"}

(* Nothing leaves the gate for operations without the human decisions its  *)
(* tier asks for: one eligible controller, and two different ones for      *)
(* Tier 1, whose approvals were given to this very submission and not to   *)
(* an earlier one under the same id (authorize, requirement 40.3).         *)
ReleaseNeedsApproval ==
  \A r \in topic :
    /\ fate[r] = "AUTHORIZE"
    /\ \A c \in approvals[r] : Eligible(c, qa[r].tier)
    /\ \E c \in approvals[r] : TRUE
    /\ qa[r].tier = 1 => \E c, d \in approvals[r] : c # d

(* What left the queue stays out: a request that was decided or replaced   *)
(* is never decided again, is not in the queue and is not released later.  *)
OutcomeIsFinal ==
  [][\A r \in Request : fate[r] # "open" =>
        /\ fate'[r] = fate[r]
        /\ r \notin Queued'
        /\ r \in topic' => r \in topic]_vars

InHand == {r \in Request : pc[r] \in {"stored", "measured"}}
Replaced == {r \in Request : fate[r] = "replaced"}

(* The counters of GET /stats add up: what was counted in, or is about to  *)
(* be, is queued, decided or was replaced by a later submission.           *)
Accounting ==
  stats.enqueued + Cardinality(InHand)
    = Cardinality(Queued) + stats.authorized + stats.rejected + Cardinality(Replaced)

(* GET /queue never serves a stale view: when the flag says the cached     *)
(* list is current, it lists exactly the queued objects.                   *)
ViewIsCurrent == ~dirty => cache = Queued

(* An advisory reaches escalation level k only after waiting more than k   *)
(* timeouts of its tier, although the escalation thread judges by a clock  *)
(* it read before it got the lock.                                         *)
EscalationNotEarly ==
  \A r \in Request : qa[r].escalation_count > 0 =>
    now - qa[r].created_at > Timeout[qa[r].tier] * qa[r].escalation_count

(* The audit log has one entry per decided request as long as it is not    *)
(* full, and never two for the same request (_record_decision).            *)
AuditMatchesDecisions ==
  /\ \A i, j \in DOMAIN audit : audit[i].request = audit[j].request => i = j
  /\ \A i \in DOMAIN audit : fate[audit[i].request] = audit[i].action
  /\ \A r \in Request : Decided(r) =>
       \/ Len(audit) = AuditCap
       \/ \E i \in DOMAIN audit : audit[i].request = r

(* What the gate shows of itself agrees: counters, view and audit log,     *)
(* which are brought up to date by different statements, two of them       *)
(* outside the lock of the queue.                                          *)
BooksAgree == Accounting /\ ViewIsCurrent /\ AuditMatchesDecisions

(* An advisory nobody decides climbs to the last escalation level          *)
(* (_escalation_loop), if the clock of the model lasts long enough, and    *)
(* none climbs early.                                                      *)
EscalatedOrDecided ==
  /\ []EscalationNotEarly
  /\ \A r \in Request :
    (fate[r] = "open" /\ pc[r] # "new"
       /\ qa[r].created_at + MaxEscalations * Timeout[qa[r].tier] < MaxTime)
      ~> (fate[r] # "open" \/ qa[r].escalation_count = MaxEscalations)

(* The gate with its queue, lock-free counters, view and lossy publishing  *)
(* implements the contract of GateContract.                                *)
Contract == INSTANCE GateContract WITH
  Admits <- {ct \in Controller \X Tier : Eligible(ct[1], ct[2])},
  tier <- [r \in Request |-> qa[r].tier],
  state <- [r \in Request |-> IF pc[r] = "new" THEN "absent"
                              ELSE IF fate[r] = "open" THEN "pending"
                              ELSE fate[r]],
  released <- topic

ImplementsContract == Contract!Spec

-----------------------------------------------------------------------------
(* What the documents say and the code does not do.                        *)

(* tasks.md 14.4: "record both in audit log".                              *)
BothIdentitiesAudited ==
  \A i \in DOMAIN audit :
    (audit[i].action = "AUTHORIZE" /\ Len(audit) < AuditCap) =>
      \A c \in approvals[audit[i].request] :
        \E j \in DOMAIN audit : /\ audit[j].request = audit[i].request
                               /\ audit[j].controllerId = c

(* design.md: "no downstream system receives a forwarded advisory unless   *)
(* the audit log contains a corresponding authorize action".               *)
ReleaseStaysAudited ==
  \A r \in topic : \E i \in DOMAIN audit :
    audit[i].request = r /\ audit[i].action = "AUTHORIZE"

(* gate_queue_depth, "Current advisory queue depth", when no handler runs. *)
GaugeShowsDepth ==
  (\A r \in Request : pc[r] \in {"new", "done"}) => gauge = Depth(queue)
=============================================================================
