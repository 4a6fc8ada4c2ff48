---------------------- MODULE AuthorizationGateProofs ----------------------
(***************************************************************************)
(* Proofs about AuthorizationGate, for any sets of requests, ids and       *)
(* controllers, any assignment of roles, any timeouts and audit length.    *)
(***************************************************************************)
EXTENDS AuthorizationGate, FiniteSetTheorems, SequenceTheorems, TLAPS

(* A request that has not been sent has left no trace.                     *)
UnsentIsBlank ==
  \A r \in Request : pc[r] = "new" =>
    /\ fate[r] = "open"
    /\ approvals[r] = {}
    /\ r \notin topic

(* The queue holds open submissions, each under its own id.                *)
QueueHoldsOpen ==
  \A a \in Advisory : queue[a] # None =>
    /\ pc[queue[a]] # "new"
    /\ fate[queue[a]] = "open"
    /\ qa[queue[a]].id = a

(* first_auth_by names someone whose approval of this object was accepted  *)
(* and tells of every approval of an open one; every accepted approval     *)
(* came from an eligible controller.                                       *)
ApprovalsAreReal ==
  \A r \in Request :
    /\ qa[r].first_auth_by # Nobody => qa[r].first_auth_by \in approvals[r]
    /\ qa[r].first_auth_by = Nobody /\ fate[r] = "open" => approvals[r] = {}
    /\ \A c \in approvals[r] : Eligible(c, qa[r].tier)

-----------------------------------------------------------------------------
(* The depth of the queue is a natural number.                             *)
LEMMA DepthType == ASSUME NEW q PROVE Depth(q) \in Nat
<1>1. IsFiniteSet({a \in Advisory : q[a] # None})
  BY GateAssumption, FS_Subset
<1>2. QED
  BY <1>1, FS_CardinalityType DEF Depth

(* An escalation pass raises finitely many advisories.                     *)
LEMMA DueType ==
  ASSUME NEW S \in SUBSET Request
  PROVE  Cardinality(S) \in Nat
BY GateAssumption, FS_Subset, FS_CardinalityType

(* A full log drops its oldest entry and stays a sequence of entries.      *)
LEMMA KeepLastType ==
  ASSUME NEW s \in Seq(AuditEntry), NEW e \in AuditEntry
  PROVE  KeepLast(Append(s, e)) \in Seq(AuditEntry)
<1>1. Append(s, e) \in Seq(AuditEntry) /\ Append(s, e) # <<>>
  BY AppendProperties
<1>2. Tail(Append(s, e)) \in Seq(AuditEntry)
  BY <1>1, HeadTailProperties
<1>3. QED
  BY <1>1, <1>2 DEF KeepLast

-----------------------------------------------------------------------------
(* Counting keeps the counters natural numbers.                            *)
LEMMA StatsTypes ==
  ASSUME NEW s \in Stats, NEW n \in Nat
  PROVE  /\ [s EXCEPT !.enqueued = @ + 1] \in Stats
         /\ [s EXCEPT !.authorized = @ + 1] \in Stats
         /\ [s EXCEPT !.rejected = @ + 1] \in Stats
         /\ [s EXCEPT !.escalated = @ + n] \in Stats
BY DEF Stats

(* An authorization and an escalation keep an advisory well typed.         *)
LEMMA AdvisoryTypes ==
  ASSUME NEW q \in QueuedAdvisory
  PROVE  /\ \A c \in Controller : [q EXCEPT !.first_auth_by = c] \in QueuedAdvisory
         /\ q.escalation_count < MaxEscalations =>
              [q EXCEPT !.escalation_count = @ + 1] \in QueuedAdvisory
BY DEF QueuedAdvisory, MaxEscalations

(* What recording a decision leaves of the types.                          *)
DecisionTypes(r, action, c) ==
  /\ stats' \in Stats
  /\ audit' \in Seq(AuditEntry)
  /\ fate' \in [Request -> {"open", "AUTHORIZE", "REJECT", "replaced"}]

(* Recording a decision keeps counters, log and fates well typed.          *)
LEMMA RecordDecisionTypes ==
  ASSUME TypeOK, NEW r \in Request, NEW c \in Controller,
         NEW action \in {"AUTHORIZE", "REJECT"}, RecordDecision(r, action, c)
  PROVE  DecisionTypes(r, action, c)
<1>1. [request |-> r, action |-> action, controllerId |-> c] \in AuditEntry
  BY DEF AuditEntry
<1>2. audit' \in Seq(AuditEntry)
  BY <1>1, KeepLastType DEF RecordDecision, TypeOK
<1>3. QED
  BY <1>2, StatsTypes DEF RecordDecision, TypeOK, DecisionTypes

(* TypeOK is an invariant: every variable keeps its type, in particular an *)
(* escalation count never passes MaxEscalations (_escalation_loop).        *)
THEOREM TypeCorrect == Spec => []TypeOK
<1>1. Init => TypeOK
  BY GateAssumption DEF Init, TypeOK, NoAdvisory, QueuedAdvisory, Stats, Tier, MaxEscalations
<1>2. TypeOK /\ [Next]_vars => TypeOK'
  <2> SUFFICES ASSUME TypeOK, [Next]_vars PROVE TypeOK'
    OBVIOUS
  <2> USE GateAssumption DEF TypeOK
  <2>1. ASSUME NEW r \in Request, NEW a \in Advisory, NEW t \in Tier, StoreAdvisory(r, a, t)
        PROVE  TypeOK'
    BY <2>1 DEF StoreAdvisory, QueuedAdvisory, MaxEscalations
  <2>2. ASSUME NEW r \in Request, MeasureDepth(r)
        PROVE  TypeOK'
    BY <2>2, DepthType DEF MeasureDepth
  <2>3. ASSUME NEW r \in Request, FinishEnqueue(r)
        PROVE  TypeOK'
    BY <2>3, StatsTypes DEF FinishEnqueue, CountEnqueued
  <2>4. ASSUME NEW a \in Advisory, NEW c \in Controller, FirstAuthorization(a, c)
        PROVE  TypeOK'
    BY <2>4, AdvisoryTypes DEF FirstAuthorization, MayDecide
  <2>5. ASSUME NEW a \in Advisory, NEW c \in Controller, Authorize(a, c)
        PROVE  TypeOK'
    <3>1. queue[a] \in Request
      BY <2>5 DEF Authorize, MayDecide
    <3>2. DecisionTypes(queue[a], "AUTHORIZE", c)
      BY <2>5, <3>1, RecordDecisionTypes DEF Authorize
    <3>3. queue' \in [Advisory -> Request \cup {None}] /\ dirty' \in BOOLEAN /\ gauge' \in Nat
      BY <2>5, DepthType DEF Authorize, Dequeue
    <3>4. QED
      BY <2>5, <3>1, <3>2, <3>3 DEF Authorize, Publish, DecisionTypes
  <2>6. ASSUME NEW a \in Advisory, NEW c \in Controller, Reject(a, c)
        PROVE  TypeOK'
    <3>1. queue[a] \in Request
      BY <2>6 DEF Reject, MayDecide
    <3>2. DecisionTypes(queue[a], "REJECT", c)
      BY <2>6, <3>1, RecordDecisionTypes DEF Reject
    <3>3. queue' \in [Advisory -> Request \cup {None}] /\ dirty' \in BOOLEAN /\ gauge' \in Nat
      BY <2>6, DepthType DEF Reject, Dequeue
    <3>4. QED
      BY <2>6, <3>1, <3>2, <3>3 DEF Reject, DecisionTypes
  <2>7. CASE GetQueue
    BY <2>7 DEF GetQueue, Queued
  <2>8. CASE EscalationWakes
    BY <2>8 DEF EscalationWakes
  <2>9. CASE EscalationPass
    <3> DEFINE due == {r \in Queued : Overdue(r, scan)}
    <3>1. due \in SUBSET Request /\ Cardinality(due) \in Nat
      BY DueType DEF Queued
    <3>2. stats' \in Stats
      BY <2>9, <3>1, StatsTypes DEF EscalationPass
    <3>3. qa' \in [Request -> QueuedAdvisory]
      <4>1. ASSUME NEW r \in due
            PROVE  [qa[r] EXCEPT !.escalation_count = @ + 1] \in QueuedAdvisory
        BY <3>1, AdvisoryTypes DEF Overdue
      <4>2. QED
        BY <2>9, <4>1 DEF EscalationPass
    <3>4. QED
      BY <2>9, <3>2, <3>3 DEF EscalationPass
  <2>10. CASE Tick
    BY <2>10 DEF Tick
  <2>11. CASE UNCHANGED vars
    BY <2>11 DEF vars
  <2>12. QED
    BY <2>1, <2>2, <2>3, <2>4, <2>5, <2>6, <2>7, <2>8, <2>9, <2>10, <2>11
       DEF Next, Enqueue, Decide
<1>3. QED
  BY <1>1, <1>2, PTL DEF Spec

-----------------------------------------------------------------------------
(* HistoryInv is inductive.  Types come from TypeCorrect; the rest is proved  *)
(* action by action.  It is needed because ReleaseNeedsApproval alone says *)
(* nothing about the objects still queued, from which releases are made.   *)
HistoryInv ==
  UnsentIsBlank /\ QueueHoldsOpen /\ ApprovalsAreReal /\ ReleaseNeedsApproval

(* Storing a submission puts a blank object in the queue.                  *)
LEMMA StorePreserves ==
  ASSUME TypeOK, TypeOK', HistoryInv,
         NEW r \in Request, NEW a \in Advisory, NEW t \in Tier, StoreAdvisory(r, a, t)
  PROVE  HistoryInv'
<1> USE GateAssumption DEF HistoryInv, StoreAdvisory, TypeOK
<1>1. UnsentIsBlank'
  BY DEF UnsentIsBlank, QueueHoldsOpen
<1>2. QueueHoldsOpen'
  <2> SUFFICES ASSUME NEW b \in Advisory, queue'[b] # None
               PROVE  /\ pc'[queue'[b]] # "new"
                      /\ fate'[queue'[b]] = "open"
                      /\ qa'[queue'[b]].id = b
    BY DEF QueueHoldsOpen
  <2>1. CASE b = a
    BY <2>1 DEF QueueHoldsOpen, UnsentIsBlank
  <2>2. CASE b # a
    <3>1. queue'[b] = queue[b] /\ queue[b] \in Request /\ queue[b] # r
      BY <2>2 DEF QueueHoldsOpen
    <3>2. queue[a] # queue[b]
      <4>1. qa[queue[b]].id = b
        BY <2>2, <3>1 DEF QueueHoldsOpen
      <4>2. queue[a] # None => qa[queue[a]].id = a
        BY DEF QueueHoldsOpen
      <4>3. QED
        BY <2>2, <3>1, <4>1, <4>2
    <3>3. QED
      BY <3>1, <3>2 DEF QueueHoldsOpen
  <2>3. QED
    BY <2>1, <2>2
<1>3. ApprovalsAreReal'
  BY DEF ApprovalsAreReal, UnsentIsBlank
<1>4. ReleaseNeedsApproval'
  <2> SUFFICES ASSUME NEW q \in topic'
               PROVE  /\ fate'[q] = "AUTHORIZE"
                      /\ \A c \in approvals'[q] : Eligible(c, qa'[q].tier)
                      /\ \E c \in approvals'[q] : TRUE
                      /\ qa'[q].tier = 1 => \E c, d \in approvals'[q] : c # d
    BY DEF ReleaseNeedsApproval
  <2>1. q \in topic /\ q # r /\ q \in Request
    BY DEF UnsentIsBlank
  <2>2. fate[q] = "AUTHORIZE" /\ q # queue[a]
    BY <2>1 DEF ReleaseNeedsApproval, QueueHoldsOpen
  <2>3. QED
    BY <2>1, <2>2 DEF ReleaseNeedsApproval
<1>5. QED
  BY <1>1, <1>2, <1>3, <1>4

(* The first of two approvals is remembered in the queued object.          *)
LEMMA FirstPreserves ==
  ASSUME TypeOK, TypeOK', HistoryInv,
         NEW a \in Advisory, NEW c \in Controller, FirstAuthorization(a, c)
  PROVE  HistoryInv'
<1> DEFINE r == queue[a]
<1> USE GateAssumption DEF HistoryInv, FirstAuthorization, MayDecide
<1>1. r \in Request /\ pc[r] # "new" /\ fate[r] = "open" /\ r \notin topic
  BY DEF TypeOK, QueueHoldsOpen, ReleaseNeedsApproval
<1>2. \A q \in Request : qa'[q].id = qa[q].id /\ qa'[q].tier = qa[q].tier
  BY <1>1 DEF TypeOK, QueuedAdvisory
<1>3. UnsentIsBlank'
  BY <1>1 DEF UnsentIsBlank, TypeOK
<1>4. QueueHoldsOpen'
  BY <1>2 DEF QueueHoldsOpen, TypeOK
<1>5. ApprovalsAreReal'
  BY <1>1, <1>2 DEF ApprovalsAreReal, TypeOK, QueuedAdvisory
<1>6. ReleaseNeedsApproval'
  BY <1>1, <1>2 DEF ReleaseNeedsApproval, TypeOK
<1>7. QED
  BY <1>3, <1>4, <1>5, <1>6

(* Removing an entry and recording the decision, whoever is released.      *)
LEMMA DecisionPreserves ==
  ASSUME TypeOK, TypeOK', HistoryInv,
         NEW a \in Advisory, NEW c \in Controller, Authorize(a, c) \/ Reject(a, c)
  PROVE  UnsentIsBlank' /\ QueueHoldsOpen' /\ ApprovalsAreReal'
<1> DEFINE r == queue[a]
<1> USE DEF HistoryInv, TypeOK
<1>1. /\ r \in Request /\ pc[r] # "new" /\ fate[r] = "open" /\ qa[r].id = a
      /\ Eligible(c, qa[r].tier)
  BY DEF Authorize, Reject, MayDecide, QueueHoldsOpen
<1>2. /\ qa' = qa /\ pc' = pc
      /\ queue' = [queue EXCEPT ![a] = None]
      /\ fate'[r] # "open"
      /\ \A q \in Request : q # r => fate'[q] = fate[q]
      /\ \A q \in Request : q # r => approvals'[q] = approvals[q]
      /\ approvals'[r] \in {approvals[r], approvals[r] \cup {c}}
      /\ topic' \subseteq topic \cup {r}
  BY <1>1 DEF Authorize, Reject, Dequeue, RecordDecision, Publish
<1>3. UnsentIsBlank'
  BY <1>1, <1>2 DEF UnsentIsBlank
<1>4. QueueHoldsOpen'
  <2> SUFFICES ASSUME NEW b \in Advisory, queue'[b] # None
               PROVE  /\ pc'[queue'[b]] # "new"
                      /\ fate'[queue'[b]] = "open"
                      /\ qa'[queue'[b]].id = b
    BY DEF QueueHoldsOpen
  <2>1. b # a /\ queue'[b] = queue[b] /\ queue[b] \in Request
    BY <1>2
  <2>2. pc[queue[b]] # "new" /\ fate[queue[b]] = "open" /\ qa[queue[b]].id = b
    BY <2>1 DEF QueueHoldsOpen
  <2>3. QED
    BY <1>1, <1>2, <2>1, <2>2
<1>5. ApprovalsAreReal'
  BY <1>1, <1>2 DEF ApprovalsAreReal
<1>6. QED
  BY <1>3, <1>4, <1>5

(* A release is made with the approvals its tier asks for: for Tier 1 the  *)
(* stored first approval and this one, by two different controllers.       *)
LEMMA AuthorizeReleases ==
  ASSUME TypeOK, TypeOK', HistoryInv,
         NEW a \in Advisory, NEW c \in Controller, Authorize(a, c)
  PROVE  ReleaseNeedsApproval'
<1> DEFINE r == queue[a]
<1> USE DEF HistoryInv, TypeOK
<1>1. r \in Request /\ Eligible(c, qa[r].tier)
  BY DEF Authorize, MayDecide
<1>2. fate'[r] = "AUTHORIZE" /\ approvals'[r] = approvals[r] \cup {c} /\ qa' = qa
  BY <1>1 DEF Authorize, RecordDecision
<1>3. qa[r].tier = 1 => \E d \in approvals[r] : d # c
  BY <1>1 DEF Authorize, SecondFromAnother, ApprovalsAreReal
<1>4. ASSUME NEW q \in topic, q # r
      PROVE  q \in Request /\ fate'[q] = fate[q] /\ approvals'[q] = approvals[q]
  BY <1>1, <1>4 DEF Authorize, RecordDecision
<1>5. topic' \subseteq topic \cup {r}
  BY DEF Authorize, Publish
<1>6. ASSUME NEW q \in topic'
      PROVE  /\ fate'[q] = "AUTHORIZE"
             /\ \A d \in approvals'[q] : Eligible(d, qa'[q].tier)
             /\ \E d \in approvals'[q] : TRUE
             /\ qa'[q].tier = 1 => \E d, e \in approvals'[q] : d # e
  <2>1. CASE q = r
    BY <1>1, <1>2, <1>3, <2>1 DEF ApprovalsAreReal
  <2>2. CASE q # r
    BY <1>2, <1>4, <1>5, <2>2 DEF ReleaseNeedsApproval
  <2>3. QED
    BY <2>1, <2>2
<1>7. QED
  BY <1>6 DEF ReleaseNeedsApproval

(* HistoryInv is an invariant of the gate, whatever the interleaving.      *)
THEOREM HistoryIsConsistent == Spec => []HistoryInv
<1>1. Init => HistoryInv
  BY DEF Init, HistoryInv, UnsentIsBlank, QueueHoldsOpen, ApprovalsAreReal,
         ReleaseNeedsApproval, NoAdvisory
<1>2. TypeOK /\ TypeOK' /\ HistoryInv /\ [Next]_vars => HistoryInv'
  <2> SUFFICES ASSUME TypeOK, TypeOK', HistoryInv, [Next]_vars
               PROVE  HistoryInv'
    OBVIOUS
  <2>1. ASSUME NEW a \in Advisory, NEW c \in Controller, Authorize(a, c)
        PROVE  HistoryInv'
    BY <2>1, DecisionPreserves, AuthorizeReleases DEF HistoryInv
  <2>2. ASSUME NEW a \in Advisory, NEW c \in Controller, Reject(a, c)
        PROVE  HistoryInv'
    <3>1. queue[a] \in Request /\ queue[a] \notin topic
      BY <2>2 DEF Reject, MayDecide, TypeOK, HistoryInv, QueueHoldsOpen,
                  ReleaseNeedsApproval
    <3>2. ReleaseNeedsApproval'
      BY <2>2, <3>1 DEF Reject, RecordDecision, TypeOK, HistoryInv,
                        ReleaseNeedsApproval
    <3>3. QED
      BY <2>2, <3>2, DecisionPreserves DEF HistoryInv
  <2>3. CASE EscalationPass
    <3>1. \A q \in Request : /\ qa'[q].id = qa[q].id
                            /\ qa'[q].tier = qa[q].tier
                            /\ qa'[q].first_auth_by = qa[q].first_auth_by
      BY <2>3 DEF EscalationPass, TypeOK, QueuedAdvisory
    <3>2. QED
      BY <2>3, <3>1 DEF EscalationPass, HistoryInv, TypeOK, UnsentIsBlank,
           QueueHoldsOpen, ApprovalsAreReal, ReleaseNeedsApproval
  <2>4. CASE \/ \E r \in Request : MeasureDepth(r) \/ FinishEnqueue(r)
             \/ GetQueue \/ EscalationWakes \/ Tick \/ UNCHANGED vars
    BY <2>4 DEF MeasureDepth, FinishEnqueue, GetQueue, EscalationWakes, Tick,
         vars, HistoryInv, TypeOK, UnsentIsBlank, QueueHoldsOpen,
         ApprovalsAreReal, ReleaseNeedsApproval
  <2>5. QED
    BY <2>1, <2>2, <2>3, <2>4, StorePreserves, FirstPreserves
       DEF Next, Enqueue, Decide
<1>3. QED
  BY <1>1, <1>2, TypeCorrect, PTL DEF Spec

(* Nothing leaves the gate without the approvals its tier asks for         *)
(* (authorize in gate_service.py).                                         *)
THEOREM ReleaseIsApproved == Spec => []ReleaseNeedsApproval
BY HistoryIsConsistent, PTL DEF HistoryInv

(* A decided or replaced submission is never decided again, is not queued  *)
(* and is not released later (authorize, enqueue_advisory).                *)
THEOREM OutcomesAreFinal == Spec => OutcomeIsFinal
<1> DEFINE Final == \A r \in Request : fate[r] # "open" =>
                      /\ fate'[r] = fate[r]
                      /\ r \notin Queued'
                      /\ r \in topic' => r \in topic
<1>1. TypeOK /\ HistoryInv /\ HistoryInv' /\ [Next]_vars => [Final]_vars
  <2> SUFFICES ASSUME TypeOK, HistoryInv, HistoryInv', [Next]_vars,
                      NEW r \in Request, fate[r] # "open"
               PROVE  fate'[r] = fate[r] /\ (r \in topic' => r \in topic)
    BY GateAssumption DEF HistoryInv, QueueHoldsOpen, Queued, vars
  <2>1. pc[r] # "new" /\ \A a \in Advisory : queue[a] # r
    BY GateAssumption DEF HistoryInv, UnsentIsBlank, QueueHoldsOpen, TypeOK
  <2>2. ASSUME NEW q \in Request, NEW a \in Advisory, NEW t \in Tier, StoreAdvisory(q, a, t)
        PROVE  fate'[r] = fate[r] /\ topic' = topic
    BY <2>1, <2>2 DEF StoreAdvisory
  <2>3. ASSUME NEW a \in Advisory, NEW c \in Controller, Authorize(a, c) \/ Reject(a, c)
        PROVE  fate'[r] = fate[r] /\ (r \in topic' => r \in topic)
    <3>1. queue[a] # r
      BY <2>1
    <3>2. fate'[r] = fate[r]
      BY <2>3, <3>1 DEF Authorize, Reject, RecordDecision, TypeOK
    <3>3. topic' \subseteq topic \cup {queue[a]}
      BY <2>3 DEF Authorize, Reject, Publish
    <3>4. QED
      BY <3>1, <3>2, <3>3
  <2>4. CASE \/ \E q \in Request : MeasureDepth(q) \/ FinishEnqueue(q)
             \/ \E a \in Advisory, c \in Controller : FirstAuthorization(a, c)
             \/ GetQueue \/ EscalationWakes \/ EscalationPass \/ Tick
             \/ UNCHANGED vars
    BY <2>4 DEF MeasureDepth, FinishEnqueue, FirstAuthorization, GetQueue,
       EscalationWakes, EscalationPass, Tick, vars
  <2>5. QED
    BY <2>2, <2>3, <2>4 DEF Next, Enqueue, Decide
<1>2. QED
  BY <1>1, TypeCorrect, HistoryIsConsistent, PTL DEF Spec, OutcomeIsFinal

-----------------------------------------------------------------------------
(* EscalationNotEarly is not inductive alone: a pass judges by the time    *)
(* the thread read before it took the lock, which is never a later one.    *)
EscalationInv == EscalationNotEarly /\ scan <= now

(* No advisory climbs before its time, however long the escalation thread  *)
(* waits for the lock after it read the clock (_escalation_loop).          *)
THEOREM NoneClimbsEarly == Spec => []EscalationInv
<1>1. Init => EscalationInv
  BY GateAssumption DEF Init, EscalationInv, EscalationNotEarly, NoAdvisory, Asleep
<1>2. TypeOK /\ TypeOK' /\ EscalationInv /\ [Next]_vars => EscalationInv'
  <2> SUFFICES ASSUME TypeOK, TypeOK', EscalationInv, [Next]_vars
               PROVE  EscalationInv'
    OBVIOUS
  <2> USE GateAssumption DEF EscalationInv, TypeOK
  <2>1. \A r \in Request : /\ qa[r] \in QueuedAdvisory
                          /\ qa[r].created_at \in Int
                          /\ Timeout[qa[r].tier] \in Int
                          /\ qa[r].escalation_count \in Int
    BY DEF QueuedAdvisory
  <2>2. now \in Int /\ scan \in Int
    BY DEF Asleep
  <2>3. ASSUME NEW r \in Request, NEW a \in Advisory, NEW t \in Tier, StoreAdvisory(r, a, t)
        PROVE  EscalationInv'
    BY <2>3 DEF StoreAdvisory, EscalationNotEarly
  <2>4. ASSUME NEW a \in Advisory, NEW c \in Controller, FirstAuthorization(a, c)
        PROVE  EscalationInv'
    <3>1. \A r \in Request : /\ qa'[r].created_at = qa[r].created_at
                            /\ qa'[r].tier = qa[r].tier
                            /\ qa'[r].escalation_count = qa[r].escalation_count
      BY <2>4 DEF FirstAuthorization, QueuedAdvisory
    <3>2. QED
      BY <2>4, <3>1 DEF FirstAuthorization, EscalationNotEarly
  <2>5. CASE EscalationPass
    <3> SUFFICES ASSUME NEW r \in Request, qa'[r].escalation_count > 0
                 PROVE  now - qa'[r].created_at
                          > Timeout[qa'[r].tier] * qa'[r].escalation_count
      BY <2>2, <2>5 DEF EscalationPass, EscalationNotEarly, Asleep
    <3>1. CASE qa'[r] = qa[r]
      BY <3>1 DEF EscalationNotEarly
    <3>2. CASE qa'[r] # qa[r]
      <4>1. Overdue(r, scan) /\ qa'[r] = [qa[r] EXCEPT !.escalation_count = @ + 1]
        BY <2>5, <3>2 DEF EscalationPass
      <4>2. /\ qa'[r].created_at = qa[r].created_at
            /\ qa'[r].tier = qa[r].tier
            /\ qa'[r].escalation_count = qa[r].escalation_count + 1
        BY <2>1, <4>1 DEF QueuedAdvisory
      <4>3. scan - qa[r].created_at > Timeout[qa[r].tier] * (qa[r].escalation_count + 1)
        BY <4>1 DEF Overdue
      <4> DEFINE bound == Timeout[qa[r].tier] * (qa[r].escalation_count + 1)
      <4>4. bound \in Int
        BY <2>1
      <4> HIDE DEF bound
      <4>5. now - qa[r].created_at > bound
        BY <2>1, <2>2, <4>3, <4>4 DEF bound
      <4>6. QED
        BY <4>2, <4>5 DEF bound
    <3>3. QED
      BY <3>1, <3>2
  <2>6. CASE Tick
    <3> SUFFICES ASSUME NEW r \in Request, qa[r].escalation_count > 0
                 PROVE  now' - qa[r].created_at
                          > Timeout[qa[r].tier] * qa[r].escalation_count
      BY <2>2, <2>6 DEF Tick, EscalationNotEarly
    <3> DEFINE bound == Timeout[qa[r].tier] * qa[r].escalation_count
    <3>1. bound \in Int /\ now - qa[r].created_at > bound
      BY <2>1 DEF EscalationNotEarly
    <3> HIDE DEF bound
    <3>2. now' - qa[r].created_at > bound
      BY <2>1, <2>2, <2>6, <3>1 DEF Tick
    <3>3. QED
      BY <3>2 DEF bound
  <2>7. CASE \/ \E r \in Request : MeasureDepth(r) \/ FinishEnqueue(r)
             \/ \E a \in Advisory, c \in Controller : Authorize(a, c) \/ Reject(a, c)
             \/ GetQueue \/ EscalationWakes \/ UNCHANGED vars
    <3>1. qa' = qa /\ now' = now /\ scan' \in {scan, now}
      BY <2>7 DEF MeasureDepth, FinishEnqueue, Authorize, Reject, GetQueue,
                  EscalationWakes, vars
    <3>2. QED
      BY <2>2, <3>1 DEF EscalationNotEarly
  <2>8. QED
    BY <2>3, <2>4, <2>5, <2>6, <2>7 DEF Next, Enqueue, Decide
<1>3. QED
  BY <1>1, <1>2, TypeCorrect, PTL DEF Spec

-----------------------------------------------------------------------------
(* The books.  Accounting is about the sizes of three sets of requests, of *)
(* which every action moves at most one request.                           *)
BooksInv == BooksAgree /\ Len(audit) <= AuditCap

(* What Accounting counts is sets of requests, before and after a step.    *)
LEMMA BookSets ==
  /\ InHand \in SUBSET Request /\ InHand' \in SUBSET Request
  /\ Queued \in SUBSET Request /\ Queued' \in SUBSET Request
  /\ Replaced \in SUBSET Request /\ Replaced' \in SUBSET Request
BY DEF InHand, Queued, Replaced

(* Moving one request into or out of a set of requests counts one.         *)
LEMMA OneMoreOrLess ==
  ASSUME NEW S \in SUBSET Request, NEW r \in Request
  PROVE  /\ Cardinality(S) \in Nat
         /\ r \notin S => Cardinality(S \cup {r}) = Cardinality(S) + 1
         /\ r \in S => Cardinality(S \ {r}) = Cardinality(S) - 1
<1>1. IsFiniteSet(S)
  BY GateAssumption, FS_Subset
<1>2. QED
  BY <1>1, FS_CardinalityType, FS_AddElement, FS_RemoveElement

(* Each object waits under one id only, so dequeuing an id dequeues its    *)
(* object.                                                                 *)
LEMMA QueuedUnderOneId ==
  ASSUME TypeOK, HistoryInv, NEW a \in Advisory, queue[a] # None
  PROVE  /\ queue[a] \in Queued
         /\ \A b \in Advisory : b # a => queue[b] # queue[a]
BY DEF TypeOK, HistoryInv, QueueHoldsOpen, Queued

(* Storing counts one in hand and one queued, and one replaced when the id *)
(* was taken.                                                              *)
LEMMA StoreKeepsAccounts ==
  ASSUME TypeOK, HistoryInv, Accounting,
         NEW r \in Request, NEW a \in Advisory, NEW t \in Tier, StoreAdvisory(r, a, t)
  PROVE  Accounting'
<1>1. r \notin InHand /\ r \notin Queued /\ fate[r] = "open"
  BY GateAssumption DEF TypeOK, StoreAdvisory, InHand, Queued, HistoryInv,
       QueueHoldsOpen, UnsentIsBlank
<1>2. InHand' = InHand \cup {r} /\ stats' = stats
  BY DEF TypeOK, StoreAdvisory, InHand
<1>3. Cardinality(InHand') = Cardinality(InHand) + 1
  BY <1>1, <1>2, OneMoreOrLess, BookSets
<1>4. Cardinality(Queued') + Cardinality(Replaced')
        = Cardinality(Queued) + Cardinality(Replaced) + 1
  <2>1. CASE queue[a] = None
    <3>1. Queued' = Queued \cup {r} /\ Replaced' = Replaced
      BY <1>1, <2>1, GateAssumption DEF TypeOK, StoreAdvisory, Queued, Replaced
    <3>2. Cardinality(Queued') = Cardinality(Queued) + 1
      BY <1>1, <3>1, OneMoreOrLess, BookSets
    <3>3. Cardinality(Queued) \in Nat /\ Cardinality(Replaced) \in Nat
      BY OneMoreOrLess, BookSets
    <3>4. QED
      BY <3>1, <3>2, <3>3
  <2>2. CASE queue[a] # None
    <3> DEFINE old == queue[a]
    <3>1. /\ old \in Queued /\ old \in Request /\ old # r /\ old \notin Replaced
          /\ \A b \in Advisory : b # a => queue[b] # old
      BY <1>1, <2>2, QueuedUnderOneId DEF Queued, Replaced, HistoryInv, QueueHoldsOpen
    <3>2. Queued' = (Queued \ {old}) \cup {r} /\ Replaced' = Replaced \cup {old}
      <4>1. Queued' = (Queued \ {old}) \cup {r}
        BY <1>1, <3>1 DEF TypeOK, StoreAdvisory, Queued
      <4>2. Replaced' = Replaced \cup {old}
        BY <3>1 DEF TypeOK, StoreAdvisory, Replaced
      <4>3. QED
        BY <4>1, <4>2
    <3>3. Cardinality(Queued \ {old}) = Cardinality(Queued) - 1
      BY <3>1, OneMoreOrLess, BookSets
    <3>4. Cardinality(Queued') = Cardinality(Queued \ {old}) + 1
      BY <1>1, <3>2, OneMoreOrLess, BookSets
    <3>5. Cardinality(Replaced') = Cardinality(Replaced) + 1
      BY <3>1, <3>2, OneMoreOrLess, BookSets
    <3>6. Cardinality(Queued) \in Nat /\ Cardinality(Replaced) \in Nat
      BY <3>1, OneMoreOrLess, BookSets
    <3>7. QED
      BY <3>3, <3>4, <3>5, <3>6
  <2>3. QED
    BY <2>1, <2>2
<1>5. /\ Cardinality(InHand) \in Nat /\ Cardinality(Queued) \in Nat
      /\ Cardinality(Replaced) \in Nat /\ Cardinality(Queued') \in Nat
      /\ Cardinality(Replaced') \in Nat
  BY OneMoreOrLess, BookSets
<1>6. stats.enqueued \in Nat /\ stats.authorized \in Nat /\ stats.rejected \in Nat
  BY DEF TypeOK, Stats
<1>7. QED
  BY <1>2, <1>3, <1>4, <1>5, <1>6 DEF Accounting

(* A decision moves one request from the queue to one of the counters.     *)
LEMMA DecisionKeepsAccounts ==
  ASSUME TypeOK, HistoryInv, Accounting,
         NEW a \in Advisory, NEW c \in Controller, Authorize(a, c) \/ Reject(a, c)
  PROVE  Accounting'
<1> DEFINE r == queue[a]
<1>1. /\ r \in Request /\ r \in Queued /\ fate[r] = "open"
      /\ \A b \in Advisory : b # a => queue[b] # r
  <2>1. queue[a] # None
    BY DEF Authorize, Reject, MayDecide
  <2>2. QED
    BY <2>1, QueuedUnderOneId DEF TypeOK, HistoryInv, QueueHoldsOpen
<1>2. Queued' = Queued \ {r} /\ InHand' = InHand
  BY <1>1, GateAssumption DEF TypeOK, Authorize, Reject, Dequeue, Queued, InHand
<1>3. Replaced' = Replaced
  BY <1>1 DEF TypeOK, Authorize, Reject, RecordDecision, Replaced
<1>4. /\ stats'.enqueued = stats.enqueued
      /\ stats'.authorized + stats'.rejected = stats.authorized + stats.rejected + 1
      /\ stats'.authorized \in Nat /\ stats'.rejected \in Nat
      /\ stats.enqueued \in Nat /\ stats.authorized \in Nat /\ stats.rejected \in Nat
  <2>1. \/ stats' = [stats EXCEPT !.authorized = @ + 1]
        \/ stats' = [stats EXCEPT !.rejected = @ + 1]
    BY DEF Authorize, Reject, RecordDecision
  <2>2. stats \in Stats
    BY DEF TypeOK
  <2>3. QED
    BY <2>1, <2>2 DEF Stats
<1>5. Cardinality(Queued') = Cardinality(Queued) - 1
  BY <1>1, <1>2, OneMoreOrLess, BookSets
<1>6. /\ Cardinality(InHand) \in Nat /\ Cardinality(Queued) \in Nat
      /\ Cardinality(Replaced) \in Nat
  BY OneMoreOrLess, BookSets
<1>7. QED
  BY <1>2, <1>3, <1>4, <1>5, <1>6 DEF Accounting

(* What appending to a full or to a not yet full log makes of its entries. *)
LEMMA KeepLastEntries ==
  ASSUME NEW s \in Seq(AuditEntry), NEW e \in AuditEntry, Len(s) <= AuditCap,
         NEW t, t = KeepLast(Append(s, e))
  PROVE  \/ /\ Len(t) = Len(s) + 1 /\ Len(t) <= AuditCap
            /\ t[Len(t)] = e
            /\ \A i \in 1..Len(s) : t[i] = s[i]
         \/ /\ Len(t) = AuditCap /\ Len(s) = AuditCap
            /\ t[AuditCap] = e
            /\ \A i \in 1..(AuditCap - 1) : t[i] = s[i + 1]
<1> DEFINE l == Append(s, e)
<1>1. /\ l \in Seq(AuditEntry) /\ l # <<>> /\ Len(l) = Len(s) + 1 /\ l[Len(s) + 1] = e
      /\ \A i \in 1..Len(s) : l[i] = s[i]
      /\ Len(s) \in Nat
  BY AppendProperties, LenProperties
<1>2. CASE Len(l) > AuditCap
  <2>1. t = Tail(l) /\ Len(s) = AuditCap
    BY <1>1, <1>2, GateAssumption DEF KeepLast
  <2>2. Len(t) = AuditCap /\ \A i \in 1..AuditCap : t[i] = l[i + 1]
    BY <1>1, <2>1, HeadTailProperties
  <2>3. QED
    BY <1>1, <2>1, <2>2, GateAssumption
<1>3. CASE ~(Len(l) > AuditCap)
  BY <1>1, <1>3, GateAssumption DEF KeepLast
<1>4. QED
  BY <1>2, <1>3

(* The entries of the log, by their places in it.                          *)
LEMMA AuditEntries ==
  ASSUME TypeOK
  PROVE  /\ Len(audit) \in Nat /\ DOMAIN audit = 1..Len(audit)
         /\ \A i \in DOMAIN audit : audit[i] \in AuditEntry
BY LenProperties, ElementOfSeq DEF TypeOK

(* One decision adds the one entry of a request that had none.             *)
LEMMA DecisionKeepsAudit ==
  ASSUME TypeOK, HistoryInv, AuditMatchesDecisions, Len(audit) <= AuditCap,
         NEW r \in Request, NEW c \in Controller, fate[r] = "open",
         NEW action \in {"AUTHORIZE", "REJECT"}, RecordDecision(r, action, c)
  PROVE  AuditMatchesDecisions' /\ Len(audit') <= AuditCap
<1> DEFINE e == [request |-> r, action |-> action, controllerId |-> c]
<1>1. e \in AuditEntry /\ audit \in Seq(AuditEntry)
  BY DEF AuditEntry, TypeOK
<1>2. audit' = KeepLast(Append(audit, e)) /\ fate' = [fate EXCEPT ![r] = action]
  BY DEF RecordDecision
<1>3. e.request = r /\ e.action = action
  OBVIOUS
<1> HIDE DEF e
<1>4. /\ Len(audit) \in Nat /\ DOMAIN audit = 1..Len(audit)
      /\ \A i \in 1..Len(audit) : /\ audit[i].request \in Request
                                 /\ audit[i].action \in {"AUTHORIZE", "REJECT"}
      /\ AuditCap \in Nat \ {0}
      /\ \A i, j \in 1..Len(audit) : audit[i].request = audit[j].request => i = j
  BY AuditEntries, GateAssumption DEF AuditEntry, AuditMatchesDecisions
<1>5. ASSUME NEW i \in 1..Len(audit)
      PROVE  fate[audit[i].request] = audit[i].action /\ audit[i].request # r
  <2>1. fate[audit[i].request] = audit[i].action
    BY <1>4 DEF AuditMatchesDecisions
  <2>2. audit[i].action # "open"
    BY <1>4
  <2>3. QED
    BY <2>1, <2>2
<1>6. \/ /\ Len(audit') = Len(audit) + 1 /\ Len(audit') <= AuditCap
         /\ audit'[Len(audit')] = e
         /\ \A i \in 1..Len(audit) : audit'[i] = audit[i]
      \/ /\ Len(audit') = AuditCap /\ Len(audit) = AuditCap
         /\ audit'[AuditCap] = e
         /\ \A i \in 1..(AuditCap - 1) : audit'[i] = audit[i + 1]
  BY <1>1, <1>2, KeepLastEntries
<1>7. audit' \in Seq(AuditEntry) /\ DOMAIN audit' = 1..Len(audit')
  BY <1>1, <1>2, KeepLastType, LenProperties
<1>8. fate'[r] = action /\ \A q \in Request : q # r => fate'[q] = fate[q]
  BY <1>2 DEF TypeOK
<1>9. CASE Len(audit') = Len(audit) + 1 /\ Len(audit') <= AuditCap
           /\ audit'[Len(audit')] = e
           /\ \A i \in 1..Len(audit) : audit'[i] = audit[i]
  <2>1. \A i \in 1..Len(audit') :
          \/ i = Len(audit') /\ audit'[i] = e
          \/ i \in 1..Len(audit) /\ audit'[i] = audit[i]
    BY <1>4, <1>9
  <2>2. \A i, j \in DOMAIN audit' : audit'[i].request = audit'[j].request => i = j
    <3> SUFFICES ASSUME NEW i \in 1..Len(audit'), NEW j \in 1..Len(audit'),
                        audit'[i].request = audit'[j].request
                 PROVE  i = j
      BY <1>7
    <3>1. i \in 1..Len(audit) <=> j \in 1..Len(audit)
      BY <1>3, <1>5, <2>1
    <3>2. CASE i \in 1..Len(audit)
      BY <1>3, <1>4, <1>5, <2>1, <3>1, <3>2
    <3>3. CASE i \notin 1..Len(audit)
      BY <2>1, <3>1, <3>3
    <3>4. QED
      BY <3>2, <3>3
  <2>3. \A i \in DOMAIN audit' : fate'[audit'[i].request] = audit'[i].action
    <3> SUFFICES ASSUME NEW i \in 1..Len(audit')
                 PROVE  fate'[audit'[i].request] = audit'[i].action
      BY <1>7
    <3>1. CASE audit'[i] = e
      BY <1>3, <1>8, <3>1
    <3>2. CASE i \in 1..Len(audit) /\ audit'[i] = audit[i]
      BY <1>4, <1>5, <1>8, <3>2
    <3>3. QED
      BY <2>1, <3>1, <3>2
  <2>4. ASSUME NEW q \in Request, Decided(q)', Len(audit') # AuditCap
        PROVE  \E i \in DOMAIN audit' : audit'[i].request = q
    <3>1. CASE q = r
      BY <1>4, <1>7, <1>3, <1>9, <3>1
    <3>2. CASE q # r
      <4>1. Len(audit) # AuditCap
        <5>1. Len(audit') = Len(audit) + 1 /\ Len(audit') <= AuditCap
          BY <1>9
        <5>2. Len(audit) \in Nat /\ AuditCap \in Nat
          BY <1>4
        <5>3. QED
          BY <5>1, <5>2
      <4>2. Decided(q)
        BY <1>8, <2>4, <3>2 DEF Decided
      <4>3. PICK i \in 1..Len(audit) : audit[i].request = q
        BY <1>4, <4>1, <4>2 DEF AuditMatchesDecisions
      <4>4. i \in DOMAIN audit' /\ audit'[i].request = q
        BY <1>4, <1>7, <1>9, <4>3
      <4>5. QED
        BY <4>4
    <3>3. QED
      BY <3>1, <3>2
  <2>5. QED
    BY <1>9, <2>2, <2>3, <2>4 DEF AuditMatchesDecisions
<1>10. CASE Len(audit') = AuditCap /\ Len(audit) = AuditCap
            /\ audit'[AuditCap] = e
            /\ \A i \in 1..(AuditCap - 1) : audit'[i] = audit[i + 1]
  <2>1. \A i \in 1..Len(audit') :
          \/ i = AuditCap /\ audit'[i] = e
          \/ i + 1 \in 1..Len(audit) /\ audit'[i] = audit[i + 1]
    <3> SUFFICES ASSUME NEW i \in 1..AuditCap, i # AuditCap
                 PROVE  i + 1 \in 1..Len(audit) /\ audit'[i] = audit[i + 1]
      BY <1>10
    <3>1. i \in 1..(AuditCap - 1)
      BY <1>4
    <3>2. QED
      BY <1>4, <1>10, <3>1
  <2>2. \A i, j \in DOMAIN audit' : audit'[i].request = audit'[j].request => i = j
    <3> SUFFICES ASSUME NEW i \in 1..AuditCap, NEW j \in 1..AuditCap,
                        audit'[i].request = audit'[j].request
                 PROVE  i = j
      BY <1>7, <1>10
    <3>1. i = AuditCap => j = AuditCap
      BY <1>5, <1>3, <1>10, <2>1
    <3>2. j = AuditCap => i = AuditCap
      BY <1>5, <1>3, <1>10, <2>1
    <3>3. CASE i # AuditCap /\ j # AuditCap
      <4>1. /\ i + 1 \in DOMAIN audit /\ j + 1 \in DOMAIN audit
            /\ audit[i + 1].request = audit[j + 1].request
        BY <1>4, <1>10, <2>1, <3>3
      <4>2. i + 1 = j + 1
        BY <4>1 DEF AuditMatchesDecisions
      <4>3. QED
        BY <4>2
    <3>4. QED
      BY <3>1, <3>2, <3>3
  <2>3. \A i \in DOMAIN audit' : fate'[audit'[i].request] = audit'[i].action
    BY <1>4, <1>5, <1>7, <1>8, <1>3, <1>10, <2>1 
  <2>4. QED
    BY <1>10, <2>2, <2>3 DEF AuditMatchesDecisions
<1>11. QED
  BY <1>6, <1>9, <1>10

(* What the gate shows of itself agrees, whatever the interleaving: the    *)
(* counters of GET /stats, the view of GET /queue and the audit log.       *)
THEOREM BooksAlwaysAgree == Spec => []BooksAgree
<1>1. Init => BooksInv
  <2> SUFFICES ASSUME Init PROVE BooksInv
    OBVIOUS
  <2>1. InHand = {} /\ Replaced = {} /\ Queued = {}
    BY GateAssumption DEF Init, Queued, InHand, Replaced
  <2>2. Accounting
    BY <2>1, FS_EmptySet DEF Init, Accounting
  <2>3. AuditMatchesDecisions /\ Len(audit) <= AuditCap
    BY GateAssumption DEF Init, AuditMatchesDecisions, Decided
  <2>4. QED
    BY <2>2, <2>3 DEF Init, BooksInv, BooksAgree, ViewIsCurrent
<1>2. TypeOK /\ HistoryInv /\ BooksInv /\ [Next]_vars => BooksInv'
  <2> SUFFICES ASSUME TypeOK, HistoryInv, BooksInv, [Next]_vars
               PROVE  BooksInv'
    OBVIOUS
  <2> USE DEF BooksInv, BooksAgree
  <2>1. ASSUME NEW r \in Request, NEW a \in Advisory, NEW t \in Tier, StoreAdvisory(r, a, t)
        PROVE  BooksInv'
    <3>1. Accounting'
      BY <2>1, StoreKeepsAccounts
    <3>2. ViewIsCurrent'
      BY <2>1 DEF StoreAdvisory, ViewIsCurrent
    <3>3. \A q \in Request : Decided(q)' <=> Decided(q)
      BY <2>1, GateAssumption DEF StoreAdvisory, Decided, HistoryInv, QueueHoldsOpen, TypeOK
    <3>4. audit' = audit /\ \A i \in DOMAIN audit : audit[i] \in AuditEntry
      BY <2>1, AuditEntries DEF StoreAdvisory
    <3>5. \A i \in DOMAIN audit : fate'[audit[i].request] = fate[audit[i].request]
      <4> SUFFICES ASSUME NEW i \in DOMAIN audit
                   PROVE  fate'[audit[i].request] = fate[audit[i].request]
        OBVIOUS
      <4>1. fate[audit[i].request] \in {"AUTHORIZE", "REJECT"}
        BY <3>4 DEF AuditMatchesDecisions, AuditEntry
      <4>2. audit[i].request # queue[a]
        <5>1. audit[i].request # None
          BY <3>4, GateAssumption DEF AuditEntry
        <5>2. QED
          BY <4>1, <5>1 DEF HistoryInv, QueueHoldsOpen
      <4>3. QED
        BY <2>1, <3>4, <4>2 DEF StoreAdvisory, AuditEntry
    <3>6. AuditMatchesDecisions' /\ Len(audit') <= AuditCap
      BY <3>3, <3>4, <3>5 DEF AuditMatchesDecisions
    <3>7. QED
      BY <3>1, <3>2, <3>6
  <2>2. ASSUME NEW a \in Advisory, NEW c \in Controller, Authorize(a, c) \/ Reject(a, c)
        PROVE  BooksInv'
    <3>1. Accounting'
      BY <2>2, DecisionKeepsAccounts
    <3>2. ViewIsCurrent'
      BY <2>2 DEF Authorize, Reject, Dequeue, ViewIsCurrent
    <3>3. queue[a] \in Request /\ fate[queue[a]] = "open"
      BY <2>2 DEF Authorize, Reject, MayDecide, TypeOK, HistoryInv, QueueHoldsOpen
    <3>4. \/ RecordDecision(queue[a], "AUTHORIZE", c)
          \/ RecordDecision(queue[a], "REJECT", c)
      BY <2>2 DEF Authorize, Reject
    <3>5. AuditMatchesDecisions' /\ Len(audit') <= AuditCap
      BY <3>3, <3>4, DecisionKeepsAudit
    <3>6. QED
      BY <3>1, <3>2, <3>5
  <2>3. ASSUME NEW r \in Request, FinishEnqueue(r)
        PROVE  BooksInv'
    <3>1. r \in InHand /\ InHand' = InHand \ {r} /\ Queued' = Queued /\ Replaced' = Replaced
      BY <2>3 DEF FinishEnqueue, InHand, Queued, Replaced, TypeOK
    <3>2. Cardinality(InHand') = Cardinality(InHand) - 1 /\ Cardinality(InHand) \in Nat
      BY <3>1, OneMoreOrLess, BookSets
    <3>3. stats' = [stats EXCEPT !.enqueued = @ + 1] /\ stats \in Stats
      BY <2>3 DEF FinishEnqueue, CountEnqueued, TypeOK
    <3>4. Cardinality(Queued) \in Nat /\ Cardinality(Replaced) \in Nat
      BY OneMoreOrLess, BookSets
    <3>5. Accounting'
      BY <3>1, <3>2, <3>3, <3>4 DEF Accounting, Stats
    <3>6. QED
      BY <2>3, <3>1, <3>5 DEF FinishEnqueue, ViewIsCurrent, AuditMatchesDecisions, Decided
  <2>4. ASSUME NEW r \in Request, MeasureDepth(r)
        PROVE  BooksInv'
    <3>1. InHand' = InHand /\ Queued' = Queued /\ Replaced' = Replaced
      BY <2>4 DEF MeasureDepth, InHand, Queued, Replaced, TypeOK
    <3>2. QED
      BY <2>4, <3>1 DEF MeasureDepth, Accounting, ViewIsCurrent,
                        AuditMatchesDecisions, Decided
  <2>5. CASE EscalationPass
    <3>1. /\ stats'.enqueued = stats.enqueued /\ stats'.authorized = stats.authorized
          /\ stats'.rejected = stats.rejected
          /\ InHand' = InHand /\ Queued' = Queued /\ Replaced' = Replaced
      BY <2>5 DEF EscalationPass, TypeOK, Stats, InHand, Queued, Replaced
    <3>2. QED
      BY <2>5, <3>1 DEF EscalationPass, Accounting, ViewIsCurrent,
                        AuditMatchesDecisions, Decided
  <2>6. CASE \/ \E a \in Advisory, c \in Controller : FirstAuthorization(a, c)
             \/ GetQueue \/ EscalationWakes \/ Tick \/ UNCHANGED vars
    <3>1. /\ InHand' = InHand /\ Queued' = Queued /\ Replaced' = Replaced
          /\ stats' = stats /\ audit' = audit /\ fate' = fate
          /\ (dirty' = dirty /\ cache' = cache) \/ cache' = Queued
      BY <2>6 DEF FirstAuthorization, GetQueue, EscalationWakes, Tick, vars,
                  InHand, Queued, Replaced
    <3>2. QED
      BY <3>1 DEF Accounting, ViewIsCurrent, AuditMatchesDecisions, Decided
  <2>7. QED
    BY <2>1, <2>2, <2>3, <2>4, <2>5, <2>6 DEF Next, Enqueue, Decide
<1>3. QED
  BY <1>1, <1>2, TypeCorrect, HistoryIsConsistent, PTL DEF Spec, BooksInv

-----------------------------------------------------------------------------
(* The refinement: each action of the gate is a step of GateContract or    *)
(* changes nothing the contract sees.                                      *)

(* Storing a submission is Submit, with or without a pending predecessor.  *)
LEMMA StoreIsSubmit ==
  ASSUME TypeOK, HistoryInv,
         NEW r \in Request, NEW a \in Advisory, NEW t \in Tier, StoreAdvisory(r, a, t)
  PROVE  Contract!Submit(r, t)
<1> DEFINE state(q) == IF pc[q] = "new" THEN "absent"
                       ELSE IF fate[q] = "open" THEN "pending" ELSE fate[q]
<1> USE GateAssumption DEF StoreAdvisory, TypeOK
<1>1. [q \in Request |-> qa[q].tier]' = [[q \in Request |-> qa[q].tier] EXCEPT ![r] = t]
  OBVIOUS
<1>2. fate[r] = "open"
  BY DEF HistoryInv, UnsentIsBlank
<1>3. CASE queue[a] = None
  <2>1. [q \in Request |-> state(q)]' = [[q \in Request |-> state(q)] EXCEPT ![r] = "pending"]
    BY <1>2, <1>3
  <2>2. QED
    BY <1>1, <2>1 DEF Contract!Submit
<1>4. CASE queue[a] # None
  <2>1. queue[a] \in Request /\ queue[a] # r /\ state(queue[a]) = "pending"
    BY <1>4 DEF HistoryInv, QueueHoldsOpen
  <2>2. [q \in Request |-> state(q)]'
          = [[q \in Request |-> state(q)] EXCEPT ![r] = "pending", ![queue[a]] = "replaced"]
    BY <1>2, <2>1
  <2>3. QED
    BY <1>1, <2>1, <2>2 DEF Contract!Submit
<1>5. QED
  BY <1>3, <1>4

(* The first of two approvals is Endorse.                                  *)
LEMMA FirstIsEndorse ==
  ASSUME TypeOK, HistoryInv,
         NEW a \in Advisory, NEW c \in Controller, FirstAuthorization(a, c),
         NEW r \in Request, r = queue[a]
  PROVE  Contract!Endorse(r, c)
<1> USE DEF FirstAuthorization, MayDecide, TypeOK, HistoryInv
<1>1. r \in Request /\ pc[r] # "new" /\ fate[r] = "open"
  BY DEF QueueHoldsOpen
<1>2. <<c, qa[r].tier>> \in {ct \in Controller \X Tier : Eligible(ct[1], ct[2])}
  BY <1>1 DEF QueuedAdvisory
<1>3. approvals[r] = {}
  BY <1>1 DEF ApprovalsAreReal
<1>4. [q \in Request |-> qa[q].tier]' = [q \in Request |-> qa[q].tier]
  BY <1>1 DEF QueuedAdvisory
<1>5. QED
  BY <1>1, <1>2, <1>3, <1>4 DEF Contract!Endorse

(* The approval that suffices is Authorize, a refusal Reject.              *)
LEMMA DecisionIsDecision ==
  ASSUME TypeOK, HistoryInv,
         NEW a \in Advisory, NEW c \in Controller, NEW r \in Request, r = queue[a]
  PROVE  /\ Authorize(a, c) => Contract!Authorize(r, c)
         /\ Reject(a, c) => Contract!Reject(r)
<1> USE DEF TypeOK, HistoryInv, MayDecide
<1> DEFINE state == [q \in Request |->
                       IF pc[q] = "new" THEN "absent"
                       ELSE IF fate[q] = "open" THEN "pending" ELSE fate[q]]
<1>1. ASSUME MayDecide(a, c)
      PROVE  /\ r \in Request /\ state[r] = "pending"
             /\ pc[r] # "new"
             /\ <<c, qa[r].tier>>
                  \in {ct \in Controller \X Tier : Eligible(ct[1], ct[2])}
  BY <1>1 DEF QueueHoldsOpen, QueuedAdvisory
<1>2. ASSUME Authorize(a, c)
      PROVE  Contract!Authorize(r, c)
  <2> USE <1>2 DEF Authorize
  <2>1. qa[r].tier = 1 => \E d \in approvals[r] : d # c
    BY <1>1 DEF SecondFromAnother, ApprovalsAreReal
  <2>2. state' = [state EXCEPT ![r] = "AUTHORIZE"]
    BY <1>1 DEF RecordDecision
  <2>3. QED
    BY <1>1, <2>1, <2>2 DEF Contract!Authorize, Publish
<1>3. ASSUME Reject(a, c)
      PROVE  Contract!Reject(r)
  <2> USE <1>3 DEF Reject
  <2>1. state' = [state EXCEPT ![r] = "REJECT"]
    BY <1>1 DEF RecordDecision
  <2>2. QED
    BY <1>1, <2>1 DEF Contract!Reject
<1>4. QED
  BY <1>2, <1>3

(* The gate implements its contract (gate_service.py as a whole).          *)
THEOREM ContractHolds == Spec => ImplementsContract
<1>1. Init => Contract!Init
  BY DEF Init, Contract!Init, NoAdvisory
<1>2. TypeOK /\ HistoryInv /\ [Next]_vars => [Contract!Next]_(Contract!vars)
  <2> SUFFICES ASSUME TypeOK, HistoryInv, [Next]_vars
               PROVE  [Contract!Next]_(Contract!vars)
    OBVIOUS
  <2>1. ASSUME NEW r \in Request, NEW a \in Advisory, NEW t \in Tier, StoreAdvisory(r, a, t)
        PROVE  Contract!Next
    BY <2>1, StoreIsSubmit DEF Contract!Next
  <2>2. ASSUME NEW a \in Advisory, NEW c \in Controller,
               FirstAuthorization(a, c) \/ Authorize(a, c) \/ Reject(a, c)
        PROVE  Contract!Next
    <3>1. PICK r \in Request : r = queue[a]
      BY <2>2 DEF FirstAuthorization, Authorize, Reject, MayDecide, TypeOK
    <3>2. \/ Contract!Endorse(r, c)
          \/ Contract!Authorize(r, c)
          \/ Contract!Reject(r)
      BY <2>2, <3>1, FirstIsEndorse, DecisionIsDecision
    <3>3. QED
      BY <3>1, <3>2 DEF Contract!Next
  <2>3. CASE EscalationPass
    <3>1. [r \in Request |-> qa[r].tier]' = [r \in Request |-> qa[r].tier]
      BY <2>3 DEF EscalationPass, TypeOK, QueuedAdvisory
    <3>2. QED
      BY <2>3, <3>1 DEF EscalationPass, Contract!vars
  <2>4. CASE GetQueue \/ EscalationWakes \/ Tick \/ UNCHANGED vars
    BY <2>4 DEF GetQueue, EscalationWakes, Tick, vars, Contract!vars
  <2>5. ASSUME NEW r \in Request, FinishEnqueue(r)
        PROVE  UNCHANGED Contract!vars
    BY <2>5 DEF FinishEnqueue, Contract!vars, TypeOK
  <2>6. ASSUME NEW r \in Request, MeasureDepth(r)
        PROVE  UNCHANGED Contract!vars
    BY <2>6 DEF MeasureDepth, Contract!vars, TypeOK
  <2>7. QED
    BY <2>1, <2>2, <2>3, <2>4, <2>5, <2>6 DEF Next, Enqueue, Decide
<1>3. QED
  BY <1>1, <1>2, TypeCorrect, HistoryIsConsistent, PTL
     DEF Spec, ImplementsContract, Contract!Spec
=============================================================================
