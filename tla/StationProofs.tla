---------------------------- MODULE StationProofs ----------------------------
(***************************************************************************)
(* Proofs about the station edge and the zone above it: the upstream sync, *)
(* the orchestrator, the active nodes and the inference queue, the model   *)
(* registry with its batches and the window of correlated anomalies, for   *)
(* any nodes, models, capacities and bounds.                               *)
(***************************************************************************)
EXTENDS StationAggregator, InferenceEngine, ZoneOrchestrator,
        FiniteSetTheorems, SequenceTheorems, WellFoundedInduction, TLAPS

-----------------------------------------------------------------------------
(* A sequence is its head and then its tail.                               *)
LEMMA HeadThenTail ==
  ASSUME NEW S, NEW s \in Seq(S), s # <<>>
  PROVE  s = <<Head(s)>> \o Tail(s)
PROOF
  <1>1. /\ Len(s) \in Nat \ {0} /\ Head(s) \in S /\ Head(s) = s[1]
        /\ Tail(s) \in Seq(S) /\ Len(Tail(s)) = Len(s) - 1
        /\ \A i \in 1..(Len(s) - 1) : Tail(s)[i] = s[i + 1]
    BY HeadTailProperties, EmptySeq
  <1> DEFINE a == <<Head(s)>>
             b == Tail(s)
             t == a \o b
  <1>2. a \in Seq(S) /\ Len(a) = 1 /\ a[1] = s[1]
    BY <1>1
  <1>3. b \in Seq(S) /\ Len(b) = Len(s) - 1 /\ \A i \in 1..(Len(s) - 1) : b[i] = s[i + 1]
    BY <1>1
  <1> HIDE DEF a, b
  <1>4. /\ t \in Seq(S) /\ Len(t) = 1 + (Len(s) - 1)
        /\ \A i \in 1..(1 + (Len(s) - 1)) : t[i] = IF i <= 1 THEN a[i] ELSE b[i - 1]
    <2>1. /\ t \in Seq(S) /\ Len(t) = Len(a) + Len(b)
          /\ \A i \in 1..(Len(a) + Len(b)) : t[i] = IF i <= Len(a) THEN a[i] ELSE b[i - Len(a)]
      <3>1. \A u, v \in Seq(S) :
              /\ u \o v \in Seq(S) /\ Len(u \o v) = Len(u) + Len(v)
              /\ \A i \in 1..(Len(u) + Len(v)) :
                   (u \o v)[i] = IF i <= Len(u) THEN u[i] ELSE v[i - Len(u)]
        BY ConcatProperties
      <3>2. QED
        BY <1>2, <1>3, <3>1
    <2>2. QED
      BY <1>2, <1>3, <2>1
  <1> HIDE DEF t
  <1>5. Len(t) = Len(s) /\ \A i \in 1..Len(s) : t[i] = s[i]
    BY <1>1, <1>2, <1>3, <1>4
  <1>6. s = t
    BY <1>4, <1>5, SeqEqual
  <1>7. QED
    BY <1>6 DEF t, a, b

(* A set of naturals has a least element.                                  *)
LEMMA LeastOfNaturals ==
  ASSUME NEW I, I \subseteq Nat, I # {}
  PROVE  \E i \in I : \A j \in I : i <= j
PROOF
  <1>1. IsWellFoundedOn(OpToRel(<, Nat), Nat)
    BY NatLessThanWellFounded
  <1>2. PICK i \in I : \A j \in I : ~(<<j, i>> \in OpToRel(<, Nat))
    BY <1>1, WFMin
  <1>3. \A j \in I : ~(j < i)
    BY <1>2 DEF OpToRel
  <1>4. QED
    BY <1>3

-----------------------------------------------------------------------------
(* The upstream sync.  What was sent, what flush holds and what waits are  *)
(* one increasing sequence cut in three, none of it later than the last    *)
(* event that was queued.                                                  *)
Increasing(s) == \A i, j \in DOMAIN s : i < j => s[i] < s[j]
Below(s, t) == \A i \in DOMAIN s, j \in DOMAIN t : s[i] < t[j]
UpTo(s, n) == \A i \in DOMAIN s : s[i] <= n

SyncInv ==
  /\ SyncTypeOK
  /\ Increasing(sent) /\ Increasing(batch) /\ Increasing(pending)
  /\ Below(sent, batch) /\ Below(sent, pending) /\ Below(batch, pending)
  /\ UpTo(sent, queued) /\ UpTo(batch, queued) /\ UpTo(pending, queued)

(* The elements of the deque after an append are those of before, in their *)
(* order, and the new one at the end (collections.deque.append).           *)
LEMMA AppendedKeepsOrder ==
  ASSUME NEW s \in Seq(Event), Len(s) <= Capacity, Increasing(s),
         NEW e \in Event, \A i \in DOMAIN s : s[i] < e
  PROVE  /\ Appended(s, e) \in Seq(Event) /\ Len(Appended(s, e)) <= Capacity
         /\ Increasing(Appended(s, e))
         /\ \A i \in DOMAIN Appended(s, e) :
              Appended(s, e)[i] = e \/ \E j \in DOMAIN s : Appended(s, e)[i] = s[j]
PROOF
  <1> DEFINE t == IF Len(s) < Capacity THEN s ELSE Tail(s)
             u == Append(t, e)
  <1>1. Capacity \in Nat \ {0} /\ MaxEvents \in Nat
    BY SyncAssumption
  <1>2. Len(s) \in Nat /\ DOMAIN s = 1..Len(s)
    BY LenProperties
  <1>3. /\ t \in Seq(Event) /\ Len(t) < Capacity
        /\ \E k \in {0, 1} : /\ Len(t) + k = Len(s)
                             /\ \A i \in 1..Len(t) : t[i] = s[i + k]
    <2>1. CASE Len(s) < Capacity
      BY <1>1, <1>2, <2>1
    <2>2. CASE Len(s) = Capacity
      <3>1. s # <<>>
        BY <1>1, <2>2, EmptySeq
      <3>2. QED
        BY <1>1, <1>2, <2>2, <3>1, HeadTailProperties
    <2>3. Len(s) < Capacity \/ Len(s) = Capacity
      <3> HIDE DEF t, u
      <3>1. Len(s) \in Int /\ Capacity \in Int
        BY <1>1, <1>2
      <3>2. QED
        BY <3>1
    <2> HIDE DEF t
    <2>4. QED
      BY <2>1, <2>2, <2>3
  <1>4. PICK k \in {0, 1} : /\ Len(t) + k = Len(s)
                            /\ \A i \in 1..Len(t) : t[i] = s[i + k]
    BY <1>3
  <1>5. Len(t) \in Nat /\ DOMAIN t = 1..Len(t)
    BY <1>3, LenProperties
  <1> HIDE DEF t
  <1>6. /\ u \in Seq(Event) /\ Len(u) = Len(t) + 1
        /\ \A i \in 1..Len(t) : u[i] = t[i]
        /\ u[Len(t) + 1] = e
    BY <1>3, AppendProperties
  <1>7. DOMAIN u = 1..(Len(t) + 1)
    BY <1>6, LenProperties
  <1>8. Appended(s, e) = u
    BY DEF Appended, t, u
  <1> HIDE DEF u
  <1>9. \A i \in DOMAIN u : u[i] = e \/ \E j \in DOMAIN s : u[i] = s[j]
    BY <1>2, <1>4, <1>5, <1>6, <1>7
  <1>10. Increasing(u)
    <2> SUFFICES ASSUME NEW i \in 1..(Len(t) + 1), NEW j \in 1..(Len(t) + 1), i < j
                 PROVE  u[i] < u[j]
      BY <1>7 DEF Increasing
    <2>1. i \in 1..Len(t) /\ u[i] = s[i + k] /\ i + k \in DOMAIN s
      BY <1>2, <1>4, <1>5, <1>6
    <2>2. CASE j = Len(t) + 1
      BY <1>6, <2>1, <2>2
    <2>3. CASE j \in 1..Len(t)
      <3>1. u[j] = s[j + k] /\ j + k \in DOMAIN s /\ i + k < j + k
        BY <1>2, <1>4, <1>5, <1>6, <2>3
      <3>2. QED
        BY <2>1, <3>1 DEF Increasing
    <2>4. QED
      BY <1>5, <2>2, <2>3
  <1>11. Len(u) <= Capacity
    BY <1>1, <1>3, <1>5, <1>6
  <1>12. QED
    BY <1>6, <1>8, <1>9, <1>10, <1>11

(* A deque that takes an event back at the left keeps its order too, and   *)
(* may give up its last event (collections.deque.appendleft).              *)
LEMMA AppendedLeftKeepsOrder ==
  ASSUME NEW s \in Seq(Event), Len(s) <= Capacity, Increasing(s),
         NEW e \in Event, \A i \in DOMAIN s : e < s[i]
  PROVE  /\ AppendedLeft(s, e) \in Seq(Event) /\ Len(AppendedLeft(s, e)) <= Capacity
         /\ Increasing(AppendedLeft(s, e))
         /\ \A i \in DOMAIN AppendedLeft(s, e) :
              AppendedLeft(s, e)[i] = e \/ \E j \in DOMAIN s : AppendedLeft(s, e)[i] = s[j]
PROOF
  <1> DEFINE t == IF Len(s) < Capacity THEN s ELSE Front(s)
             u == <<e>> \o t
  <1>1. Capacity \in Nat \ {0} /\ MaxEvents \in Nat
    BY SyncAssumption
  <1>2. Len(s) \in Nat /\ DOMAIN s = 1..Len(s)
    BY LenProperties
  <1>3. /\ t \in Seq(Event) /\ Len(t) < Capacity /\ Len(t) <= Len(s)
        /\ \A i \in 1..Len(t) : t[i] = s[i]
    <2>1. CASE Len(s) < Capacity
      BY <1>1, <1>2, <2>1
    <2>2. CASE Len(s) = Capacity
      <3>1. \A i \in 1..(Len(s) - 1) : s[i] \in Event
        BY <1>2, ElementOfSeq
      <3>2. /\ Front(s) \in Seq(Event) /\ Len(Front(s)) = Len(s) - 1
            /\ \A i \in 1..(Len(s) - 1) : Front(s)[i] = s[i]
        BY <1>1, <1>2, <2>2, <3>1, SubSeqProperties DEF Front
      <3>3. t = Front(s)
        BY <1>1, <2>2
      <3> HIDE DEF t
      <3>4. QED
        BY <1>1, <1>2, <2>2, <3>2, <3>3
    <2>3. Len(s) < Capacity \/ Len(s) = Capacity
      <3> HIDE DEF t, u
      <3>1. Len(s) \in Int /\ Capacity \in Int
        BY <1>1, <1>2
      <3>2. QED
        BY <3>1
    <2> HIDE DEF t
    <2>4. QED
      BY <2>1, <2>2, <2>3
  <1>4. Len(t) \in Nat /\ DOMAIN t = 1..Len(t)
    BY <1>3, LenProperties
  <1> HIDE DEF t
  <1>5. /\ u \in Seq(Event) /\ Len(u) = Len(t) + 1
        /\ u[1] = e
        /\ \A i \in 1..Len(t) : u[i + 1] = t[i]
    <2>1. <<e>> \in Seq(Event) /\ Len(<<e>>) = 1 /\ <<e>>[1] = e
      OBVIOUS
    <2>2. /\ u \in Seq(Event) /\ Len(u) = 1 + Len(t)
          /\ \A i \in 1..(1 + Len(t)) : u[i] = IF i <= 1 THEN <<e>>[i] ELSE t[i - 1]
      BY <1>3, <2>1, ConcatProperties
    <2> HIDE DEF u
    <2>3. QED
      BY <1>4, <2>1, <2>2
  <1>6. DOMAIN u = 1..(Len(t) + 1)
    BY <1>5, LenProperties
  <1>7. AppendedLeft(s, e) = u
    BY DEF AppendedLeft, t, u
  <1> HIDE DEF u
  <1>8. \A i \in DOMAIN u : i = 1 \/ (i - 1 \in 1..Len(t) /\ u[i] = s[i - 1] /\ i - 1 \in DOMAIN s)
    BY <1>2, <1>3, <1>4, <1>5, <1>6
  <1>9. \A i \in DOMAIN u : u[i] = e \/ \E j \in DOMAIN s : u[i] = s[j]
    BY <1>5, <1>8
  <1>10. Increasing(u)
    <2> SUFFICES ASSUME NEW i \in DOMAIN u, NEW j \in DOMAIN u, i < j
                 PROVE  u[i] < u[j]
      BY DEF Increasing
    <2>1. u[j] = s[j - 1] /\ j - 1 \in DOMAIN s /\ i \in Int /\ j \in Int
      BY <1>4, <1>6, <1>8
    <2>2. CASE i = 1
      BY <1>5, <2>1, <2>2
    <2>3. CASE i # 1
      <3>1. u[i] = s[i - 1] /\ i - 1 \in DOMAIN s /\ i - 1 < j - 1
        BY <1>8, <2>1, <2>3
      <3>2. QED
        BY <2>1, <3>1 DEF Increasing
    <2>4. QED
      BY <2>2, <2>3
  <1>11. Len(u) <= Capacity
    BY <1>1, <1>3, <1>4, <1>5
  <1>12. QED
    BY <1>5, <1>7, <1>9, <1>10, <1>11

(* Events reach the producer in the order they were queued and none twice: *)
(* the failed event goes back to the left end, below everything that       *)
(* waits (SyncManager.queue_event, flush).                                 *)
THEOREM EventsLeaveInOrder == SyncSpec => []SentInOrder
PROOF
  <1>1. SyncInit => SyncInv
    <2> SUFFICES ASSUME SyncInit PROVE SyncInv
      OBVIOUS
    <2>1. <<>> \in Seq(Event) /\ Len(<<>>) = 0 /\ DOMAIN <<>> = {}
      OBVIOUS
    <2>2. 0 <= Capacity /\ 0 <= BatchSize /\ 0 \in 0..MaxEvents
          /\ 0 \in 0..MaxSendFailures /\ 0 \in 0..MaxInitFailures
      BY SyncAssumption
    <2>3. SyncTypeOK
      BY <2>1, <2>2 DEF SyncInit, SyncTypeOK
    <2>4. QED
      BY <2>1, <2>3 DEF SyncInit, SyncInv, Increasing, Below, UpTo
  <1>2. SyncInv /\ [SyncNext]_syncVars => SyncInv'
    <2> SUFFICES ASSUME SyncInv, [SyncNext]_syncVars
                 PROVE  SyncInv'
      OBVIOUS
    <2>1. SyncTypeOK
      BY DEF SyncInv
    <2>2. /\ pending \in Seq(Event) /\ batch \in Seq(Event) /\ sent \in Seq(Event)
          /\ Len(pending) <= Capacity /\ Len(batch) <= BatchSize
          /\ queued \in 0..MaxEvents
          /\ Capacity \in Nat \ {0} /\ BatchSize \in Nat \ {0} /\ MaxEvents \in Nat
      BY <2>1, SyncAssumption DEF SyncTypeOK
    <2>3. /\ Len(pending) \in Nat /\ DOMAIN pending = 1..Len(pending)
          /\ Len(batch) \in Nat /\ DOMAIN batch = 1..Len(batch)
          /\ Len(sent) \in Nat /\ DOMAIN sent = 1..Len(sent)
      BY <2>2, LenProperties
    <2>4. /\ \A i \in DOMAIN pending : pending[i] \in Event
          /\ \A i \in DOMAIN batch : batch[i] \in Event
          /\ \A i \in DOMAIN sent : sent[i] \in Event
      BY <2>2, <2>3, ElementOfSeq
    <2>5. <<>> \in Seq(Event) /\ Len(<<>>) = 0 /\ DOMAIN <<>> = {}
      OBVIOUS
    <2>6. CASE QueueEvent
      <3>1. /\ pending' = Appended(pending, queued + 1)
            /\ queued' = queued + 1 /\ queued + 1 \in Event /\ queued' \in 0..MaxEvents
            /\ crowded' \in BOOLEAN
            /\ UNCHANGED <<batch, flushing, producer, sent, sendFails, initFails>>
        BY <2>1, <2>2, <2>6 DEF QueueEvent, SyncTypeOK, Event
      <3>2. Increasing(pending) /\ \A i \in DOMAIN pending : pending[i] < queued + 1
        BY <2>2, <2>4 DEF SyncInv, UpTo, Event
      <3>3. /\ pending' \in Seq(Event) /\ Len(pending') <= Capacity /\ Increasing(pending')
            /\ \A i \in DOMAIN pending' :
                 pending'[i] = queued + 1 \/ \E j \in DOMAIN pending : pending'[i] = pending[j]
        BY <2>2, <3>1, <3>2, AppendedKeepsOrder
      <3>4. SyncTypeOK'
        BY <2>1, <3>1, <3>3 DEF SyncTypeOK
      <3>5. /\ \A i \in DOMAIN pending' : pending'[i] <= queued + 1
            /\ \A i \in DOMAIN batch : batch[i] < queued + 1
            /\ \A i \in DOMAIN sent : sent[i] < queued + 1
        <4>1. \A i \in DOMAIN pending' : pending'[i] <= queued + 1
          <5>1. \A j \in DOMAIN pending : pending[j] <= queued + 1
            BY <2>2, <2>4, <3>2 DEF Event
          <5>2. queued + 1 <= queued + 1
            BY <2>2
          <5>3. QED
            BY <3>3, <5>1, <5>2
        <4>2. \A x \in Event : x <= queued => x < queued + 1
          BY <2>2 DEF Event
        <4>3. QED
          BY <2>4, <4>1, <4>2 DEF SyncInv, UpTo
      <3>6. Below(sent, pending') /\ Below(batch, pending')
        BY <3>3, <3>5 DEF SyncInv, Below
      <3>7. UpTo(sent, queued + 1) /\ UpTo(batch, queued + 1) /\ UpTo(pending', queued + 1)
        BY <2>2, <2>4, <3>5 DEF UpTo, Event
      <3>8. Increasing(sent) /\ Increasing(batch) /\ Below(sent, batch)
        BY DEF SyncInv
      <3>9. QED
        BY <3>1, <3>3, <3>4, <3>6, <3>7, <3>8 DEF SyncInv
    <2>7. CASE TakeBatch
      <3> DEFINE n == IF Len(pending) < BatchSize THEN Len(pending) ELSE BatchSize
      <3>1. n \in 0..Len(pending) /\ n <= BatchSize
        BY <2>2, <2>3
      <3>2. batch' = SubSeq(pending, 1, n) /\ pending' = SubSeq(pending, Len(batch') + 1, Len(pending))
        BY <2>7 DEF TakeBatch, Taken, Left
      <3> HIDE DEF n
      <3>3. /\ batch' \in Seq(Event) /\ Len(batch') = n
            /\ \A i \in 1..n : batch'[i] = pending[i]
        <4>1. n \in Int /\ \A i \in 1..n : pending[i] \in Event
          BY <2>3, <2>4, <3>1
        <4>2. /\ batch' \in Seq(Event)
              /\ Len(batch') = IF 1 <= n THEN n - 1 + 1 ELSE 0
              /\ \A i \in 1..(n - 1 + 1) : batch'[i] = pending[1 + i - 1]
          BY <3>2, <4>1, SubSeqProperties
        <4>3. QED
          BY <2>3, <3>1, <4>2
      <3>4. \A i \in (n + 1)..Len(pending) : pending[i] \in Event
        BY <2>3, <2>4, <3>1
      <3>5. /\ pending' \in Seq(Event) /\ Len(pending') = Len(pending) - n
            /\ \A i \in 1..(Len(pending) - n) : pending'[i] = pending[i + n]
        <4> DEFINE m == Len(pending)
        <4>1. n + 1 \in Int /\ m \in Int
          BY <2>3, <3>1
        <4>2. pending' = SubSeq(pending, n + 1, m) /\ \A i \in (n + 1)..m : pending[i] \in Event
          BY <3>2, <3>3, <3>4
        <4> HIDE DEF m
        <4>3. /\ pending' \in Seq(Event)
              /\ Len(pending') = IF n + 1 <= m THEN m - (n + 1) + 1 ELSE 0
              /\ \A i \in 1..(m - (n + 1) + 1) : pending'[i] = pending[(n + 1) + i - 1]
          BY <4>1, <4>2, SubSeqProperties
        <4>4. n \in 0..m /\ m \in Nat /\ m = Len(pending)
          BY <2>3, <3>1 DEF m
        <4>5. Len(pending') = m - n /\ m - (n + 1) + 1 = m - n
          BY <4>3, <4>4
        <4>6. \A i \in 1..(m - n) : pending'[i] = pending[i + n]
          BY <4>3, <4>4, <4>5
        <4>7. QED
          BY <4>3, <4>4, <4>5, <4>6
      <3>6. DOMAIN batch' = 1..n /\ DOMAIN pending' = 1..(Len(pending) - n)
        BY <3>3, <3>5, LenProperties
      <3>7. /\ flushing = "no" /\ flushing' = "producer"
            /\ UNCHANGED <<producer, queued, sent, crowded, sendFails, initFails>>
        BY <2>7 DEF TakeBatch
      <3>8. SyncTypeOK'
        BY <2>1, <2>2, <2>3, <3>1, <3>3, <3>5, <3>7 DEF SyncTypeOK
      <3>9. /\ \A i \in DOMAIN batch' : i \in DOMAIN pending /\ batch'[i] = pending[i]
            /\ \A i \in DOMAIN pending' : i + n \in DOMAIN pending /\ pending'[i] = pending[i + n]
        BY <2>3, <3>1, <3>3, <3>5, <3>6
      <3>10. Increasing(batch') /\ UpTo(batch', queued) /\ UpTo(pending', queued)
        BY <3>9 DEF SyncInv, Increasing, UpTo
      <3>11. Increasing(pending')
        BY <2>3, <3>1, <3>6, <3>9 DEF SyncInv, Increasing
      <3>12. Below(sent, batch') /\ Below(sent, pending')
        BY <3>9 DEF SyncInv, Below
      <3>13. Below(batch', pending')
        BY <2>3, <3>1, <3>6, <3>9 DEF SyncInv, Below, Increasing
      <3>14. Increasing(sent) /\ UpTo(sent, queued)
        BY DEF SyncInv
      <3>15. QED
        BY <3>7, <3>8, <3>10, <3>11, <3>12, <3>13, <3>14 DEF SyncInv
    <2>8. CASE SendEvent
      <3>1. /\ batch # <<>> /\ batch' = Tail(batch) /\ sent' = Append(sent, Head(batch))
            /\ flushing = "sends"
            /\ UNCHANGED <<pending, flushing, producer, queued, crowded, sendFails, initFails>>
        BY <2>8 DEF SendEvent
      <3>2. /\ Head(batch) \in Event /\ Head(batch) = batch[1] /\ 1 \in DOMAIN batch
            /\ batch' \in Seq(Event) /\ Len(batch') = Len(batch) - 1
            /\ \A i \in 1..Len(batch') : batch'[i] = batch[i + 1]
        BY <2>2, <2>3, <3>1, HeadTailProperties, EmptySeq
      <3>3. /\ sent' \in Seq(Event) /\ Len(sent') = Len(sent) + 1
            /\ \A i \in 1..Len(sent) : sent'[i] = sent[i]
            /\ sent'[Len(sent) + 1] = Head(batch)
        BY <2>2, <3>1, <3>2, AppendProperties
      <3>4. DOMAIN batch' = 1..(Len(batch) - 1) /\ DOMAIN sent' = 1..(Len(sent) + 1)
        BY <3>2, <3>3, LenProperties
      <3>5. SyncTypeOK'
        BY <2>1, <2>2, <2>3, <3>1, <3>2, <3>3 DEF SyncTypeOK
      <3>6. /\ \A i \in DOMAIN batch' : i + 1 \in DOMAIN batch /\ i + 1 > 1 /\ batch'[i] = batch[i + 1]
            /\ \A i \in DOMAIN sent' : \/ i \in DOMAIN sent /\ sent'[i] = sent[i]
                                       \/ i = Len(sent) + 1 /\ sent'[i] = batch[1]
        BY <2>3, <3>2, <3>3, <3>4
      <3>7. Increasing(batch') /\ UpTo(batch', queued) /\ Below(batch', pending)
        BY <2>3, <3>4, <3>6 DEF SyncInv, Increasing, UpTo, Below
      <3>8. Below(sent', batch')
        BY <2>3, <3>2, <3>4, <3>6 DEF SyncInv, Increasing, Below
      <3>9. UpTo(sent', queued) /\ Below(sent', pending)
        BY <3>2, <3>6 DEF SyncInv, UpTo, Below
      <3>10. Increasing(sent')
        BY <2>3, <3>2, <3>4, <3>6 DEF SyncInv, Increasing, Below
      <3>11. Increasing(pending) /\ UpTo(pending, queued)
        BY DEF SyncInv
      <3>12. QED
        BY <3>1, <3>5, <3>7, <3>8, <3>9, <3>10, <3>11 DEF SyncInv
    <2>9. CASE SendFails
      <3>1. /\ batch # <<>> /\ batch' = <<>> /\ flushing' = "no"
            /\ pending' = AppendedLeft(pending, Head(batch))
            /\ crowded' \in BOOLEAN /\ sendFails' \in 0..MaxSendFailures
            /\ UNCHANGED <<producer, queued, sent, initFails>>
        BY <2>1, <2>9, SyncAssumption DEF SendFails, Requeued, SyncTypeOK
      <3>2. Head(batch) \in Event /\ Head(batch) = batch[1] /\ 1 \in DOMAIN batch
        BY <2>2, <2>3, <3>1, HeadTailProperties, EmptySeq
      <3>3. Increasing(pending) /\ \A i \in DOMAIN pending : Head(batch) < pending[i]
        BY <3>2 DEF SyncInv, Below
      <3>4. /\ pending' \in Seq(Event) /\ Len(pending') <= Capacity /\ Increasing(pending')
            /\ \A i \in DOMAIN pending' :
                 pending'[i] = batch[1] \/ \E j \in DOMAIN pending : pending'[i] = pending[j]
        BY <2>2, <3>1, <3>2, <3>3, AppendedLeftKeepsOrder
      <3>5. SyncTypeOK'
        BY <2>1, <2>2, <2>5, <3>1, <3>4 DEF SyncTypeOK
      <3>6. Below(sent, pending') /\ UpTo(pending', queued)
        BY <3>2, <3>4 DEF SyncInv, Below, UpTo
      <3>7. Increasing(<<>>) /\ UpTo(<<>>, queued) /\ Below(sent, <<>>) /\ Below(<<>>, pending')
        BY <2>5 DEF Increasing, Below, UpTo
      <3>8. Increasing(sent) /\ UpTo(sent, queued)
        BY DEF SyncInv
      <3>9. QED
        BY <3>1, <3>4, <3>5, <3>6, <3>7, <3>8 DEF SyncInv
    <2>10. CASE GetProducer \/ NoProducer \/ EndFlush
      <3>1. /\ batch' \in {batch, <<>>} /\ flushing' \in {"no", "sends"}
            /\ flushing' = "no" => batch' = <<>>
            /\ producer' \in BOOLEAN /\ initFails' \in 0..MaxInitFailures
            /\ UNCHANGED <<pending, queued, sent, crowded, sendFails>>
        <4>1. CASE GetProducer
          BY <2>1, <4>1 DEF GetProducer, SyncTypeOK
        <4>2. CASE NoProducer
          BY <2>1, <4>2, SyncAssumption DEF NoProducer, SyncTypeOK
        <4>3. CASE EndFlush
          BY <2>1, <4>3 DEF EndFlush, SyncTypeOK
        <4>4. QED
          BY <2>10, <4>1, <4>2, <4>3
      <3>2. SyncTypeOK'
        <4>1. batch' \in Seq(Event) /\ Len(batch') <= BatchSize
          <5>1. CASE batch' = batch
            BY <2>2, <5>1
          <5>2. CASE batch' = <<>>
            <6>1. Len(batch') = 0 /\ batch' \in Seq(Event)
              BY <2>5, <5>2
            <6>2. QED
              BY <2>2, <6>1
          <5>3. QED
            BY <3>1, <5>1, <5>2
        <4>2. QED
          BY <2>1, <3>1, <4>1 DEF SyncTypeOK
      <3>3. Increasing(batch') /\ UpTo(batch', queued) /\ Below(sent, batch') /\ Below(batch', pending)
        BY <2>5, <3>1 DEF SyncInv, Increasing, Below, UpTo
      <3>4. /\ Increasing(sent) /\ UpTo(sent, queued) /\ Below(sent, pending)
            /\ Increasing(pending) /\ UpTo(pending, queued)
        BY DEF SyncInv
      <3>5. QED
        BY <3>1, <3>2, <3>3, <3>4 DEF SyncInv
    <2>11. CASE UNCHANGED syncVars
      BY <2>11 DEF SyncInv, SyncTypeOK, Increasing, Below, UpTo, syncVars
    <2>12. QED
      BY <2>6, <2>7, <2>8, <2>9, <2>10, <2>11 DEF SyncNext, Sync
  <1>3. SyncInv => SentInOrder
    BY DEF SyncInv, Increasing, SentInOrder
  <1>4. QED
    BY <1>1, <1>2, <1>3, PTL DEF SyncSpec

-----------------------------------------------------------------------------
(* The orchestrator.  A round has gradients of its participants only, and  *)
(* every round in the history is older than the one in progress.           *)
OlderThan(i, k) == history[i].number \in Nat /\ history[i].number < k

FederatedInv ==
  /\ counter \in 0..MaxRounds
  /\ invited \in (SUBSET Node) \cup {NotReading}
  /\ invited # NotReading => counter < MaxRounds
  /\ round \in Round /\ history \in Seq(Round)
  /\ training \in [Node -> 0..MaxRounds]
  /\ DOMAIN round.gradients \subseteq round.participants
  /\ round.number <= counter
  /\ \A i \in 1..Len(history) : OlderThan(i, counter + 1)
  /\ round # NoRound => \A i \in 1..Len(history) : OlderThan(i, round.number)
  /\ RoundsAreWhole

(* A station adds its gradients to a round, or replaces those it sent      *)
(* (submit_gradients).                                                     *)
LEMMA GradientsOfParticipants ==
  ASSUME FederatedInv, NEW n \in Node, IsParticipant(n)
  PROVE  /\ WithGradients(n) \in Round
         /\ WithGradients(n).number = round.number
         /\ WithGradients(n).participants = round.participants
         /\ DOMAIN WithGradients(n).gradients \subseteq round.participants
PROOF
  <1> DEFINE g == [m \in DOMAIN round.gradients \cup {n} |->
                     IF m = n THEN training[n] ELSE round.gradients[m]]
             D == DOMAIN round.gradients \cup {n}
  <1>1. /\ round \in Round /\ n \in round.participants /\ round.participants \in SUBSET Node
        /\ DOMAIN round.gradients \subseteq round.participants
        /\ training[n] \in 0..MaxRounds
    BY DEF FederatedInv, IsParticipant, Round
  <1>2. PICK S \in SUBSET Node : round.gradients \in [S -> 0..MaxRounds]
    BY <1>1 DEF Round
  <1>3. \A m \in DOMAIN round.gradients : round.gradients[m] \in 0..MaxRounds
    BY <1>2
  <1>4. D \in SUBSET Node /\ D \subseteq round.participants
    BY <1>1
  <1>5. g \in [D -> 0..MaxRounds] /\ DOMAIN g = D
    BY <1>1, <1>3
  <1>6. WithGradients(n) = [round EXCEPT !.gradients = g]
    BY DEF WithGradients
  <1> HIDE DEF g, D
  <1>7. g \in UNION {[T -> 0..MaxRounds] : T \in SUBSET Node}
    BY <1>4, <1>5
  <1>8. /\ WithGradients(n) = [number |-> round.number, participants |-> round.participants,
                               gradients |-> g]
    BY <1>1, <1>6 DEF Round
  <1>9. QED
    BY <1>1, <1>4, <1>5, <1>7, <1>8 DEF Round

(* The value for no round has no participants and no gradients.            *)
LEMMA NoRoundIsEmpty ==
  NoRound \in Round /\ NoRound.number = 0 /\ DOMAIN NoRound.gradients = {}
PROOF
  <1>1. MaxRounds \in Nat
    BY OrchestratorAssumption
  <1>2. <<>> \in [{} -> 0..MaxRounds] /\ DOMAIN <<>> = {}
    OBVIOUS
  <1>3. <<>> \in UNION {[S -> 0..MaxRounds] : S \in SUBSET Node}
    BY <1>2
  <1>4. QED
    BY <1>1, <1>2, <1>3 DEF NoRound, Round

(* A round is aggregated once and from exactly its participants, although  *)
(* rounds overtake each other and stations that left keep sending          *)
(* (start_round, submit_gradients, _aggregate).                            *)
THEOREM RoundsStayWhole == OrchestratorSpec => []RoundsAreWhole
PROOF
  <1>1. OrchestratorInit => FederatedInv
    <2> SUFFICES ASSUME OrchestratorInit PROVE FederatedInv
      OBVIOUS
    <2>1. MaxRounds \in Nat
      BY OrchestratorAssumption
    <2>2. /\ counter = 0 /\ invited = NotReading /\ round = NoRound /\ history = <<>>
          /\ training = [n \in Node |-> 0]
      BY DEF OrchestratorInit
    <2>3. history \in Seq(Round) /\ 1..Len(history) = {}
      BY <2>2
    <2>4. training \in [Node -> 0..MaxRounds] /\ counter \in 0..MaxRounds
      BY <2>1, <2>2
    <2>5. /\ round \in Round /\ DOMAIN round.gradients \subseteq round.participants
          /\ round.number <= counter
      BY <2>2, NoRoundIsEmpty
    <2>6. RoundsAreWhole /\ \A i \in 1..Len(history) : FALSE
      BY <2>3 DEF RoundsAreWhole
    <2>7. invited \in (SUBSET Node) \cup {NotReading} /\ ~(invited # NotReading)
      BY <2>2
    <2>8. QED
      BY <2>2, <2>3, <2>4, <2>5, <2>6, <2>7 DEF FederatedInv
  <1>2. FederatedInv /\ [OrchestratorNext]_zoneVars => FederatedInv'
    <2> SUFFICES ASSUME FederatedInv, [OrchestratorNext]_zoneVars
                 PROVE  FederatedInv'
      OBVIOUS
    <2>1. /\ counter \in 0..MaxRounds /\ MaxRounds \in Nat
          /\ round \in Round /\ history \in Seq(Round)
          /\ training \in [Node -> 0..MaxRounds]
          /\ Len(history) \in Nat
      BY OrchestratorAssumption, LenProperties DEF FederatedInv
    <2>2. CASE ReadHealthy
      <3>1. /\ counter < MaxRounds /\ invited' \in {Healthy, NotReading}
            /\ UNCHANGED <<round, counter, version, history, training>>
        BY <2>2 DEF ReadHealthy, roundVars
      <3>2. Healthy \in SUBSET Node
        BY DEF Healthy, Registered
      <3>3. invited' \in (SUBSET Node) \cup {NotReading} /\ counter' < MaxRounds
        <4>1. CASE invited' = Healthy
          BY <3>1, <3>2, <4>1
        <4>2. CASE invited' = NotReading
          BY <3>1, <4>2
        <4>3. QED
          BY <3>1, <4>1, <4>2
      <3>4. UNCHANGED <<round, counter, history, training>>
        BY <3>1
      <3>5. QED
        BY <3>3, <3>4 DEF FederatedInv, RoundsAreWhole, OlderThan
    <2>3. CASE StartRound
      <3>1. /\ invited # NotReading /\ invited' = NotReading /\ counter' = counter + 1
            /\ round' = [number |-> counter + 1, participants |-> invited, gradients |-> <<>>]
            /\ UNCHANGED <<version, history, training>>
        BY <2>3 DEF StartRound
      <3>2. counter' \in 0..MaxRounds /\ invited \in SUBSET Node
        <4>1. counter < MaxRounds /\ invited \in (SUBSET Node) \cup {NotReading}
          BY <3>1 DEF FederatedInv
        <4>2. invited \in SUBSET Node
          BY <3>1, <4>1
        <4>3. counter + 1 \in 0..MaxRounds
          BY <2>1, <4>1
        <4>4. QED
          BY <3>1, <4>2, <4>3
      <3>3. <<>> \in [{} -> 0..MaxRounds] /\ DOMAIN <<>> = {}
        OBVIOUS
      <3>4. <<>> \in UNION {[S -> 0..MaxRounds] : S \in SUBSET Node}
        BY <3>3
      <3>5. /\ round' \in Round /\ round'.number = counter + 1
            /\ DOMAIN round'.gradients \subseteq round'.participants
        BY <3>1, <3>2, <3>3, <3>4 DEF Round
      <3>6. \A i \in 1..Len(history) : OlderThan(i, counter + 1) /\ OlderThan(i, counter + 1 + 1)
        <4>1. \A m \in Nat : m < counter + 1 => m < counter + 1 + 1
          BY <2>1
        <4>2. QED
          BY <4>1 DEF FederatedInv, OlderThan
      <3>7. /\ \A i \in 1..Len(history') : OlderThan(i, counter + 1)'
            /\ \A i \in 1..Len(history') : OlderThan(i, round.number)'
        BY <3>1, <3>5, <3>6 DEF OlderThan
      <3>8. round'.number <= counter'
        BY <2>1, <3>1, <3>5
      <3>9. RoundsAreWhole'
        BY <3>1 DEF FederatedInv, RoundsAreWhole
      <3>10. QED
        <4>1. invited' \in (SUBSET Node) \cup {NotReading} /\ ~(invited' # NotReading)
          BY <3>1
        <4>2. history' \in Seq(Round) /\ training' \in [Node -> 0..MaxRounds]
          BY <2>1, <3>1
        <4>3. QED
          BY <3>2, <3>5, <3>7, <3>8, <3>9, <4>1, <4>2 DEF FederatedInv
    <2>4. ASSUME NEW n \in Node, Train(n) PROVE FederatedInv'
      <3>1. /\ training' = [training EXCEPT ![n] = round.number]
            /\ UNCHANGED <<invited, round, counter, version, history>>
        BY <2>4 DEF Train, roundVars
      <3>2. round.number \in 0..MaxRounds
        BY <2>1 DEF Round
      <3>3. training' \in [Node -> 0..MaxRounds]
        BY <2>1, <3>1, <3>2
      <3>4. QED
        BY <3>1, <3>3 DEF FederatedInv, RoundsAreWhole, OlderThan
    <2>5. ASSUME NEW n \in Node, SubmitGradients(n) PROVE FederatedInv'
      <3> DEFINE r == WithGradients(n)
      <3>1. /\ IsParticipant(n) /\ round # NoRound
            /\ UNCHANGED <<invited, counter, training>>
        BY <2>5 DEF SubmitGradients, IsParticipant
      <3>2. IF AllSubmitted(r)
              THEN history' = Append(history, r) /\ round' = NoRound
              ELSE round' = r /\ history' = history
        BY <2>5 DEF SubmitGradients, NextRound
      <3>3. /\ r \in Round /\ r.number = round.number /\ r.participants = round.participants
            /\ DOMAIN r.gradients \subseteq r.participants
        BY <3>1, GradientsOfParticipants
      <3>4. /\ \A i \in 1..Len(history) : OlderThan(i, r.number)
            /\ \A i \in 1..Len(history) : OlderThan(i, counter + 1)
            /\ r.number <= counter /\ r.number \in Nat
        BY <3>1, <3>3 DEF FederatedInv, Round
      <3> HIDE DEF r
      <3>5. CASE ~AllSubmitted(r)
        <4>1. round' = r /\ history' = history
          BY <3>2, <3>5
        <4>2. /\ \A i \in 1..Len(history') : OlderThan(i, round.number)'
              /\ \A i \in 1..Len(history') : OlderThan(i, counter + 1)'
          BY <3>1, <3>4, <4>1 DEF OlderThan
        <4>3. RoundsAreWhole'
          BY <4>1 DEF FederatedInv, RoundsAreWhole
        <4>4. QED
          BY <2>1, <3>1, <3>3, <3>4, <4>1, <4>2, <4>3 DEF FederatedInv
      <3>6. CASE AllSubmitted(r)
        <4>1. history' = Append(history, r) /\ round' = NoRound
          BY <3>2, <3>6
        <4>2. DOMAIN r.gradients = r.participants
          <5>1. IsFiniteSet(r.participants)
            BY <3>3, OrchestratorAssumption, FS_Subset DEF Round
          <5>2. QED
            BY <3>3, <3>6, <5>1, FS_Subset DEF AllSubmitted
        <4>3. /\ history' \in Seq(Round) /\ Len(history') = Len(history) + 1
              /\ \A i \in 1..Len(history) : history'[i] = history[i]
              /\ history'[Len(history) + 1] = r
          BY <2>1, <3>3, <4>1, AppendProperties
        <4>4. \A i \in 1..Len(history') : i \in 1..Len(history) \/ i = Len(history) + 1
          BY <2>1, <4>3
        <4>5. \A i \in 1..Len(history') : OlderThan(i, counter + 1)'
          <5>1. r.number < counter + 1
            BY <2>1, <3>4
          <5>2. QED
            BY <3>1, <3>4, <4>3, <4>4, <5>1 DEF OlderThan
        <4>6. \A i \in 1..Len(history') : DOMAIN history'[i].gradients = history'[i].participants
          BY <4>2, <4>3, <4>4 DEF FederatedInv, RoundsAreWhole
        <4>7. ASSUME NEW i \in 1..Len(history'), NEW j \in 1..Len(history'), i < j
              PROVE  history'[i].number < history'[j].number
          <5>1. i \in 1..Len(history) /\ history'[i] = history[i]
            BY <2>1, <4>3, <4>7
          <5>2. CASE j \in 1..Len(history)
            BY <4>3, <4>7, <5>1, <5>2 DEF FederatedInv, RoundsAreWhole
          <5>3. CASE j = Len(history) + 1
            BY <3>4, <4>3, <5>1, <5>3 DEF OlderThan
          <5>4. QED
            BY <4>4, <5>2, <5>3
        <4>8. RoundsAreWhole'
          BY <4>6, <4>7 DEF RoundsAreWhole
        <4>9. /\ round' \in Round /\ round'.number <= counter'
              /\ DOMAIN round'.gradients \subseteq round'.participants
          BY <2>1, <3>1, <4>1, NoRoundIsEmpty
        <4>10. QED
          BY <2>1, <3>1, <4>1, <4>3, <4>5, <4>8, <4>9 DEF FederatedInv
      <3>7. QED
        BY <3>5, <3>6
    <2>6. CASE StationNext(Excess) \/ DeployNext \/ (\E n \in Node : CheckStation(n))
               \/ UNCHANGED zoneVars
      <3>1. UNCHANGED federatedVars
        BY <2>6
        DEF StationNext, DeployNext, CheckStation, Register, FallSilent, Heartbeat, HeartbeatStatus,
            HealthLoop, StartPass, FindDead, Judge, MarkOffline, Deploy, zoneVars
      <3>2. UNCHANGED <<invited, round, counter, history, training>>
        BY <3>1 DEF federatedVars, roundVars
      <3>3. QED
        BY <3>2 DEF FederatedInv, RoundsAreWhole, OlderThan
    <2>7. QED
      BY <2>2, <2>3, <2>4, <2>5, <2>6 DEF OrchestratorNext, RoundNext
  <1>3. FederatedInv => RoundsAreWhole
    BY DEF FederatedInv
  <1>4. QED
    BY <1>1, <1>2, <1>3, PTL DEF OrchestratorSpec

(* The objects of a node that are dead and that the monitor has yet to     *)
(* mark or report, and those that are dead or were when the check that is  *)
(* under way found them so.                                                *)
Unreported(n) ==
  {o \in Object : /\ o[1] = n /\ ~alive[o] /\ health[o] # "OFFLINE"
                  /\ judged = NoNode \/ judged # o}
Down(n) ==
  {o \in Object : o[1] = n /\ (~alive[o] \/ (suspect # NoNode /\ suspect = o))}
InReport(n) == IF judged # NoNode /\ judged[1] = n THEN 1 ELSE 0
ToReport(n) == Cardinality(Unreported(n))
DownObjects(n) == Cardinality(Down(n))

(* Every report of a node has a silence of its own, or a return between    *)
(* the two reads of a check, and every such return a silence of its own.   *)
Explained(n) ==
  /\ alerts[n] + InReport(n) + ToReport(n) <= silences[n] + revived[n]
  /\ revived[n] + DownObjects(n) <= silences[n]

MonitorType ==
  /\ object \in [Node -> 0..MaxObjects]
  /\ health \in [Object -> Health] /\ alive \in [Object -> BOOLEAN]
  /\ todo \subseteq Object
  /\ suspect \in Object \cup {NoNode} /\ judged \in Object \cup {NoNode}
  /\ beating \in Object \cup {NoNode}
  /\ alerts \in [Node -> Nat] /\ revived \in [Node -> Nat]
  /\ silences \in [Node -> 0..MaxSilences]

(* A check is at one of its two reads, and the time of a heartbeat that is *)
(* under way is written.                                                   *)
MonitorControl ==
  /\ suspect # NoNode => judged = NoNode
  /\ beating # NoNode => alive[beating]

MonitorInv == MonitorType /\ MonitorControl /\ \A n \in Node : Explained(n)

(* The objects are finitely many, and a node is none of them.              *)
LEMMA ObjectsAreFinite ==
  /\ IsFiniteSet(Object)
  /\ \A o \in Object : o = <<o[1], o[2]>> /\ o[1] \in Node
  /\ \A n \in Node, k \in 1..MaxObjects : <<n, k>> \in Object
PROOF
  <1>1. IsFiniteSet(Node) /\ IsFiniteSet(1..MaxObjects)
    BY OrchestratorAssumption, FS_Interval
  <1>2. IsFiniteSet(Object)
    BY <1>1, FS_Product DEF Object
  <1>3. QED
    BY <1>2 DEF Object

(* The objects still to report, and those that are down, are finitely many. *)
LEMMA UnreportedIsFinite ==
  ASSUME NEW n \in Node
  PROVE  /\ IsFiniteSet(Unreported(n)) /\ ToReport(n) \in Nat
         /\ IsFiniteSet(Down(n)) /\ DownObjects(n) \in Nat
PROOF
  <1>1. Unreported(n) \in SUBSET Object /\ Down(n) \in SUBSET Object
    BY DEF Unreported, Down
  <1>2. IsFiniteSet(Unreported(n)) /\ IsFiniteSet(Down(n))
    BY <1>1, ObjectsAreFinite, FS_Subset
  <1>3. QED
    BY <1>2, FS_CardinalityType DEF ToReport, DownObjects

(* A set within a finite set and one element more has at most one more.    *)
LEMMA OneMore ==
  ASSUME NEW S, IsFiniteSet(S), NEW x, NEW T \in SUBSET (S \cup {x})
  PROVE  Cardinality(T) <= Cardinality(S) + 1
PROOF
  <1>1. /\ IsFiniteSet(S \cup {x}) /\ Cardinality(S) \in Nat
        /\ Cardinality(S \cup {x}) \in {Cardinality(S), Cardinality(S) + 1}
    BY FS_AddElement, FS_CardinalityType
  <1>2. Cardinality(T) <= Cardinality(S \cup {x}) /\ Cardinality(T) \in Nat
    BY <1>1, FS_Subset, FS_CardinalityType
  <1>3. QED
    BY <1>1, <1>2

(* A node stays accounted for when nothing is counted and no object joins  *)
(* those to report or those that are down.                                 *)
LEMMA ExplainedStays ==
  ASSUME NEW n \in Node, MonitorType, Explained(n),
         UNCHANGED <<alerts, revived, silences>>,
         InReport(n)' = InReport(n),
         Unreported(n)' \subseteq Unreported(n), Down(n)' \subseteq Down(n)
  PROVE  Explained(n)'
PROOF
  <1>1. ToReport(n)' <= ToReport(n) /\ DownObjects(n)' <= DownObjects(n)
    BY UnreportedIsFinite, FS_Subset DEF ToReport, DownObjects
  <1>2. Unreported(n)' \in SUBSET Object /\ Down(n)' \in SUBSET Object
    BY DEF Unreported, Down
  <1>3. ToReport(n)' \in Nat /\ DownObjects(n)' \in Nat
    BY <1>2, ObjectsAreFinite, FS_Subset, FS_CardinalityType DEF ToReport, DownObjects
  <1>4. /\ alerts[n] \in Nat /\ silences[n] \in Nat /\ revived[n] \in Nat /\ InReport(n) \in Nat
        /\ ToReport(n) \in Nat /\ DownObjects(n) \in Nat
    BY UnreportedIsFinite, OrchestratorAssumption DEF MonitorType, InReport
  <1>5. /\ alerts[n] + InReport(n) + ToReport(n)' <= silences[n] + revived[n]
        /\ revived[n] + DownObjects(n)' <= silences[n]
    BY <1>1, <1>3, <1>4 DEF Explained
  <1>6. QED
    BY <1>5 DEF Explained

(* The monitor reports a station at most as often as it fell silent, and   *)
(* another time for a return between the two reads of a check, which       *)
(* happens once a silence at most, whatever heartbeats and registrations   *)
(* come between its steps (health_check_loop, _handle_station_failure).    *)
THEOREM AlertsNeedSilence == OrchestratorSpec => []AlertsHaveCause
PROOF
  <1>1. OrchestratorInit => MonitorInv
    <2> SUFFICES ASSUME OrchestratorInit PROVE MonitorInv
      OBVIOUS
    <2>1. /\ object = [n \in Node |-> 0] /\ health = [o \in Object |-> "HEALTHY"]
          /\ alive = [o \in Object |-> TRUE] /\ todo = {}
          /\ suspect = NoNode /\ judged = NoNode /\ beating = NoNode
          /\ alerts = [n \in Node |-> 0] /\ silences = [n \in Node |-> 0]
          /\ revived = [n \in Node |-> 0]
      BY DEF OrchestratorInit
    <2>2. "HEALTHY" \in Health /\ MaxObjects \in Nat /\ MaxSilences \in Nat
      BY OrchestratorAssumption DEF Health
    <2>3. MonitorType /\ MonitorControl
      BY <2>1, <2>2 DEF MonitorType, MonitorControl
    <2>4. ASSUME NEW n \in Node PROVE Explained(n)
      <3>1. Unreported(n) = {} /\ Down(n) = {}
        BY <2>1 DEF Unreported, Down
      <3>2. ToReport(n) = 0 /\ DownObjects(n) = 0 /\ InReport(n) = 0
        BY <2>1, <3>1, FS_EmptySet DEF ToReport, DownObjects, InReport
      <3>3. QED
        BY <2>1, <3>2 DEF Explained
    <2>5. QED
      BY <2>3, <2>4 DEF MonitorInv
  <1>2. MonitorInv /\ [OrchestratorNext]_zoneVars => MonitorInv'
    <2> SUFFICES ASSUME MonitorInv, [OrchestratorNext]_zoneVars
                 PROVE  MonitorInv'
      OBVIOUS
    <2>1. /\ object \in [Node -> 0..MaxObjects]
          /\ health \in [Object -> Health] /\ alive \in [Object -> BOOLEAN]
          /\ todo \subseteq Object
          /\ suspect \in Object \cup {NoNode} /\ judged \in Object \cup {NoNode}
          /\ beating \in Object \cup {NoNode}
          /\ alerts \in [Node -> Nat] /\ revived \in [Node -> Nat]
          /\ silences \in [Node -> 0..MaxSilences]
          /\ MaxObjects \in Nat \ {0} /\ MaxSilences \in Nat
      BY OrchestratorAssumption DEF MonitorInv, MonitorType
    <2>2. MonitorType /\ MonitorControl /\ \A n \in Node : Explained(n)
      BY DEF MonitorInv
    <2>3. ASSUME NEW n \in Node
          PROVE  /\ alerts[n] \in Nat /\ silences[n] \in Nat /\ revived[n] \in Nat
                 /\ InReport(n) \in {0, 1}
                 /\ ToReport(n) \in Nat /\ DownObjects(n) \in Nat
                 /\ ToReport(n)' \in Nat /\ DownObjects(n)' \in Nat
                 /\ alerts[n] + InReport(n) + ToReport(n) <= silences[n] + revived[n]
                 /\ revived[n] + DownObjects(n) <= silences[n]
      <3>1. Unreported(n)' \in SUBSET Object /\ Down(n)' \in SUBSET Object
        BY DEF Unreported, Down
      <3>2. ToReport(n)' \in Nat /\ DownObjects(n)' \in Nat
        BY <3>1, ObjectsAreFinite, FS_Subset, FS_CardinalityType DEF ToReport, DownObjects
      <3>3. Explained(n)
        BY <2>2
      <3>4. QED
        BY <2>1, <3>2, <3>3, UnreportedIsFinite DEF InReport, Explained
    <2>4. ASSUME NEW n \in Node
          PROVE  /\ Unreported(n)' \subseteq Unreported(n) => ToReport(n)' <= ToReport(n)
                 /\ Down(n)' \subseteq Down(n) => DownObjects(n)' <= DownObjects(n)
      BY UnreportedIsFinite, FS_Subset DEF ToReport, DownObjects
    <2>5. ASSUME NEW n \in Node, Register(n) PROVE MonitorInv'
      <3>1. /\ object' = [object EXCEPT ![n] = @ + 1] /\ object[n] < MaxObjects
            /\ UNCHANGED <<health, alive, beating, todo, suspect, judged, alerts, revived, silences>>
        <4>1. IF n \in Restarting THEN object[n] < MaxObjects ELSE object[n] < 1
          BY <2>5 DEF Register
        <4>2. object[n] < MaxObjects
          BY <2>1, <4>1
        <4>3. QED
          BY <2>5, <4>2 DEF Register, monitorVars, healthLoopVars
      <3>2. object' \in [Node -> 0..MaxObjects]
        BY <2>1, <3>1
      <3>3. MonitorType' /\ MonitorControl'
        BY <2>2, <3>1, <3>2 DEF MonitorType, MonitorControl
      <3>4. \A m \in Node : /\ Unreported(m)' \subseteq Unreported(m)
                            /\ Down(m)' \subseteq Down(m) /\ InReport(m)' = InReport(m)
        BY <3>1 DEF Unreported, Down, InReport
      <3>5. QED
        BY <2>2, <3>1, <3>3, <3>4, ExplainedStays DEF MonitorInv
    <2>6. ASSUME NEW n \in Node, Heartbeat(n) PROVE MonitorInv'
      <3> DEFINE c == Current(n)
      <3>1. /\ alive' = [alive EXCEPT ![c] = TRUE] /\ beating' = c
            /\ UNCHANGED <<object, health, todo, suspect, judged, alerts, revived, silences>>
        BY <2>6 DEF Heartbeat, monitorVars, healthLoopVars
      <3>2. c \in Object
        BY <2>1, <2>6, ObjectsAreFinite DEF Heartbeat, Current, Registered
      <3> HIDE DEF c
      <3>3. alive' \in [Object -> BOOLEAN] /\ alive'[c]
            /\ \A o \in Object : alive[o] => alive'[o]
        BY <2>1, <3>1, <3>2
      <3>4. MonitorType' /\ MonitorControl'
        BY <2>1, <2>2, <3>1, <3>2, <3>3 DEF MonitorType, MonitorControl
      <3>5. \A m \in Node : /\ Unreported(m)' \subseteq Unreported(m)
                            /\ Down(m)' \subseteq Down(m) /\ InReport(m)' = InReport(m)
        BY <3>1, <3>3 DEF Unreported, Down, InReport
      <3>6. QED
        BY <2>2, <3>1, <3>4, <3>5, ExplainedStays DEF MonitorInv
    <2>7. ASSUME NEW h \in Reported, NEW e \in Excess, HeartbeatStatus(h, e) PROVE MonitorInv'
      <3>1. /\ beating # NoNode /\ beating' = NoNode
            /\ health' = [health EXCEPT ![beating] = h]
            /\ UNCHANGED <<object, alive, todo, suspect, judged, alerts, revived, silences>>
        BY <2>7 DEF HeartbeatStatus, monitorVars, healthLoopVars
      <3>2. /\ health' \in [Object -> Health] /\ alive[beating]
            /\ \A o \in Object : ~alive[o] => health'[o] = health[o]
        BY <2>1, <2>2, <3>1 DEF Health, MonitorControl
      <3>3. MonitorType' /\ MonitorControl'
        BY <2>1, <2>2, <3>1, <3>2 DEF MonitorType, MonitorControl
      <3>4. \A m \in Node : /\ Unreported(m)' \subseteq Unreported(m)
                            /\ Down(m)' \subseteq Down(m) /\ InReport(m)' = InReport(m)
        BY <3>1, <3>2 DEF Unreported, Down, InReport
      <3>5. QED
        BY <2>2, <3>1, <3>3, <3>4, ExplainedStays DEF MonitorInv
    <2>8. ASSUME NEW n \in Node, FallSilent(n) PROVE MonitorInv'
      <3>1. PICK k \in 1..object[n] :
              /\ alive[<<n, k>>] /\ beating # <<n, k>>
              /\ alive' = [alive EXCEPT ![<<n, k>>] = FALSE]
        BY <2>8 DEF FallSilent
      <3> DEFINE o == <<n, k>>
      <3>2. /\ silences[n] < MaxSilences /\ silences' = [silences EXCEPT ![n] = @ + 1]
            /\ UNCHANGED <<object, health, beating, todo, suspect, judged, alerts, revived>>
        BY <2>8 DEF FallSilent, monitorVars, healthLoopVars
      <3>3. o \in Object /\ o[1] = n
        <4>1. k \in 1..MaxObjects
          BY <2>1
        <4>2. QED
          BY <4>1, ObjectsAreFinite
      <3>4. /\ alive' \in [Object -> BOOLEAN]
            /\ \A p \in Object : p # o => alive'[p] = alive[p]
        BY <2>1, <3>1
      <3>5. /\ silences' \in [Node -> 0..MaxSilences]
            /\ silences'[n] = silences[n] + 1
            /\ \A m \in Node : m # n => silences'[m] = silences[m]
        <4>1. silences[n] + 1 \in 0..MaxSilences
          BY <2>1, <3>2
        <4>2. QED
          BY <2>1, <3>2, <4>1
      <3>6. beating # o
        BY <3>1
      <3> HIDE DEF o
      <3>7. MonitorType' /\ MonitorControl'
        BY <2>1, <2>2, <3>2, <3>4, <3>5, <3>6 DEF MonitorType, MonitorControl
      <3>8. \A m \in Node : m # n => /\ Unreported(m)' \subseteq Unreported(m)
                                     /\ Down(m)' \subseteq Down(m)
        BY <3>2, <3>3, <3>4 DEF Unreported, Down
      <3>9. /\ Unreported(n)' \in SUBSET (Unreported(n) \cup {o})
            /\ Down(n)' \in SUBSET (Down(n) \cup {o})
        BY <3>2, <3>4 DEF Unreported, Down
      <3>10. ToReport(n)' <= ToReport(n) + 1
        BY <3>9, UnreportedIsFinite, OneMore DEF ToReport
      <3>11. DownObjects(n)' <= DownObjects(n) + 1
        BY <3>9, UnreportedIsFinite, OneMore DEF DownObjects
      <3>12. \A m \in Node : InReport(m)' = InReport(m)
        BY <3>2 DEF InReport
      <3>13. ASSUME NEW m \in Node PROVE Explained(m)'
        <4>1. /\ alerts[m] + InReport(m) + ToReport(m)' <= silences'[m] + revived[m]
              /\ revived[m] + DownObjects(m)' <= silences'[m]
          <5>1. CASE m = n
            BY <2>3, <3>5, <3>10, <3>11, <5>1
          <5>2. CASE m # n
            BY <2>3, <2>4, <3>5, <3>8, <5>2
          <5>3. QED
            BY <5>1, <5>2
        <4>2. QED
          BY <3>2, <3>12, <4>1 DEF Explained
      <3>14. QED
        BY <3>7, <3>13 DEF MonitorInv
    <2>9. CASE StartPass
      <3>1. /\ todo' = {Current(n) : n \in Registered}
            /\ UNCHANGED <<object, health, alive, beating, suspect, judged, alerts, revived, silences>>
        BY <2>9 DEF StartPass, stationVars
      <3>2. \A n \in Registered : Current(n) \in Object
        BY <2>1, ObjectsAreFinite DEF Current, Registered
      <3>3. MonitorType' /\ MonitorControl'
        BY <2>2, <3>1, <3>2 DEF MonitorType, MonitorControl
      <3>4. \A m \in Node : /\ Unreported(m)' \subseteq Unreported(m)
                            /\ Down(m)' \subseteq Down(m) /\ InReport(m)' = InReport(m)
        BY <3>1 DEF Unreported, Down, InReport
      <3>5. QED
        BY <2>2, <3>1, <3>3, <3>4, ExplainedStays DEF MonitorInv
    <2>10. ASSUME NEW o \in todo, FindDead(o) PROVE MonitorInv'
      <3>1. /\ suspect = NoNode /\ judged = NoNode /\ o \in Object
            /\ todo' \subseteq Object
            /\ suspect' = IF alive[o] THEN NoNode ELSE o
            /\ UNCHANGED <<object, health, alive, beating, judged, alerts, revived, silences>>
        BY <2>1, <2>10 DEF FindDead, Others, stationVars
      <3>2. MonitorType' /\ MonitorControl'
        BY <2>1, <2>2, <3>1 DEF MonitorType, MonitorControl
      <3>3. \A m \in Node : /\ Unreported(m)' \subseteq Unreported(m)
                            /\ Down(m)' \subseteq Down(m) /\ InReport(m)' = InReport(m)
        BY <3>1 DEF Unreported, Down, InReport
      <3>4. QED
        BY <2>2, <3>1, <3>2, <3>3, ExplainedStays DEF MonitorInv
    <2>11. CASE Judge
      <3>1. /\ suspect # NoNode /\ suspect \in Object /\ suspect' = NoNode /\ judged = NoNode
            /\ judged' = IF health[suspect] # "OFFLINE" THEN suspect ELSE NoNode
            /\ revived' = IF judged' # NoNode /\ alive[suspect]
                            THEN [revived EXCEPT ![suspect[1]] = @ + 1] ELSE revived
            /\ UNCHANGED <<object, health, alive, beating, todo, alerts, silences>>
        BY <2>1, <2>2, <2>11 DEF Judge, MustBeMarked, stationVars, MonitorControl
      <3>2. PICK n \in Node : n = suspect[1]
        BY <3>1, ObjectsAreFinite
      <3>3. revived' \in [Node -> Nat]
        BY <2>1, <3>1, <3>2
      <3>4. MonitorType' /\ MonitorControl'
        BY <2>1, <2>2, <3>1, <3>3 DEF MonitorType, MonitorControl
      <3>5. \A m \in Node : Unreported(m)' \subseteq Unreported(m) /\ Down(m)' \subseteq Down(m)
        BY <3>1 DEF Unreported, Down
      <3>6. CASE judged' = NoNode
        <4>1. UNCHANGED revived /\ \A m \in Node : InReport(m)' = InReport(m)
          BY <3>1, <3>6 DEF InReport
        <4>2. QED
          BY <2>2, <3>1, <3>4, <3>5, <4>1, ExplainedStays DEF MonitorInv
      <3>7. CASE judged' # NoNode
        <4>1. judged' = suspect /\ health[suspect] # "OFFLINE"
          BY <3>1, <3>7
        <4>2. InReport(n) = 0 /\ InReport(n)' = 1
          BY <3>1, <3>2, <3>7, <4>1 DEF InReport
        <4>3. \A m \in Node : m # n => InReport(m)' = InReport(m) /\ revived'[m] = revived[m]
          BY <2>1, <3>1, <3>2, <4>1 DEF InReport
        <4>4. CASE alive[suspect]
          <5>1. revived'[n] = revived[n] + 1
            BY <2>1, <3>1, <3>2, <3>7, <4>4
          <5>2. Down(n)' = Down(n) \ {suspect} /\ suspect \in Down(n)
            BY <3>1, <3>2, <4>4 DEF Down
          <5>3. DownObjects(n)' = DownObjects(n) - 1
            BY <3>2, <5>2, UnreportedIsFinite, FS_RemoveElement DEF DownObjects
          <5>4. ASSUME NEW m \in Node PROVE Explained(m)'
            <6>1. /\ alerts[m] + InReport(m)' + ToReport(m)' <= silences[m] + revived'[m]
                  /\ revived'[m] + DownObjects(m)' <= silences[m]
              <7>1. CASE m = n
                BY <2>3, <2>4, <3>5, <4>2, <5>1, <5>3, <7>1
              <7>2. CASE m # n
                BY <2>3, <2>4, <3>5, <4>3, <7>2
              <7>3. QED
                BY <7>1, <7>2
            <6>2. QED
              BY <3>1, <6>1 DEF Explained
          <5>5. QED
            BY <3>4, <5>4 DEF MonitorInv
        <4>5. CASE ~alive[suspect]
          <5>1. revived' = revived
            BY <3>1, <4>5
          <5>2. Unreported(n)' = Unreported(n) \ {suspect} /\ suspect \in Unreported(n)
            BY <3>1, <3>2, <3>7, <4>1, <4>5 DEF Unreported
          <5>3. ToReport(n)' = ToReport(n) - 1
            BY <3>2, <5>2, UnreportedIsFinite, FS_RemoveElement DEF ToReport
          <5>4. ASSUME NEW m \in Node PROVE Explained(m)'
            <6>1. /\ alerts[m] + InReport(m)' + ToReport(m)' <= silences[m] + revived[m]
                  /\ revived[m] + DownObjects(m)' <= silences[m]
              <7>1. CASE m = n
                BY <2>3, <2>4, <3>5, <4>2, <5>3, <7>1
              <7>2. CASE m # n
                BY <2>3, <2>4, <3>5, <4>3, <7>2
              <7>3. QED
                BY <7>1, <7>2
            <6>2. QED
              BY <3>1, <5>1, <6>1 DEF Explained
          <5>5. QED
            BY <3>4, <5>4 DEF MonitorInv
        <4>6. QED
          BY <4>4, <4>5
      <3>8. QED
        BY <3>6, <3>7
    <2>12. CASE MarkOffline
      <3> DEFINE n == judged[1]
      <3>1. /\ judged # NoNode /\ judged \in Object /\ judged' = NoNode
            /\ health' = [health EXCEPT ![judged] = "OFFLINE"]
            /\ alerts' = [alerts EXCEPT ![n] = @ + 1]
            /\ UNCHANGED <<object, alive, beating, todo, suspect, revived, silences>>
        BY <2>1, <2>12 DEF MarkOffline, HandleStationFailure
      <3>2. n \in Node
        BY <3>1, ObjectsAreFinite
      <3>3. InReport(n) = 1 /\ \A m \in Node : m # n => InReport(m) = 0
        BY <3>1 DEF InReport
      <3> HIDE DEF n
      <3>4. /\ health' \in [Object -> Health] /\ alerts' \in [Node -> Nat]
            /\ alerts'[n] = alerts[n] + 1
            /\ \A m \in Node : m # n => alerts'[m] = alerts[m]
        BY <2>1, <3>1, <3>2 DEF Health
      <3>5. MonitorType' /\ MonitorControl'
        BY <2>1, <2>2, <3>1, <3>4 DEF MonitorType, MonitorControl
      <3>6. \A m \in Node : /\ Unreported(m)' \subseteq Unreported(m)
                            /\ Down(m)' \subseteq Down(m) /\ InReport(m)' = 0
        BY <2>1, <3>1 DEF Unreported, Down, InReport
      <3>7. ASSUME NEW m \in Node PROVE Explained(m)'
        <4>1. /\ alerts'[m] + 0 + ToReport(m)' <= silences[m] + revived[m]
              /\ revived[m] + DownObjects(m)' <= silences[m]
          <5>1. CASE m = n
            BY <2>3, <2>4, <3>3, <3>4, <3>6, <5>1
          <5>2. CASE m # n
            BY <2>3, <2>4, <3>3, <3>4, <3>6, <5>2
          <5>3. QED
            BY <5>1, <5>2
        <4>2. QED
          BY <3>1, <3>6, <4>1 DEF Explained
      <3>8. QED
        BY <3>5, <3>7 DEF MonitorInv
    <2>13. CASE RoundNext \/ DeployNext \/ (\E n \in Node : CheckStation(n)) \/ UNCHANGED zoneVars
      <3>1. UNCHANGED <<stationVars, healthLoopVars, silences>>
        BY <2>13
        DEF RoundNext, ReadHealthy, StartRound, Train, SubmitGradients, DeployNext, Deploy,
            CheckStation, zoneVars, monitorVars
      <3>2. UNCHANGED <<object, health, alive, beating, todo, suspect, judged, alerts, revived,
                        silences>>
        BY <3>1 DEF stationVars, healthLoopVars
      <3>3. MonitorType' /\ MonitorControl'
        BY <2>2, <3>2 DEF MonitorType, MonitorControl
      <3>4. \A m \in Node : /\ Unreported(m)' \subseteq Unreported(m)
                            /\ Down(m)' \subseteq Down(m) /\ InReport(m)' = InReport(m)
        BY <3>2 DEF Unreported, Down, InReport
      <3>5. QED
        BY <2>2, <3>2, <3>3, <3>4, ExplainedStays DEF MonitorInv
    <2>14. QED
      BY <2>5, <2>6, <2>7, <2>8, <2>9, <2>10, <2>11, <2>12, <2>13
      DEF OrchestratorNext, StationNext, HealthLoop
  <1>3. MonitorInv => AlertsHaveCause
    <2> SUFFICES ASSUME MonitorInv, NEW n \in Node
                 PROVE  alerts[n] <= silences[n] + revived[n] /\ revived[n] <= silences[n]
      BY DEF AlertsHaveCause
    <2>1. /\ alerts[n] \in Nat /\ silences[n] \in Nat /\ revived[n] \in Nat
          /\ InReport(n) \in Nat /\ ToReport(n) \in Nat /\ DownObjects(n) \in Nat
      BY UnreportedIsFinite, OrchestratorAssumption DEF MonitorInv, MonitorType, InReport
    <2>2. /\ alerts[n] + InReport(n) + ToReport(n) <= silences[n] + revived[n]
          /\ revived[n] + DownObjects(n) <= silences[n]
      BY DEF MonitorInv, Explained
    <2>3. QED
      BY <2>1, <2>2
  <1>4. QED
    BY <1>1, <1>2, <1>3, PTL DEF OrchestratorSpec

-----------------------------------------------------------------------------
(* The active nodes and the inference queue.                               *)

(* What the queue of a priority took is what it gave out and then what it  *)
(* holds.                                                                  *)
QueueInv ==
  /\ asked \in Nat
  /\ queues \in [Priorities -> Seq(Nat)]
  /\ accepted \in [Priorities -> Seq(Nat)] /\ served \in [Priorities -> Seq(Nat)]
  /\ AcceptedAreServed

(* How long ago a listed node was seen, at most by this much.              *)
SeenWithin(n, since, span) == since - activeNodes[n] <= span

(* A sleeping keeper wakes no later than one period after its last round,  *)
(* and no listed node will then be too old.  In a round, which takes no    *)
(* time, every node that was walked over and is not stale is recent, and   *)
(* before the removal so is every node that was not walked over.           *)
KeeperInv ==
  /\ clock \in Nat
  /\ activeNodes \in [Micro -> Int]
  /\ keeper \in [at : {"sleep", "walk", "remove", "dead"}, wake : Int,
                 walked : SUBSET Micro, over : SUBSET Micro, stale : SUBSET Micro]
  /\ keeper.at # "dead" =>
       \A n \in Listed : SeenWithin(n, clock, StaleAfter + HousekeepingPeriod)
  /\ keeper.at = "sleep" =>
       /\ keeper.walked = {} /\ keeper.stale = {}
       /\ keeper.wake - HousekeepingPeriod <= clock /\ clock <= keeper.wake
       /\ \A n \in Listed : SeenWithin(n, keeper.wake, StaleAfter + HousekeepingPeriod)
  /\ keeper.at \in {"walk", "remove"} =>
       /\ keeper.wake = clock
       /\ \A n \in (Listed \cap keeper.walked) \ keeper.stale : SeenWithin(n, clock, StaleAfter)
  /\ keeper.at = "remove" =>
       \A n \in Listed \ keeper.walked : SeenWithin(n, clock, StaleAfter)

(* What a node that is seen now leaves true of the keeper                  *)
(* (receive_micro_edge_batch).                                             *)
LEMMA SeenNodesAreRecent ==
  ASSUME KeeperInv, NEW n \in Micro,
         activeNodes' = [activeNodes EXCEPT ![n] = clock], UNCHANGED <<clock, keeper>>
  PROVE  KeeperInv'
PROOF
  <1>1. /\ clock \in Nat /\ activeNodes \in [Micro -> Int]
        /\ {StaleAfter, HousekeepingPeriod} \subseteq Nat
        /\ keeper.wake \in Int
    BY NodesAssumption DEF KeeperInv
  <1>2. /\ activeNodes' \in [Micro -> Int] /\ activeNodes'[n] = clock
        /\ \A m \in Micro : m # n => activeNodes'[m] = activeNodes[m]
    BY <1>1
  <1>3. \A m \in Listed' : m \in Micro /\ (m = n \/ m \in Listed)
    BY <1>2 DEF Listed
  <1>4. /\ SeenWithin(n, clock, StaleAfter)'
        /\ SeenWithin(n, clock, StaleAfter + HousekeepingPeriod)'
    BY <1>1, <1>2 DEF SeenWithin
  <1>5. ASSUME NEW m \in Micro, NEW a, NEW b, m # n, SeenWithin(m, a, b)
        PROVE  a - activeNodes'[m] <= b
    BY <1>2, <1>5 DEF SeenWithin
  <1>6. keeper.at # "dead" =>
          \A m \in Listed' : SeenWithin(m, clock, StaleAfter + HousekeepingPeriod)'
    BY <1>3, <1>4, <1>5 DEF KeeperInv, SeenWithin
  <1>7. keeper.at = "sleep" =>
          \A m \in Listed' : keeper.wake - activeNodes'[m] <= StaleAfter + HousekeepingPeriod
    <2> SUFFICES ASSUME keeper.at = "sleep", NEW m \in Listed'
                 PROVE  keeper.wake - activeNodes'[m] <= StaleAfter + HousekeepingPeriod
      OBVIOUS
    <2>1. CASE m = n
      <3>1. keeper.wake - HousekeepingPeriod <= clock
        BY DEF KeeperInv
      <3>2. QED
        BY <1>1, <1>2, <2>1, <3>1
    <2>2. CASE m # n
      BY <1>3, <1>5, <2>2 DEF KeeperInv
    <2>3. QED
      BY <2>1, <2>2
  <1>8. keeper.at \in {"walk", "remove"} =>
          \A m \in (Listed' \cap keeper.walked) \ keeper.stale : SeenWithin(m, clock, StaleAfter)'
    BY <1>3, <1>4, <1>5 DEF KeeperInv, SeenWithin
  <1>9. keeper.at = "remove" => \A m \in Listed' \ keeper.walked : SeenWithin(m, clock, StaleAfter)'
    BY <1>3, <1>4, <1>5 DEF KeeperInv, SeenWithin
  <1>10. QED
    BY <1>2, <1>6, <1>7, <1>8, <1>9 DEF KeeperInv, SeenWithin

(* What enqueue leaves true of the queue.                                  *)
LEMMA EnqueueKeepsAccounts ==
  ASSUME QueueInv, NEW p \in Priorities, NEW q \in Nat, Enqueue(p, q),
         asked' \in Nat, served' = served
  PROVE  QueueInv'
PROOF
  <1>1. /\ queues \in [Priorities -> Seq(Nat)]
        /\ accepted \in [Priorities -> Seq(Nat)] /\ served \in [Priorities -> Seq(Nat)]
        /\ \A x \in Priorities : accepted[x] = served[x] \o queues[x]
    BY DEF QueueInv, AcceptedAreServed
  <1>2. CASE UNCHANGED <<queues, accepted>>
    BY <1>1, <1>2 DEF QueueInv, AcceptedAreServed
  <1>3. CASE /\ queues' = [queues EXCEPT ![p] = Append(@, q)]
             /\ accepted' = [accepted EXCEPT ![p] = Append(@, q)]
    <2>1. /\ queues[p] \in Seq(Nat) /\ served[p] \in Seq(Nat) /\ accepted[p] \in Seq(Nat)
          /\ Append(queues[p], q) \in Seq(Nat) /\ Append(accepted[p], q) \in Seq(Nat)
          /\ <<q>> \in Seq(Nat)
      BY <1>1, AppendProperties
    <2>2. Append(queues[p], q) = queues[p] \o <<q>> /\ Append(accepted[p], q) = accepted[p] \o <<q>>
      BY <2>1, AppendIsConcat
    <2>3. (served[p] \o queues[p]) \o <<q>> = served[p] \o (queues[p] \o <<q>>)
      <3>1. \A s, t, u \in Seq(Nat) : (s \o t) \o u = s \o (t \o u)
        BY ConcatAssociative
      <3>2. QED
        BY <2>1, <3>1
    <2>4. /\ queues' \in [Priorities -> Seq(Nat)] /\ accepted' \in [Priorities -> Seq(Nat)]
          /\ queues'[p] = Append(queues[p], q) /\ accepted'[p] = Append(accepted[p], q)
          /\ \A x \in Priorities : x # p => queues'[x] = queues[x] /\ accepted'[x] = accepted[x]
      BY <1>1, <1>3, <2>1
    <2>5. accepted'[p] = served'[p] \o queues'[p]
      BY <1>1, <2>2, <2>3, <2>4
    <2>6. \A x \in Priorities : accepted'[x] = served'[x] \o queues'[x]
      BY <1>1, <2>4, <2>5
    <2>7. QED
      BY <1>1, <2>4, <2>6 DEF QueueInv, AcceptedAreServed
  <1>4. QED
    BY <1>2, <1>3 DEF Enqueue

(* No listed node was silent for longer than the threshold and one period  *)
(* while the loop lives, and nothing accepted is pushed out, although      *)
(* batches are written under the walk of the loop (housekeeping_loop,      *)
(* receive_micro_edge_batch, InferenceQueue).                              *)
THEOREM ListedStayRecent == NodesSpec => []ListedAreRecent
PROOF
  <1> DEFINE Inv == QueueInv /\ KeeperInv
  <1>1. NodesInit => Inv
    <2> SUFFICES ASSUME NodesInit PROVE Inv
      OBVIOUS
    <2>1. /\ asked = 0 /\ queues = [p \in Priorities |-> <<>>]
          /\ accepted = [p \in Priorities |-> <<>>] /\ served = [p \in Priorities |-> <<>>]
          /\ clock = 0 /\ activeNodes = [n \in Micro |-> Unseen] /\ keeper = Sleeping(0)
          /\ {StaleAfter, HousekeepingPeriod} \subseteq Nat
      BY NodesAssumption DEF NodesInit
    <2>2. <<>> \in Seq(Nat) /\ <<>> \o <<>> = <<>>
      BY EmptySeq, ConcatEmptySeq
    <2>3. QueueInv
      BY <2>1, <2>2 DEF QueueInv, AcceptedAreServed
    <2>4. Listed = {}
      BY <2>1 DEF Listed
    <2>5. KeeperInv
      BY <2>1, <2>4 DEF KeeperInv, Sleeping, Unseen
    <2>6. QED
      BY <2>3, <2>5
  <1>2. Inv /\ [NodesNext]_nodesVars => Inv'
    <2> SUFFICES ASSUME QueueInv, KeeperInv, [NodesNext]_nodesVars
                 PROVE  QueueInv' /\ KeeperInv'
      OBVIOUS
    <2>1. /\ clock \in Nat /\ activeNodes \in [Micro -> Int]
          /\ {StaleAfter, HousekeepingPeriod} \subseteq Nat
          /\ keeper \in [at : {"sleep", "walk", "remove", "dead"}, wake : Int,
                         walked : SUBSET Micro, over : SUBSET Micro, stale : SUBSET Micro]
      BY NodesAssumption DEF KeeperInv
    <2>2. ASSUME UNCHANGED queueVars PROVE QueueInv'
      BY <2>2 DEF queueVars, QueueInv, AcceptedAreServed
    <2>3. ASSUME UNCHANGED keeperVars PROVE KeeperInv'
      BY <2>3 DEF keeperVars, KeeperInv, SeenWithin, Listed
    <2>4. ASSUME NEW n \in Micro, NodeSeen(n) PROVE QueueInv' /\ KeeperInv'
      BY <2>2, <2>4, SeenNodesAreRecent DEF NodeSeen
    <2>5. ASSUME NEW n \in Micro, NEW p \in Priorities, ProcessFeature(n, p)
          PROVE  QueueInv' /\ KeeperInv'
      <3>1. /\ asked' = asked + 1 /\ Enqueue(p, asked') /\ served' = served
            /\ activeNodes' = [activeNodes EXCEPT ![n] = clock] /\ UNCHANGED <<clock, keeper>>
        BY <2>5 DEF ProcessFeature
      <3>2. asked' \in Nat
        BY <3>1 DEF QueueInv
      <3>3. QueueInv'
        BY <3>1, <3>2, EnqueueKeepsAccounts
      <3>4. KeeperInv'
        BY <3>1, SeenNodesAreRecent
      <3>5. QED
        BY <3>3, <3>4
    <2>6. CASE Dequeue
      <3>1. PICK p \in Priorities :
              /\ queues[p] # <<>>
              /\ served' = [served EXCEPT ![p] = Append(@, Head(queues[p]))]
              /\ queues' = [queues EXCEPT ![p] = Tail(@)]
        BY <2>6 DEF Dequeue
      <3>2. UNCHANGED keeperVars /\ UNCHANGED <<asked, accepted>>
        BY <2>6 DEF Dequeue
      <3>3. /\ queues \in [Priorities -> Seq(Nat)]
            /\ accepted \in [Priorities -> Seq(Nat)] /\ served \in [Priorities -> Seq(Nat)]
            /\ \A x \in Priorities : accepted[x] = served[x] \o queues[x]
        BY DEF QueueInv, AcceptedAreServed
      <3> DEFINE h == Head(queues[p])
                 t == Tail(queues[p])
      <3>4. queues[p] \in Seq(Nat) /\ served[p] \in Seq(Nat)
        BY <3>3
      <3>5. h \in Nat /\ t \in Seq(Nat) /\ <<h>> \in Seq(Nat)
        BY <3>1, <3>4, HeadTailProperties
      <3>6. queues[p] = <<h>> \o t
        BY <3>1, <3>4, HeadThenTail
      <3>7. Append(served[p], h) = served[p] \o <<h>> /\ Append(served[p], h) \in Seq(Nat)
        BY <3>4, <3>5, AppendIsConcat, AppendProperties
      <3>8. served[p] \o (<<h>> \o t) = (served[p] \o <<h>>) \o t
        <4>1. \A s, u, v \in Seq(Nat) : (s \o u) \o v = s \o (u \o v)
          BY ConcatAssociative
        <4>2. QED
          BY <3>4, <3>5, <4>1
      <3>9. /\ served' \in [Priorities -> Seq(Nat)] /\ queues' \in [Priorities -> Seq(Nat)]
            /\ served'[p] = Append(served[p], h) /\ queues'[p] = t
            /\ \A x \in Priorities : x # p => served'[x] = served[x] /\ queues'[x] = queues[x]
        BY <3>1, <3>3, <3>5, <3>7
      <3> HIDE DEF h, t
      <3>10. accepted'[p] = served'[p] \o queues'[p]
        BY <3>2, <3>3, <3>6, <3>7, <3>8, <3>9
      <3>11. \A x \in Priorities : accepted'[x] = served'[x] \o queues'[x]
        BY <3>2, <3>3, <3>9, <3>10
      <3>12. QueueInv'
        BY <3>2, <3>3, <3>9, <3>11 DEF QueueInv, AcceptedAreServed
      <3>13. QED
        BY <2>3, <3>2, <3>12
    <2>7. CASE Wake
      <3>1. /\ keeper.at = "sleep" /\ keeper.wake <= clock
            /\ keeper' = [keeper EXCEPT !.at = "walk", !.over = Listed, !.wake = clock]
            /\ UNCHANGED <<clock, activeNodes, queueVars>>
        BY <2>7 DEF Wake
      <3>2. /\ keeper'.at = "walk" /\ keeper'.wake = clock
            /\ keeper'.walked = keeper.walked /\ keeper'.stale = keeper.stale
            /\ keeper' \in [at : {"sleep", "walk", "remove", "dead"}, wake : Int,
                            walked : SUBSET Micro, over : SUBSET Micro, stale : SUBSET Micro]
        <4>1. Listed \in SUBSET Micro /\ clock \in Int
          BY <2>1 DEF Listed
        <4>2. QED
          BY <2>1, <3>1, <4>1
      <3>3. /\ keeper.walked = {}
            /\ \A n \in Listed : SeenWithin(n, clock, StaleAfter + HousekeepingPeriod)
        BY <3>1 DEF KeeperInv
      <3>4. KeeperInv'
        BY <2>1, <3>1, <3>2, <3>3 DEF KeeperInv, SeenWithin, Listed
      <3>5. QED
        BY <2>2, <3>1, <3>4
    <2>8. CASE Walk
      <3>1. keeper.at = "walk" /\ UNCHANGED <<clock, activeNodes, queueVars>>
        BY <2>8 DEF Walk
      <3>2. /\ keeper.wake = clock
            /\ \A n \in Listed : SeenWithin(n, clock, StaleAfter + HousekeepingPeriod)
            /\ \A n \in (Listed \cap keeper.walked) \ keeper.stale : SeenWithin(n, clock, StaleAfter)
        BY <3>1 DEF KeeperInv
      <3>3. /\ Listed' = Listed
            /\ \A n, a, b : SeenWithin(n, a, b) => a - activeNodes'[n] <= b
        BY <3>1 DEF Listed, SeenWithin
      <3>4. CASE keeper' = Dead
        <4>1. /\ keeper'.at = "dead"
              /\ keeper' \in [at : {"sleep", "walk", "remove", "dead"}, wake : Int,
                              walked : SUBSET Micro, over : SUBSET Micro, stale : SUBSET Micro]
          BY <3>4 DEF Dead
        <4>2. KeeperInv'
          BY <2>1, <3>1, <4>1 DEF KeeperInv
        <4>3. QED
          BY <2>2, <3>1, <4>2
      <3>5. CASE /\ Listed = keeper.over /\ keeper.walked = keeper.over
                 /\ keeper' = [keeper EXCEPT !.at = "remove"]
        <4>1. /\ keeper'.at = "remove" /\ keeper'.wake = keeper.wake
              /\ keeper'.walked = keeper.walked /\ keeper'.stale = keeper.stale
              /\ keeper' \in [at : {"sleep", "walk", "remove", "dead"}, wake : Int,
                              walked : SUBSET Micro, over : SUBSET Micro, stale : SUBSET Micro]
          BY <2>1, <3>5
        <4>2. Listed \ keeper.walked = {}
          BY <3>5
        <4>3. KeeperInv'
          BY <2>1, <3>1, <3>2, <3>3, <4>1, <4>2 DEF KeeperInv, SeenWithin
        <4>4. QED
          BY <2>2, <3>1, <4>3
      <3>6. ASSUME NEW n \in keeper.over \ keeper.walked,
                   keeper' = [keeper EXCEPT !.walked = @ \cup {n},
                                            !.stale = IF IsStale(n) THEN @ \cup {n} ELSE @]
            PROVE  QueueInv' /\ KeeperInv'
        <4>1. /\ keeper'.at = "walk" /\ keeper'.wake = keeper.wake
              /\ keeper'.walked = keeper.walked \cup {n}
              /\ keeper'.stale = IF IsStale(n) THEN keeper.stale \cup {n} ELSE keeper.stale
              /\ keeper' \in [at : {"sleep", "walk", "remove", "dead"}, wake : Int,
                              walked : SUBSET Micro, over : SUBSET Micro, stale : SUBSET Micro]
          BY <2>1, <3>1, <3>6
        <4>2. ~IsStale(n) => SeenWithin(n, clock, StaleAfter)
          BY <2>1, <3>2 DEF IsStale, SeenWithin
        <4>3. \A m \in (Listed \cap keeper'.walked) \ keeper'.stale : SeenWithin(m, clock, StaleAfter)
          BY <3>2, <4>1, <4>2
        <4>4. KeeperInv'
          BY <2>1, <3>1, <3>2, <3>3, <4>1, <4>3 DEF KeeperInv, SeenWithin
        <4>5. QED
          BY <2>2, <3>1, <4>4
      <3>7. QED
        BY <2>8, <3>4, <3>5, <3>6 DEF Walk
    <2>9. CASE RemoveStale
      <3>1. /\ keeper.at = "remove" /\ keeper' = Sleeping(clock + HousekeepingPeriod)
            /\ activeNodes' = [n \in Micro |-> IF n \in keeper.stale THEN Unseen ELSE activeNodes[n]]
            /\ UNCHANGED <<clock, queueVars>>
        BY <2>9 DEF RemoveStale
      <3>2. /\ keeper'.at = "sleep" /\ keeper'.wake = clock + HousekeepingPeriod
            /\ keeper'.walked = {} /\ keeper'.stale = {}
            /\ keeper' \in [at : {"sleep", "walk", "remove", "dead"}, wake : Int,
                            walked : SUBSET Micro, over : SUBSET Micro, stale : SUBSET Micro]
        BY <2>1, <3>1 DEF Sleeping
      <3>3. activeNodes' \in [Micro -> Int]
        BY <2>1, <3>1 DEF Unseen
      <3>4. \A n \in Listed' : /\ n \in Listed /\ n \notin keeper.stale
                               /\ activeNodes'[n] = activeNodes[n]
        BY <3>1 DEF Listed
      <3>5. \A n \in Listed \ keeper.stale : SeenWithin(n, clock, StaleAfter)
        BY <3>1 DEF KeeperInv
      <3>6. ASSUME NEW n \in Listed'
            PROVE  /\ SeenWithin(n, clock, StaleAfter + HousekeepingPeriod)'
                   /\ SeenWithin(n, keeper.wake, StaleAfter + HousekeepingPeriod)'
        <4>1. /\ activeNodes'[n] \in Int
              /\ clock - activeNodes'[n] <= StaleAfter
          BY <2>1, <3>3, <3>4, <3>5 DEF SeenWithin, Listed
        <4>2. QED
          BY <2>1, <3>1, <3>2, <4>1 DEF SeenWithin
      <3>7. keeper'.wake - HousekeepingPeriod <= clock' /\ clock' <= keeper'.wake
        BY <2>1, <3>1, <3>2
      <3>8. KeeperInv'
        BY <2>1, <3>1, <3>2, <3>3, <3>6, <3>7 DEF KeeperInv
      <3>9. QED
        BY <2>2, <3>1, <3>8
    <2>10. CASE ClockTicks
      <3>1. /\ keeper.at = "dead" \/ (keeper.at = "sleep" /\ keeper.wake > clock)
            /\ clock' = clock + 1 /\ UNCHANGED <<activeNodes, keeper, queueVars>>
        BY <2>10 DEF ClockTicks
      <3>2. clock' \in Nat /\ Listed' = Listed
        BY <2>1, <3>1 DEF Listed
      <3>3. CASE keeper.at = "dead"
        <4>1. KeeperInv'
          BY <2>1, <3>1, <3>2, <3>3 DEF KeeperInv
        <4>2. QED
          BY <2>2, <3>1, <4>1
      <3>4. CASE keeper.at = "sleep" /\ keeper.wake > clock
        <4>1. /\ keeper.wake - HousekeepingPeriod <= clock /\ keeper.wake \in Int
              /\ \A n \in Listed : SeenWithin(n, keeper.wake, StaleAfter + HousekeepingPeriod)
              /\ keeper.walked = {} /\ keeper.stale = {}
          BY <2>1, <3>4 DEF KeeperInv
        <4>2. keeper.wake - HousekeepingPeriod <= clock' /\ clock' <= keeper.wake
          BY <2>1, <3>1, <3>4, <4>1
        <4>3. ASSUME NEW n \in Listed
              PROVE  SeenWithin(n, clock, StaleAfter + HousekeepingPeriod)'
          <5>1. activeNodes[n] \in Int /\ StaleAfter + HousekeepingPeriod \in Int
            BY <2>1 DEF Listed
          <5>2. keeper.wake - activeNodes[n] <= StaleAfter + HousekeepingPeriod
            BY <4>1 DEF SeenWithin
          <5>3. clock' - activeNodes[n] <= StaleAfter + HousekeepingPeriod
            BY <3>2, <4>1, <4>2, <5>1, <5>2
          <5>4. QED
            BY <3>1, <5>3 DEF SeenWithin
        <4>4. KeeperInv'
          BY <2>1, <3>1, <3>2, <3>4, <4>1, <4>2, <4>3 DEF KeeperInv, SeenWithin
        <4>5. QED
          BY <2>2, <3>1, <4>4
      <3>5. QED
        BY <3>1, <3>3, <3>4
    <2>11. CASE UNCHANGED nodesVars
      BY <2>2, <2>3, <2>11 DEF nodesVars
    <2>12. QED
      BY <2>4, <2>5, <2>6, <2>7, <2>8, <2>9, <2>10, <2>11 DEF NodesNext
  <1>3. Inv => ListedAreRecent
    BY DEF QueueInv, KeeperInv, SeenWithin, ListedAreRecent
  <1>4. QED
    BY <1>1, <1>2, <1>3, PTL DEF NodesSpec

-----------------------------------------------------------------------------
(* The window of correlated anomalies.  Every anomaly of the last window   *)
(* is in the window that is kept, with its age.                            *)
CorrelationInv ==
  /\ window \in Seq(Aged)
  /\ job \in [Thread -> Seq(Flag)]
  /\ phase \in [Thread -> {"idle", "adds", "waits"}]
  /\ waited \in [Thread -> 0..MaxWait]
  /\ \A th \in Thread : phase[th] = "waits" => job[th] # <<>>
  /\ recent \subseteq Aged /\ \A a \in recent : a.age <= Window
  /\ \A a \in recent : \E i \in DOMAIN window : window[i] = a

(* More flags show no fewer correlations (find_correlations).              *)
LEMMA CorrelatedIsMonotone ==
  ASSUME NEW B, IsFiniteSet(B), NEW A, A \subseteq B
  PROVE  Correlated(A) \subseteq Correlated(B)
PROOF
  <1>1. ASSUME NEW n,
               Cardinality({f.sensor : f \in {g \in A : g.node = n}}) >= 2
        PROVE  Cardinality({f.sensor : f \in {g \in B : g.node = n}}) >= 2
    <2> DEFINE S == {g \in B : g.node = n}
               P == {f.sensor : f \in {g \in A : g.node = n}}
               Q == {f.sensor : f \in S}
               h == [f \in S |-> f.sensor]
    <2>1. IsFiniteSet(S)
      BY FS_Subset
    <2>2. h \in Surjection(S, Q)
      BY DEF Surjection
    <2>3. IsFiniteSet(Q)
      BY <2>1, <2>2, FS_Surjection
    <2>4. P \in SUBSET Q
      OBVIOUS
    <2>5. Cardinality(P) >= 2
      BY <1>1
    <2> HIDE DEF P, Q
    <2>6. /\ Cardinality(P) <= Cardinality(Q)
          /\ Cardinality(P) \in Nat /\ Cardinality(Q) \in Nat
      BY <2>3, <2>4, FS_Subset, FS_CardinalityType
    <2>7. Cardinality(Q) >= 2
      BY <2>5, <2>6
    <2>8. QED
      BY <2>7 DEF Q
  <1>2. ASSUME NEW t,
               Cardinality({f.node : f \in {g \in A : g.type = t}}) >= 2
        PROVE  Cardinality({f.node : f \in {g \in B : g.type = t}}) >= 2
    <2> DEFINE S == {g \in B : g.type = t}
               P == {f.node : f \in {g \in A : g.type = t}}
               Q == {f.node : f \in S}
               h == [f \in S |-> f.node]
    <2>1. IsFiniteSet(S)
      BY FS_Subset
    <2>2. h \in Surjection(S, Q)
      BY DEF Surjection
    <2>3. IsFiniteSet(Q)
      BY <2>1, <2>2, FS_Surjection
    <2>4. P \in SUBSET Q
      OBVIOUS
    <2>5. Cardinality(P) >= 2
      BY <1>2
    <2> HIDE DEF P, Q
    <2>6. /\ Cardinality(P) <= Cardinality(Q)
          /\ Cardinality(P) \in Nat /\ Cardinality(Q) \in Nat
      BY <2>3, <2>4, FS_Subset, FS_CardinalityType
    <2>7. Cardinality(Q) >= 2
      BY <2>5, <2>6
    <2>8. QED
      BY <2>7 DEF Q
  <1>3. {f.node : f \in A} \subseteq {f.node : f \in B}
    OBVIOUS
  <1>4. {f.type : f \in A} \subseteq {f.type : f \in B}
    OBVIOUS
  <1>5. ASSUME NEW x \in Correlated(A) PROVE x \in Correlated(B)
    <2>1. CASE /\ x \in {f.node : f \in A}
               /\ Cardinality({f.sensor : f \in {g \in A : g.node = x}}) >= 2
      BY <1>1, <1>3, <2>1 DEF Correlated
    <2>2. CASE /\ x \in {f.type : f \in A}
               /\ Cardinality({f.node : f \in {g \in A : g.type = x}}) >= 2
      BY <1>2, <1>4, <2>2 DEF Correlated
    <2>3. QED
      BY <1>5, <2>1, <2>2 DEF Correlated
  <1>6. QED
    BY <1>5

(* The loop that evicts leaves a suffix, which every anomaly that has not  *)
(* expired is in (add_anomaly).                                            *)
LEMMA EvictedKeepsTheRest ==
  ASSUME NEW w \in Seq(Aged), NEW now \in Nat
  PROVE  /\ Evicted(w, now) \in Seq(Aged)
         /\ \A i \in DOMAIN w : ~Expired(w[i], now) =>
              \E j \in DOMAIN Evicted(w, now) : Evicted(w, now)[j] = w[i]
PROOF
  <1> DEFINE stays == {i \in DOMAIN w : ~Expired(w[i], now)}
             first == IF stays = {} THEN Len(w) + 1
                      ELSE CHOOSE i \in stays : \A j \in stays : i <= j
             e == SubSeq(w, first, Len(w))
  <1>1. Len(w) \in Nat /\ DOMAIN w = 1..Len(w) /\ \A i \in 1..Len(w) : w[i] \in Aged
    BY LenProperties, ElementOfSeq
  <1>2. stays \subseteq 1..Len(w)
    BY <1>1
  <1> HIDE DEF stays
  <1>3. first \in 1..(Len(w) + 1) /\ \A i \in stays : first <= i
    <2>1. CASE stays = {}
      BY <1>1, <2>1
    <2>2. CASE stays # {}
      <3>1. \E i \in stays : \A j \in stays : i <= j
        <4>1. stays \subseteq Nat
          BY <1>1, <1>2
        <4>2. QED
          BY <2>2, <4>1, LeastOfNaturals
      <3>2. first = CHOOSE i \in stays : \A j \in stays : i <= j
        BY <2>2
      <3> HIDE DEF first
      <3>3. first \in stays /\ \A j \in stays : first <= j
        BY <3>1, <3>2
      <3>4. QED
        BY <1>1, <1>2, <3>3
    <2>3. QED
      BY <2>1, <2>2
  <1>4. Evicted(w, now) = e
    BY DEF Evicted, stays
  <1> HIDE DEF first
  <1>5. first \in Int /\ \A i \in first..Len(w) : w[i] \in Aged
    BY <1>1, <1>3
  <1>6. /\ e \in Seq(Aged)
        /\ Len(e) = IF first <= Len(w) THEN Len(w) - first + 1 ELSE 0
        /\ \A i \in 1..(Len(w) - first + 1) : e[i] = w[first + i - 1]
    BY <1>1, <1>5, SubSeqProperties
  <1>7. DOMAIN e = 1..Len(e)
    BY <1>6, LenProperties
  <1> HIDE DEF e
  <1>8. ASSUME NEW i \in stays PROVE \E j \in DOMAIN e : e[j] = w[i]
    <2> DEFINE j == i - first + 1
    <2>1. i \in 1..Len(w) /\ first <= i /\ first \in Int /\ Len(w) \in Nat
      BY <1>1, <1>2, <1>3, <1>5
    <2>2. j \in 1..(Len(w) - first + 1) /\ j \in 1..Len(e) /\ first + j - 1 = i
      BY <1>6, <2>1
    <2>3. e[j] = w[i]
      BY <1>6, <2>2
    <2>4. QED
      BY <1>7, <2>2, <2>3
  <1>9. QED
    BY <1>1, <1>4, <1>6, <1>8 DEF stays

(* No correlation between anomalies of the last window is missed, although *)
(* threads append out of the order of their clocks and evict by a clock    *)
(* that is late (CorrelationWindow, receive_micro_edge_batch).             *)
THEOREM CorrelationsAreSeen == CorrelationSpec => []NoneMissed
PROOF
  <1>1. CorrelationInit => CorrelationInv
    <2> SUFFICES ASSUME CorrelationInit PROVE CorrelationInv
      OBVIOUS
    <2>1. <<>> \in Seq(Aged) /\ <<>> \in Seq(Flag) /\ 0 \in 0..MaxWait
      BY CorrelationAssumption, EmptySeq
    <2>2. QED
      BY <2>1 DEF CorrelationInit, CorrelationInv
  <1>2. CorrelationInv /\ [CorrelationNext]_correlationVars => CorrelationInv'
    <2> SUFFICES ASSUME CorrelationInv, [CorrelationNext]_correlationVars
                 PROVE  CorrelationInv'
      OBVIOUS
    <2>1. /\ window \in Seq(Aged) /\ Len(window) \in Nat /\ DOMAIN window = 1..Len(window)
          /\ \A i \in DOMAIN window : window[i] \in Aged
          /\ job \in [Thread -> Seq(Flag)]
          /\ phase \in [Thread -> {"idle", "adds", "waits"}]
          /\ waited \in [Thread -> 0..MaxWait]
          /\ {Window, MaxWait} \subseteq Nat
      BY LenProperties, ElementOfSeq, CorrelationAssumption DEF CorrelationInv
    <2>2. /\ \A th \in Thread : phase[th] = "waits" => job[th] # <<>>
          /\ recent \subseteq Aged /\ \A a \in recent : a.age <= Window
          /\ \A a \in recent : \E i \in DOMAIN window : window[i] = a
      BY DEF CorrelationInv
    <2>3. CASE TimePasses
      <3>1. /\ \A th \in Thread : phase[th] = "waits" => waited[th] < MaxWait
            /\ window' = [i \in DOMAIN window |-> Older(window[i])]
            /\ recent' = {Older(a) : a \in {b \in recent : b.age < Window}}
            /\ waited' = [th \in Thread |-> IF phase[th] = "waits" THEN waited[th] + 1 ELSE 0]
            /\ UNCHANGED <<job, phase>>
        BY <2>3 DEF TimePasses
      <3>2. ASSUME NEW a \in Aged
            PROVE  /\ Older(a) \in Aged
                   /\ a.age < Window => Older(a).age <= Window
        <4>1. a.age \in 0..MaxAge /\ MaxAge \in Nat
          BY <2>1 DEF Aged, MaxAge
        <4>2. (IF a.age < MaxAge THEN a.age + 1 ELSE a.age) \in 0..MaxAge
          BY <4>1
        <4>3. Older(a) = [a EXCEPT !.age = IF a.age < MaxAge THEN a.age + 1 ELSE a.age]
          BY DEF Older
        <4>4. Older(a) \in Aged
          BY <4>2, <4>3 DEF Aged
        <4>5. Older(a).age = IF a.age < MaxAge THEN a.age + 1 ELSE a.age
          BY <4>3 DEF Aged
        <4>6. a.age < Window => Older(a).age <= Window
          BY <2>1, <4>1, <4>5
        <4>7. QED
          BY <4>4, <4>6
      <3>3. window' \in Seq(Aged) /\ DOMAIN window' = DOMAIN window
        <4>1. window' \in [1..Len(window) -> Aged]
          BY <2>1, <3>1, <3>2
        <4>2. window' \in Seq(Aged)
          BY <2>1, <4>1, SeqDef
        <4>3. QED
          BY <2>1, <3>1, <4>2
      <3>4. waited' \in [Thread -> 0..MaxWait]
        <4>1. \A th \in Thread : phase[th] = "waits" => waited[th] + 1 \in 0..MaxWait
          BY <2>1, <3>1
        <4>2. QED
          BY <2>1, <3>1, <4>1
      <3>5. recent' \subseteq Aged /\ \A a \in recent' : a.age <= Window
        BY <2>2, <3>1, <3>2
      <3>6. \A a \in recent' : \E i \in DOMAIN window' : window'[i] = a
        BY <2>2, <3>1, <3>3
      <3>7. QED
        BY <2>1, <2>2, <3>1, <3>3, <3>4, <3>5, <3>6 DEF CorrelationInv
    <2>4. ASSUME NEW th \in Thread, NEW b \in Batches, ReceiveBatch(th, b)
          PROVE  CorrelationInv'
      <3>1. /\ phase' = [phase EXCEPT ![th] = "adds"] /\ job' = [job EXCEPT ![th] = b]
            /\ UNCHANGED <<window, waited, recent>> /\ b \in Seq(Flag)
        BY <2>4, CorrelationAssumption DEF ReceiveBatch
      <3>2. /\ phase' \in [Thread -> {"idle", "adds", "waits"}] /\ job' \in [Thread -> Seq(Flag)]
            /\ \A t \in Thread : phase'[t] = "waits" => phase[t] = "waits" /\ job'[t] = job[t]
        BY <2>1, <3>1
      <3>3. QED
        BY <2>1, <2>2, <3>1, <3>2 DEF CorrelationInv
    <2>5. ASSUME NEW th \in Thread, ReadClock(th)
          PROVE  CorrelationInv'
      <3>1. /\ job[th] # <<>> /\ phase' = [phase EXCEPT ![th] = "waits"]
            /\ UNCHANGED <<window, job, waited, recent>>
        BY <2>5 DEF ReadClock
      <3>2. /\ phase' \in [Thread -> {"idle", "adds", "waits"}]
            /\ \A t \in Thread : phase'[t] = "waits" => phase[t] = "waits" \/ t = th
        BY <2>1, <3>1
      <3>3. QED
        BY <2>1, <2>2, <3>1, <3>2 DEF CorrelationInv
    <2>6. ASSUME NEW th \in Thread, AddAnomaly(th)
          PROVE  CorrelationInv'
      <3> DEFINE a == [flag |-> Head(job[th]), age |-> waited[th]]
                 w == Append(window, a)
      <3>1. /\ phase[th] = "waits"
            /\ window' = Evicted(w, waited[th])
            /\ recent' = IF a.age <= Window THEN recent \cup {a} ELSE recent
            /\ job' = [job EXCEPT ![th] = Tail(@)]
            /\ phase' = [phase EXCEPT ![th] = "adds"]
            /\ waited' = [waited EXCEPT ![th] = 0]
        BY <2>6 DEF AddAnomaly
      <3>2. Head(job[th]) \in Flag /\ Tail(job[th]) \in Seq(Flag)
        BY <2>1, <2>2, <3>1, HeadTailProperties
      <3>3. waited[th] \in 0..MaxWait /\ waited[th] \in Nat /\ waited[th] \in 0..MaxAge
        BY <2>1 DEF MaxAge
      <3>4. a \in Aged
        BY <3>2, <3>3 DEF Aged
      <3> HIDE DEF a
      <3>5. /\ w \in Seq(Aged) /\ Len(w) = Len(window) + 1
            /\ \A i \in 1..Len(window) : w[i] = window[i]
            /\ w[Len(window) + 1] = a
        BY <2>1, <3>4, AppendProperties
      <3>6. DOMAIN w = 1..(Len(window) + 1)
        BY <3>5, LenProperties
      <3> HIDE DEF w
      <3>7. /\ window' \in Seq(Aged)
            /\ \A i \in DOMAIN w : ~Expired(w[i], waited[th]) =>
                 \E j \in DOMAIN window' : window'[j] = w[i]
        BY <3>1, <3>3, <3>5, EvictedKeepsTheRest
      <3>8. \A b \in Aged : b.age <= Window => ~Expired(b, waited[th])
        <4>1. \A b \in Aged : b.age \in Int
          BY <2>1 DEF Aged, MaxAge
        <4>2. QED
          BY <2>1, <3>3, <4>1 DEF Expired
      <3>9. recent' \subseteq Aged /\ \A b \in recent' : b.age <= Window
        BY <2>2, <3>1, <3>4
      <3>10. \A b \in recent' : \E i \in DOMAIN w : w[i] = b
        <4>1. \A b \in recent' : b = a \/ \E i \in 1..Len(window) : window[i] = b
          BY <2>1, <2>2, <3>1
        <4>2. Len(window) + 1 \in DOMAIN w /\ \A i \in 1..Len(window) : i \in DOMAIN w
          BY <2>1, <3>6
        <4>3. QED
          BY <3>5, <4>1, <4>2
      <3>11. \A b \in recent' : \E j \in DOMAIN window' : window'[j] = b
        BY <3>7, <3>8, <3>9, <3>10
      <3>12. job' \in [Thread -> Seq(Flag)] /\ phase' \in [Thread -> {"idle", "adds", "waits"}]
        BY <2>1, <3>1, <3>2
      <3>13. waited' \in [Thread -> 0..MaxWait]
        BY <2>1, <3>1
      <3>14. \A t \in Thread : phase'[t] = "waits" => job'[t] # <<>>
        BY <2>1, <2>2, <3>1
      <3>15. QED
        BY <3>7, <3>9, <3>11, <3>12, <3>13, <3>14 DEF CorrelationInv
    <2>7. ASSUME NEW th \in Thread, EndBatch(th)
          PROVE  CorrelationInv'
      <3>1. phase' = [phase EXCEPT ![th] = "idle"] /\ UNCHANGED <<window, job, waited, recent>>
        BY <2>7 DEF EndBatch
      <3>2. /\ phase' \in [Thread -> {"idle", "adds", "waits"}]
            /\ \A t \in Thread : phase'[t] = "waits" => phase[t] = "waits"
        BY <2>1, <3>1
      <3>3. QED
        BY <2>1, <2>2, <3>1, <3>2 DEF CorrelationInv
    <2>8. CASE UNCHANGED correlationVars
      BY <2>8 DEF correlationVars, CorrelationInv
    <2>9. QED
      BY <2>3, <2>4, <2>5, <2>6, <2>7, <2>8 DEF CorrelationNext
  <1>3. CorrelationInv => NoneMissed
    <2> SUFFICES ASSUME CorrelationInv PROVE NoneMissed
      OBVIOUS
    <2> DEFINE A == {a.flag : a \in recent}
               g == [i \in DOMAIN window |-> window[i].flag]
               B == {window[i].flag : i \in DOMAIN window}
    <2>1. IsFiniteSet(DOMAIN window)
      BY LenProperties, FS_Interval DEF CorrelationInv
    <2>2. g \in Surjection(DOMAIN window, B)
      BY DEF Surjection
    <2>3. IsFiniteSet(B)
      BY <2>1, <2>2, FS_Surjection
    <2>4. A \subseteq B
      BY DEF CorrelationInv
    <2> HIDE DEF A, B
    <2>5. Correlated(A) \subseteq Correlated(B)
      BY <2>3, <2>4, CorrelatedIsMonotone
    <2>6. QED
      BY <2>5 DEF NoneMissed, InTime, Found, A, B
  <1>4. QED
    BY <1>1, <1>2, <1>3, PTL DEF CorrelationSpec

-----------------------------------------------------------------------------
(* The model registry.  A version that is not loaded is as load_model will *)
(* make it, a swap whose version was not evicted has it loaded, and every  *)
(* loaded version has one of its model that serves.                        *)
RegistryInv ==
  /\ models \in Seq(Key)
  /\ active \in [Key -> BOOLEAN] /\ traffic \in [Key -> Nat]
  /\ swap \in [Model -> Swap \cup {NoSwap}]
  /\ \A k \in Key \ Loaded : active[k] /\ traffic[k] = 100
  /\ \A m \in Model : swap[m] # NoSwap /\ swap[m].current => <<m, swap[m].new>> \in Loaded
  /\ LoadedIsServed

(* Removing the element at an index removes it and nothing else.           *)
LEMMA RemoveAtElements ==
  ASSUME NEW S, NEW s \in Seq(S), NEW i \in 1..Len(s)
  PROVE  /\ RemoveAt(s, i) \in Seq(S)
         /\ ToSet(RemoveAt(s, i)) \subseteq ToSet(s)
         /\ ToSet(s) \ {s[i]} \subseteq ToSet(RemoveAt(s, i))
PROOF
  <1>1. Len(s) \in Nat /\ DOMAIN s = 1..Len(s) /\ \A j \in 1..Len(s) : s[j] \in S
    BY LenProperties, ElementOfSeq
  <1> DEFINE a == SubSeq(s, 1, i - 1)
             b == SubSeq(s, i + 1, Len(s))
             r == a \o b
  <1>2. a \in Seq(S) /\ Len(a) = i - 1 /\ \A j \in 1..(i - 1) : a[j] = s[j]
    <2>1. i - 1 \in Int /\ \A j \in 1..(i - 1) : s[j] \in S
      BY <1>1
    <2>2. /\ a \in Seq(S) /\ Len(a) = IF 1 <= i - 1 THEN i - 1 - 1 + 1 ELSE 0
          /\ \A j \in 1..(i - 1 - 1 + 1) : a[j] = s[1 + j - 1]
      BY <2>1, SubSeqProperties
    <2> HIDE DEF a
    <2>3. QED
      BY <1>1, <2>2
  <1>3. b \in Seq(S) /\ Len(b) = Len(s) - i /\ \A j \in 1..(Len(s) - i) : b[j] = s[i + j]
    <2>1. i + 1 \in Int /\ Len(s) \in Int /\ \A j \in (i + 1)..Len(s) : s[j] \in S
      BY <1>1
    <2>2. /\ b \in Seq(S) /\ Len(b) = IF i + 1 <= Len(s) THEN Len(s) - (i + 1) + 1 ELSE 0
          /\ \A j \in 1..(Len(s) - (i + 1) + 1) : b[j] = s[(i + 1) + j - 1]
      BY <2>1, SubSeqProperties
    <2> HIDE DEF b
    <2>3. \A j \in 1..(Len(s) - i) : j \in 1..(Len(s) - (i + 1) + 1) /\ (i + 1) + j - 1 = i + j
      BY <1>1
    <2>4. Len(b) = Len(s) - i
      <3>1. \A n, j \in Int : j <= n => (IF j + 1 <= n THEN n - (j + 1) + 1 ELSE 0) = n - j
        OBVIOUS
      <3>2. i \in Int /\ Len(s) \in Int /\ i <= Len(s)
        BY <1>1
      <3>3. (IF i + 1 <= Len(s) THEN Len(s) - (i + 1) + 1 ELSE 0) = Len(s) - i
        BY <3>1, <3>2
      <3>4. QED
        BY <2>2, <3>3
    <2>5. QED
      BY <2>2, <2>3, <2>4
  <1> HIDE DEF a, b
  <1>4. /\ r \in Seq(S) /\ Len(r) = Len(a) + Len(b)
        /\ \A j \in 1..(Len(a) + Len(b)) : r[j] = IF j <= Len(a) THEN a[j] ELSE b[j - Len(a)]
    <2>1. \A u, v \in Seq(S) :
            /\ u \o v \in Seq(S) /\ Len(u \o v) = Len(u) + Len(v)
            /\ \A j \in 1..(Len(u) + Len(v)) :
                 (u \o v)[j] = IF j <= Len(u) THEN u[j] ELSE v[j - Len(u)]
      BY ConcatProperties
    <2>2. QED
      BY <1>2, <1>3, <2>1
  <1>5. RemoveAt(s, i) = r
    BY DEF RemoveAt, a, b
  <1> HIDE DEF r
  <1>6. DOMAIN r = 1..(Len(s) - 1)
    <2>1. Len(r) = Len(s) - 1
      BY <1>1, <1>2, <1>3, <1>4
    <2>2. QED
      BY <1>4, <2>1, LenProperties
  <1>7. \A j \in 1..(i - 1) : r[j] = s[j]
    <2> SUFFICES ASSUME NEW j \in 1..(i - 1) PROVE r[j] = s[j]
      OBVIOUS
    <2>1. j \in 1..(Len(a) + Len(b)) /\ j <= Len(a)
      BY <1>1, <1>2, <1>3
    <2>2. r[j] = a[j]
      BY <1>4, <2>1
    <2>3. QED
      BY <1>2, <2>2
  <1>8. \A j \in i..(Len(s) - 1) : r[j] = s[j + 1]
    <2> SUFFICES ASSUME NEW j \in i..(Len(s) - 1) PROVE r[j] = s[j + 1]
      OBVIOUS
    <2>1. /\ j \in 1..(Len(a) + Len(b)) /\ ~(j <= Len(a)) /\ j - Len(a) = j - (i - 1)
          /\ j - (i - 1) \in 1..(Len(s) - i) /\ i + (j - (i - 1)) = j + 1
      BY <1>1, <1>2, <1>3
    <2>2. r[j] = b[j - Len(a)]
      BY <1>4, <2>1
    <2>3. QED
      BY <1>3, <2>1, <2>2
  <1>9. ToSet(r) \subseteq ToSet(s)
    <2> SUFFICES ASSUME NEW j \in 1..(Len(s) - 1) PROVE \E n \in 1..Len(s) : r[j] = s[n]
      BY <1>1, <1>6 DEF ToSet
    <2>1. CASE j < i
      BY <1>1, <1>7, <2>1
    <2>2. CASE ~(j < i)
      BY <1>1, <1>8, <2>2
    <2>3. QED
      BY <2>1, <2>2
  <1>10. ToSet(s) \ {s[i]} \subseteq ToSet(r)
    <2> SUFFICES ASSUME NEW n \in 1..Len(s), n # i
                 PROVE  \E j \in 1..(Len(s) - 1) : r[j] = s[n]
      BY <1>1, <1>6 DEF ToSet
    <2>1. CASE n < i
      BY <1>1, <1>7, <2>1
    <2>2. CASE n > i
      <3>1. n - 1 \in i..(Len(s) - 1) /\ n - 1 + 1 = n /\ n - 1 \in 1..(Len(s) - 1)
        BY <1>1, <2>2
      <3>2. QED
        BY <1>8, <3>1
    <2>3. QED
      BY <1>1, <2>1, <2>2
  <1>11. QED
    BY <1>4, <1>5, <1>9, <1>10

(* Appending adds one element.                                             *)
LEMMA AppendElements ==
  ASSUME NEW S, NEW s \in Seq(S), NEW e \in S
  PROVE  Append(s, e) \in Seq(S) /\ ToSet(Append(s, e)) = ToSet(s) \cup {e}
PROOF
  <1>1. /\ Append(s, e) \in Seq(S) /\ Len(Append(s, e)) = Len(s) + 1
        /\ \A i \in 1..Len(s) : Append(s, e)[i] = s[i]
        /\ Append(s, e)[Len(s) + 1] = e
    BY AppendProperties
  <1>2. /\ Len(s) \in Nat /\ DOMAIN s = 1..Len(s)
        /\ DOMAIN Append(s, e) = 1..(Len(s) + 1)
    BY <1>1, LenProperties
  <1> DEFINE t == Append(s, e)
  <1> HIDE DEF t
  <1>3. ToSet(t) \subseteq ToSet(s) \cup {e}
    <2> SUFFICES ASSUME NEW i \in 1..(Len(s) + 1)
                 PROVE  t[i] = e \/ t[i] \in {s[j] : j \in 1..Len(s)}
      BY <1>2 DEF ToSet, t
    <2>1. i \in 1..Len(s) \/ i = Len(s) + 1
      BY <1>2
    <2>2. QED
      BY <1>1, <2>1 DEF t
  <1>4. ToSet(s) \cup {e} \subseteq ToSet(t)
    <2>1. Len(s) + 1 \in DOMAIN t /\ \A i \in 1..Len(s) : i \in DOMAIN t
      BY <1>2 DEF t
    <2>2. t[Len(s) + 1] = e /\ \A i \in 1..Len(s) : t[i] = s[i]
      BY <1>1 DEF t
    <2>3. QED
      BY <1>2, <2>1, <2>2 DEF ToSet
  <1>5. QED
    BY <1>1, <1>3, <1>4 DEF t

(* What a load leaves loaded, and what it evicts: when some loaded version *)
(* is idle an idle one, else a version whose rivals all serve (load_model, *)
(* _evict_lru).                                                            *)
LEMMA LoadKeepsServing ==
  ASSUME RegistryInv, NEW k \in Key, k \notin Loaded,
         NEW swaps \in [Model -> Swap \cup {NoSwap}],
         \A m \in Model : swaps[m] # NoSwap /\ swaps[m].current =>
                            <<m, swaps[m].new>> \in Loaded \cup {k},
         LoadKey(k, swaps)
  PROVE  RegistryInv'
PROOF
  <1>1. /\ models \in Seq(Key) /\ active \in [Key -> BOOLEAN] /\ traffic \in [Key -> Nat]
        /\ \A x \in Key \ Loaded : active[x] /\ traffic[x] = 100
        /\ \A x \in Loaded : x[1] \in rolledBack \/ Candidates(x[1]) # {}
        /\ rolledBack' = rolledBack \ {k[1]}
        /\ Len(models) \in Nat /\ DOMAIN models = 1..Len(models)
        /\ \A i \in 1..Len(models) : models[i] \in Key
        /\ Loaded \subseteq Key
    <2>1. models \in Seq(Key)
      BY DEF RegistryInv
    <2>2. Len(models) \in Nat /\ DOMAIN models = 1..Len(models) /\ \A i \in 1..Len(models) : models[i] \in Key
      BY <2>1, LenProperties, ElementOfSeq
    <2>3. Loaded \subseteq Key
      BY <2>2 DEF Loaded, ToSet
    <2>4. QED
      BY <2>2, <2>3 DEF RegistryInv, LoadedIsServed, LoadKey
  <1>2. CASE ~MustEvict
    <2>1. models' = Append(models, k) /\ swap' = swaps /\ UNCHANGED <<active, traffic>>
      BY <1>2 DEF LoadKey
    <2>2. models' \in Seq(Key) /\ Loaded' = Loaded \cup {k}
      BY <1>1, <2>1, AppendElements DEF Loaded
    <2>3. \A x \in Loaded' : x[1] \in rolledBack' \/ Candidates(x[1])' # {}
      <3>1. \A m : Candidates(m) \subseteq Candidates(m)'
        BY <2>1, <2>2 DEF Candidates
      <3>2. k \in Candidates(k[1])'
        BY <1>1, <2>1, <2>2 DEF Candidates
      <3>3. QED
        BY <1>1, <2>2, <3>1, <3>2
    <2>4. QED
      BY <1>1, <2>1, <2>2, <2>3 DEF RegistryInv, LoadedIsServed
  <1>3. CASE MustEvict
    <2>1. PICK i \in Victims :
            /\ models' = Append(RemoveAt(models, i), k)
            /\ active' = [active EXCEPT ![models[i]] = TRUE]
            /\ traffic' = [traffic EXCEPT ![models[i]] = 100]
            /\ swap' = [m \in Model |->
                          IF swaps[m] # NoSwap /\ models[i] = <<m, swaps[m].new>>
                            THEN [swaps[m] EXCEPT !.current = FALSE] ELSE swaps[m]]
      BY <1>3 DEF LoadKey
    <2> DEFINE idle == {j \in DOMAIN models : ~active[models[j]] \/ traffic[models[j]] = 0}
    <2>2. /\ i \in 1..Len(models)
          /\ i \in idle \/ idle = {}
      <3>1. CASE idle = {}
        <4>1. i = 1
          BY <2>1, <3>1 DEF Victims
        <4>2. 1 \in 1..Len(models)
          BY <1>1, <1>3, RegistryAssumption DEF MustEvict
        <4>3. QED
          BY <3>1, <4>1, <4>2
      <3>2. CASE idle # {}
        <4>1. i = CHOOSE x \in idle : \A y \in idle : x <= y
          BY <2>1, <3>2 DEF Victims
        <4>2. idle \subseteq 1..Len(models) /\ idle \subseteq Nat
          BY <1>1
        <4> HIDE DEF idle
        <4>3. \E x \in idle : \A y \in idle : x <= y
          BY <3>2, <4>2, LeastOfNaturals
        <4>4. i \in idle
          BY <4>1, <4>3
        <4>5. QED
          BY <4>2, <4>4
      <3>3. QED
        BY <3>1, <3>2
    <2> DEFINE v == models[i]
               r == RemoveAt(models, i)
    <2>3. v \in Key /\ v \in Loaded /\ v # k
      BY <1>1, <2>2 DEF Loaded, ToSet
    <2>4. /\ r \in Seq(Key)
          /\ ToSet(r) \subseteq Loaded /\ Loaded \ {v} \subseteq ToSet(r)
      BY <1>1, <2>2, RemoveAtElements DEF Loaded
    <2>5. models' = Append(r, k)
      BY <2>1
    <2>6. models' \in Seq(Key) /\ ToSet(models') = ToSet(r) \cup {k}
      BY <2>4, <2>5, AppendElements
    <2>7. models' \in Seq(Key) /\ Loaded' \subseteq Loaded \cup {k}
          /\ (Loaded \ {v}) \cup {k} \subseteq Loaded'
      BY <2>4, <2>6 DEF Loaded
    <2>8. /\ active' \in [Key -> BOOLEAN] /\ traffic' \in [Key -> Nat]
          /\ active'[v] /\ traffic'[v] = 100
          /\ \A x \in Key : x # v => active'[x] = active[x] /\ traffic'[x] = traffic[x]
      BY <1>1, <2>1, <2>3
    <2> HIDE DEF v, r
    <2>9. \A x \in Key \ Loaded' : active'[x] /\ traffic'[x] = 100
      BY <1>1, <2>7, <2>8
    <2>10. \A x \in Loaded : x # v /\ active[x] /\ traffic[x] > 0 => x \in Candidates(x[1])'
      BY <1>1, <2>7, <2>8 DEF Candidates
    <2>11. k \in Candidates(k[1])'
      <3>1. active'[k] /\ traffic'[k] = 100 /\ k \in Loaded'
        BY <1>1, <2>3, <2>7, <2>8
      <3>2. QED
        BY <3>1 DEF Candidates
    <2>12. ASSUME NEW x \in Loaded', x # k, x[1] \notin rolledBack', x[1] # k[1]
           PROVE  Candidates(x[1])' # {}
      <3>1. x \in Loaded /\ x[1] \notin rolledBack
        BY <1>1, <2>7, <2>12
      <3>2. CASE i \in idle
        <4>1. ~active[v] \/ traffic[v] = 0
          BY <3>2 DEF v
        <4>2. PICK y : y \in Candidates(x[1])
          BY <1>1, <3>1
        <4>3. y \in Loaded /\ y[1] = x[1] /\ active[y] /\ traffic[y] > 0 /\ y # v
          BY <4>1, <4>2 DEF Candidates
        <4>4. QED
          BY <2>10, <4>3
      <3>3. CASE idle = {}
        <4>1. CASE x = v
          <5>1. active'[x] /\ traffic'[x] > 0
            BY <2>8, <4>1
          <5>2. QED
            BY <5>1 DEF Candidates
        <4>2. CASE x # v
          <5>1. active[x] /\ traffic[x] # 0 /\ traffic[x] \in Nat
            BY <1>1, <3>1, <3>3 DEF Loaded, ToSet
          <5>2. QED
            BY <2>10, <3>1, <4>2, <5>1
        <4>3. QED
          BY <4>1, <4>2
      <3>4. QED
        BY <2>2, <3>2, <3>3
    <2>13. LoadedIsServed'
      <3> SUFFICES ASSUME NEW x \in Loaded', x[1] \notin rolledBack'
          PROVE  Candidates(x[1])' # {}
        BY DEF LoadedIsServed
      <3>1. CASE x[1] = k[1]
        BY <2>11, <3>1
      <3>2. CASE x[1] # k[1]
        BY <2>12, <3>2
      <3>3. QED
        BY <3>1, <3>2
    <2>14. /\ swap' \in [Model -> Swap \cup {NoSwap}]
           /\ \A m \in Model : swap'[m] # NoSwap /\ swap'[m].current =>
                                 <<m, swap'[m].new>> \in Loaded'
      <3> SUFFICES ASSUME NEW m \in Model
                   PROVE  /\ swap'[m] \in Swap \cup {NoSwap}
                          /\ swap'[m] # NoSwap /\ swap'[m].current => <<m, swap'[m].new>> \in Loaded'
        BY <2>1
      <3>1. CASE swaps[m] # NoSwap /\ v = <<m, swaps[m].new>>
        <4>1. swaps[m] \in Swap /\ swap'[m] = [swaps[m] EXCEPT !.current = FALSE]
          BY <2>1, <3>1 DEF v
        <4>2. swap'[m] \in Swap /\ swap'[m].current = FALSE
          BY <4>1 DEF Swap
        <4>3. QED
          BY <4>2
      <3>2. CASE ~(swaps[m] # NoSwap /\ v = <<m, swaps[m].new>>)
        <4>1. swap'[m] = swaps[m]
          BY <2>1, <3>2 DEF v
        <4>2. swap'[m] # NoSwap /\ swap'[m].current =>
                <<m, swap'[m].new>> \in Loaded \cup {k} /\ <<m, swap'[m].new>> # v
          BY <3>2, <4>1
        <4>3. QED
          BY <2>7, <4>1, <4>2
      <3>3. QED
        BY <3>1, <3>2
    <2>15. QED
      BY <2>7, <2>8, <2>9, <2>13, <2>14 DEF RegistryInv
  <1>4. QED
    BY <1>2, <1>3

(* While any version of a model is loaded one of them serves, whatever     *)
(* loads evict and whatever comes between the steps of a swap, unless the *)
(* last promotion was of an inactive version (ModelRegistry).              *)
THEOREM LoadedModelsServe == RegistrySpec => []LoadedIsServed
PROOF
  <1>1. RegistryInit => RegistryInv
    <2> SUFFICES ASSUME RegistryInit PROVE RegistryInv
      OBVIOUS
    <2>1. /\ models \in Seq(Key)
          /\ active = [k \in Key |-> TRUE] /\ traffic = [k \in Key |-> 100]
          /\ swap = [m \in Model |-> NoSwap]
      BY RegistryAssumption DEF RegistryInit, Preload, Key
    <2>2. Loaded \subseteq Key
      BY <2>1, LenProperties, ElementOfSeq DEF Loaded, ToSet
    <2>3. \A k \in Loaded : k \in Candidates(k[1])
      BY <2>1, <2>2 DEF Candidates
    <2>4. QED
      BY <2>1, <2>2, <2>3 DEF RegistryInv, LoadedIsServed
  <1>2. RegistryInv /\ [RegistryNext]_registryVars => RegistryInv'
    <2> SUFFICES ASSUME RegistryInv, [RegistryNext]_registryVars
                 PROVE  RegistryInv'
      OBVIOUS
    <2>1. /\ models \in Seq(Key)
          /\ active \in [Key -> BOOLEAN] /\ traffic \in [Key -> Nat]
          /\ swap \in [Model -> Swap \cup {NoSwap}]
          /\ \A k \in Key \ Loaded : active[k] /\ traffic[k] = 100
          /\ \A m \in Model : swap[m] # NoSwap /\ swap[m].current => <<m, swap[m].new>> \in Loaded
          /\ \A k \in Loaded : k[1] \in rolledBack \/ Candidates(k[1]) # {}
      BY DEF RegistryInv, LoadedIsServed
    <2>2. Loaded \subseteq Key
      BY <2>1, LenProperties, ElementOfSeq DEF Loaded, ToSet
    <2>3. NoSwap \notin Version /\ Canary \in 1..99
      BY RegistryAssumption
    <2>4. ASSUME NEW m \in Model, NEW v \in Version, LoadModel(m, v)
          PROVE  RegistryInv'
      BY <2>1, <2>4, LoadKeepsServing DEF LoadModel, Key
    <2>5. ASSUME NEW m \in Model, NEW old \in Version, NEW new \in Version, HotSwap(m, old, new)
          PROVE  RegistryInv'
      <3> DEFINE s == [step |-> "canary", old |-> old, new |-> new, current |-> TRUE]
                 swaps == [swap EXCEPT ![m] = s]
      <3>1. IF <<m, new>> \in Loaded
              THEN swap' = swaps /\ UNCHANGED <<models, active, traffic, rolledBack>>
              ELSE LoadKey(<<m, new>>, swaps)
        BY <2>5 DEF HotSwap
      <3>2. s \in Swap /\ s.new = new /\ s.current
        BY DEF Swap
      <3>3. <<m, new>> \in Key
        BY DEF Key
      <3> HIDE DEF s
      <3>4. /\ swaps \in [Model -> Swap \cup {NoSwap}]
            /\ \A n \in Model : swaps[n] # NoSwap /\ swaps[n].current =>
                                  <<n, swaps[n].new>> \in Loaded \cup {<<m, new>>}
        BY <2>1, <3>2
      <3> HIDE DEF swaps
      <3>5. CASE <<m, new>> \notin Loaded
        BY <3>1, <3>3, <3>4, <3>5, LoadKeepsServing
      <3>6. CASE <<m, new>> \in Loaded
        <4>1. swap' = swaps /\ UNCHANGED <<models, active, traffic, rolledBack>>
          BY <3>1, <3>6
        <4>2. /\ Loaded' = Loaded /\ \A n : Candidates(n)' = Candidates(n)
          BY <4>1 DEF Loaded, Candidates
        <4>3. QED
          BY <2>1, <3>4, <3>6, <4>1, <4>2 DEF RegistryInv, LoadedIsServed
      <3>7. QED
        BY <3>5, <3>6
    <2>6. ASSUME NEW m \in Model, SetCanary(m) PROVE RegistryInv'
      <3> DEFINE k == <<m, swap[m].new>>
      <3>1. /\ swap[m] # NoSwap /\ models' = models
            /\ swap' = [swap EXCEPT ![m].step = "reduce"]
            /\ IF swap[m].current
                 THEN /\ active' = [active EXCEPT ![k] = TRUE]
                      /\ traffic' = [traffic EXCEPT ![k] = Canary]
                      /\ rolledBack' = rolledBack \ {m}
                 ELSE UNCHANGED <<active, traffic, rolledBack>>
        BY <2>6 DEF SetCanary
      <3>2. swap[m] \in Swap /\ k \in Key
        BY <2>1, <3>1 DEF Swap, Key
      <3>3. /\ swap'[m] \in Swap /\ swap'[m].new = swap[m].new /\ swap'[m].current = swap[m].current
            /\ \A n \in Model : n # m => swap'[n] = swap[n]
        <4>1. swap'[m] = [swap[m] EXCEPT !.step = "reduce"]
          BY <2>1, <3>1
        <4>2. QED
          BY <2>1, <3>1, <3>2, <4>1 DEF Swap
      <3>4. Loaded' = Loaded
        BY <3>1 DEF Loaded
      <3>5. swap' \in [Model -> Swap \cup {NoSwap}]
        BY <2>1, <3>1, <3>3
      <3>6. \A n \in Model : swap'[n] # NoSwap /\ swap'[n].current => <<n, swap'[n].new>> \in Loaded'
        BY <2>1, <3>1, <3>3, <3>4
      <3>7. swap[m].current => k \in Loaded
        BY <2>1, <3>1
      <3> HIDE DEF k
      <3>k. k \in Key /\ k[1] = m /\ (swap[m].current => k \in Loaded)
        BY <3>2, <3>7 DEF k
      <3>8. /\ active' \in [Key -> BOOLEAN] /\ traffic' \in [Key -> Nat]
            /\ swap[m].current => active'[k] /\ traffic'[k] > 0
            /\ \A x \in Key : \/ active'[x] = active[x] /\ traffic'[x] = traffic[x]
                              \/ x \in Loaded /\ active'[x] /\ traffic'[x] > 0
        <4>1. CASE ~swap[m].current
          BY <2>1, <3>1, <4>1
        <4>2. CASE swap[m].current
          <5>1. Canary \in Nat /\ Canary > 0
            BY <2>3
          <5>2. /\ traffic' \in [Key -> Nat] /\ traffic'[k] > 0
                /\ \A x \in Key : x # k => traffic'[x] = traffic[x]
            BY <2>1, <3>1, <3>2, <4>2, <5>1
          <5>3. /\ active' \in [Key -> BOOLEAN] /\ active'[k]
                /\ \A x \in Key : x # k => active'[x] = active[x]
            <6>1. active' = [active EXCEPT ![k] = TRUE]
              BY <3>1, <4>2
            <6>2. active' \in [Key -> BOOLEAN]
              BY <2>1, <6>1
            <6>3. active'[k] = TRUE
              BY <2>1, <3>2, <6>1
            <6>4. \A x \in Key : x # k => active'[x] = active[x]
              BY <2>1, <6>1
            <6>5. QED
              BY <6>2, <6>3, <6>4
          <5>4. QED
            BY <3>7, <4>2, <5>2, <5>3
        <4>3. QED
          BY <4>1, <4>2
      <3>9. \A n : Candidates(n) \subseteq Candidates(n)'
        BY <2>2, <3>4, <3>8 DEF Candidates
      <3>10. LoadedIsServed'
        <4> SUFFICES ASSUME NEW x \in Loaded', x[1] \notin rolledBack'
            PROVE  Candidates(x[1])' # {}
          BY DEF LoadedIsServed
        <4>1. CASE swap[m].current /\ x[1] = m
          <5>1. k \in Candidates(m)'
            BY <3>4, <3>8, <3>k, <4>1 DEF Candidates
          <5>2. QED
            BY <4>1, <5>1
        <4>2. CASE ~(swap[m].current /\ x[1] = m)
          <5>1. x[1] \notin rolledBack
            BY <3>1, <4>2
          <5>2. QED
            BY <2>1, <3>4, <3>9, <5>1
        <4>3. QED
          BY <4>1, <4>2
      <3>11. QED
        BY <2>1, <3>1, <3>4, <3>5, <3>6, <3>8, <3>10 DEF RegistryInv
    <2>7. ASSUME NEW m \in Model, ReduceOld(m) PROVE RegistryInv'
      <3> DEFINE k == <<m, swap[m].old>>
      <3>1. /\ swap[m] # NoSwap /\ models' = models /\ active' = active /\ rolledBack' = rolledBack
            /\ swap' = [swap EXCEPT ![m] = NoSwap]
            /\ traffic' = IF k \in Loaded THEN [traffic EXCEPT ![k] = 100 - Canary] ELSE traffic
        BY <2>7 DEF ReduceOld
      <3>2. Loaded' = Loaded
        BY <3>1 DEF Loaded
      <3>3. /\ swap' \in [Model -> Swap \cup {NoSwap}] /\ swap'[m] = NoSwap
            /\ \A n \in Model : n # m => swap'[n] = swap[n]
        BY <2>1, <3>1
      <3>4. \A n \in Model : swap'[n] # NoSwap /\ swap'[n].current => <<n, swap'[n].new>> \in Loaded'
        BY <2>1, <3>2, <3>3
      <3> HIDE DEF k
      <3>5. 100 - Canary \in Nat /\ 100 - Canary > 0
        BY <2>3
      <3>6. /\ traffic' \in [Key -> Nat]
            /\ \A x \in Key : traffic'[x] = traffic[x] \/ (x \in Loaded /\ traffic'[x] > 0)
        <4>1. CASE k \in Loaded
          <5>1. traffic' = [traffic EXCEPT ![k] = 100 - Canary] /\ k \in Key
            BY <2>2, <3>1, <4>1
          <5>2. /\ traffic' \in [Key -> Nat] /\ traffic'[k] > 0
                /\ \A x \in Key : x # k => traffic'[x] = traffic[x]
            BY <2>1, <3>5, <5>1
          <5>3. QED
            BY <4>1, <5>2
        <4>2. CASE k \notin Loaded
          BY <2>1, <3>1, <4>2
        <4>3. QED
          BY <4>1, <4>2
      <3>7. \A n : Candidates(n) \subseteq Candidates(n)'
        BY <2>2, <3>1, <3>2, <3>6 DEF Candidates
      <3>8. QED
        BY <2>1, <3>1, <3>2, <3>3, <3>4, <3>6, <3>7 DEF RegistryInv, LoadedIsServed
    <2>8. ASSUME NEW m \in Model, NEW v \in Version, PromoteCanary(m, v) PROVE RegistryInv'
      <3> DEFINE k == <<m, v>>
      <3>1. /\ k \in Loaded
            /\ rolledBack' = IF active[k] THEN rolledBack \ {m} ELSE rolledBack \cup {m}
            /\ active' = Deactivated(m, v)
            /\ traffic' = [x \in Key |-> IF x = k THEN 100
                                         ELSE IF x \in Loaded /\ x[1] = m THEN 0 ELSE traffic[x]]
            /\ UNCHANGED <<models, swap>>
        BY <2>8 DEF PromoteCanary
      <3>2. Loaded' = Loaded
        BY <3>1 DEF Loaded
      <3>3. active' \in [Key -> BOOLEAN] /\ traffic' \in [Key -> Nat]
        BY <2>1, <3>1 DEF Deactivated
      <3>4. (active[k] => active'[k]) /\ traffic'[k] = 100
        BY <2>1, <2>2, <3>1 DEF Deactivated
      <3>5. \A x \in Key : x \notin Loaded \/ x[1] # m =>
                             active'[x] = active[x] /\ traffic'[x] = traffic[x]
        <4>1. \A x \in Key : x \notin Loaded \/ x[1] # m => active'[x] = active[x]
          BY <2>1, <3>1 DEF Deactivated
        <4>2. \A x \in Key : x \notin Loaded \/ x[1] # m => traffic'[x] = traffic[x]
          BY <3>1
        <4>3. QED
          BY <4>1, <4>2
      <3>6. active[k] => k \in Candidates(m)'
        BY <3>1, <3>2, <3>4 DEF Candidates
      <3>7. \A n : n # m => Candidates(n) \subseteq Candidates(n)'
        BY <2>2, <3>2, <3>5 DEF Candidates
      <3>8. \A x \in Loaded' : x[1] \in rolledBack' \/ Candidates(x[1])' # {}
        <4> SUFFICES ASSUME NEW x \in Loaded', x[1] \notin rolledBack'
            PROVE  Candidates(x[1])' # {}
          OBVIOUS
        <4>1. CASE x[1] = m
          BY <3>1, <3>6, <4>1
        <4>2. CASE x[1] # m
          BY <2>1, <3>1, <3>2, <3>7, <4>2
        <4>3. QED
          BY <4>1, <4>2
      <3>9. QED
        BY <2>1, <3>1, <3>2, <3>3, <3>5, <3>8 DEF RegistryInv, LoadedIsServed
    <2>9. CASE UNCHANGED registryVars
      BY <2>1, <2>9 DEF registryVars, RegistryInv, LoadedIsServed, Loaded, Candidates
    <2>10. QED
      BY <2>4, <2>5, <2>6, <2>7, <2>8, <2>9 DEF RegistryNext
  <1>3. RegistryInv => LoadedIsServed
    BY DEF RegistryInv
  <1>4. QED
    BY <1>1, <1>2, <1>3, PTL DEF RegistrySpec

-----------------------------------------------------------------------------
(* Batched inference.  How often a request was executed follows from where *)
(* its call is and whether it waits, and it waits in the batch of its      *)
(* model only.                                                             *)
Accounted(q) ==
  /\ progress[q] \in {"new", "dropped", "runs", "joins"} => runs[q] = 0 /\ ~Waits(q)
  /\ progress[q] = "returns" => runs[q] = 1 /\ ~Waits(q)
  /\ progress[q] = "done" => runs[q] = IF Waits(q) THEN 0 ELSE 1

BatchInv ==
  /\ progress \in [Request -> Progress]
  /\ batches \in [ModelIds -> Seq(Request)]
  /\ timedOut \subseteq ModelIds
  /\ runs \in [Request -> 0..2]
  /\ \A m \in ModelIds : \A q \in ToSet(batches[m]) : q \in Request /\ ModelOf[q] = m
  /\ \A q \in Request : Accounted(q)

(* A request that waits does so in the batch of its model, and its call is *)
(* over.                                                                   *)
LEMMA WaitsInItsBatch ==
  ASSUME BatchInv, NEW q \in Request
  PROVE  /\ ModelOf[q] \in ModelIds
         /\ Waits(q) <=> q \in ToSet(batches[ModelOf[q]])
         /\ Waits(q) => progress[q] = "done" /\ runs[q] = 0
         /\ runs[q] \in 0..1
PROOF
  <1>1. ModelOf[q] \in ModelIds
    BY DEF ModelIds
  <1>2. Waits(q) <=> q \in ToSet(batches[ModelOf[q]])
    BY <1>1 DEF Waits, BatchInv
  <1>3. progress[q] \in Progress /\ Accounted(q)
    BY DEF BatchInv
  <1>4. Waits(q) => progress[q] = "done" /\ runs[q] = 0
    BY <1>3 DEF Accounted, Progress
  <1>5. runs[q] \in 0..1
    BY <1>3 DEF Accounted, Progress
  <1>6. QED
    BY <1>1, <1>2, <1>4, <1>5

(* Steps that only move the call of one request, to where a request that   *)
(* was executed as often and does not wait may be.                         *)
LEMMA CallsMoveOn ==
  ASSUME BatchInv, NEW q \in Request, NEW p \in Progress,
         progress' = [progress EXCEPT ![q] = p],
         UNCHANGED <<batches, runs>>, timedOut' \subseteq ModelIds,
         \/ progress[q] = "new" /\ p \in {"dropped", "runs", "joins"}
         \/ progress[q] = "returns" /\ p = "done"
  PROVE  BatchInv'
PROOF
  <1>1. /\ progress' \in [Request -> Progress] /\ progress'[q] = p
        /\ \A x \in Request : x # q => progress'[x] = progress[x]
    BY DEF BatchInv
  <1>2. \A x : Waits(x)' = Waits(x)
    BY DEF Waits
  <1>3. ASSUME NEW x \in Request PROVE Accounted(x)'
    <2>1. Accounted(x) /\ Accounted(q)
      BY DEF BatchInv
    <2>2. CASE x = q
      BY <1>1, <1>2, <2>1, <2>2 DEF Accounted
    <2>3. CASE x # q
      BY <1>1, <1>2, <2>1, <2>3 DEF Accounted
    <2>4. QED
      BY <2>2, <2>3
  <1>4. QED
    BY <1>1, <1>3 DEF BatchInv

(* Batches that are executed and emptied: every request in them is then    *)
(* executed once and waits no more (_execute_batch, flush_expired).        *)
LEMMA BatchesAreRunOnce ==
  ASSUME BatchInv, NEW M \in SUBSET ModelIds, NEW R \in SUBSET Request,
         \A q \in R : progress[q] \in {"runs", "joins"},
         runs' = Executed(R \cup UNION {ToSet(batches[m]) : m \in M}),
         batches' = [m \in ModelIds |-> IF m \in M THEN <<>> ELSE batches[m]],
         progress' = [q \in Request |-> IF q \in R THEN "returns" ELSE progress[q]],
         timedOut' \subseteq ModelIds
  PROVE  BatchInv'
PROOF
  <1> DEFINE X == R \cup UNION {ToSet(batches[m]) : m \in M}
  <1>1. /\ progress \in [Request -> Progress] /\ runs \in [Request -> 0..2]
        /\ batches \in [ModelIds -> Seq(Request)]
        /\ \A m \in ModelIds : \A q \in ToSet(batches[m]) : q \in Request /\ ModelOf[q] = m
        /\ \A q \in Request : Accounted(q)
    BY DEF BatchInv
  <1>2. progress' \in [Request -> Progress]
    BY <1>1 DEF Progress
  <1>3. batches' \in [ModelIds -> Seq(Request)]
    BY <1>1, EmptySeq
  <1>4. ToSet(<<>>) = {}
    BY DEF ToSet
  <1>5. \A q \in X : q \in Request /\ runs[q] = 0
    <2>1. \A q \in R : q \in Request /\ runs[q] = 0
      BY <1>1 DEF Accounted
    <2>2. \A m \in M : \A q \in ToSet(batches[m]) : q \in Request /\ Waits(q)
      BY <1>1 DEF Waits
    <2>3. \A m \in M : \A q \in ToSet(batches[m]) : q \in Request /\ runs[q] = 0
      BY <2>2, WaitsInItsBatch
    <2>4. QED
      BY <2>1, <2>3
  <1>6. \A q \in Request : runs'[q] = IF q \in X THEN 1 ELSE runs[q]
    <2> HIDE DEF X
    <2>1. \A q \in Request : runs'[q] = IF q \in X /\ runs[q] < 2 THEN runs[q] + 1 ELSE runs[q]
      BY DEF Executed, X
    <2>2. QED
      BY <1>5, <2>1
  <1>7. runs' \in [Request -> 0..2]
    <2>1. DOMAIN runs' = Request /\ runs' = [q \in Request |-> runs'[q]]
      BY DEF Executed
    <2>2. \A q \in Request : runs'[q] \in 0..2
      BY <1>1, <1>6
    <2>3. QED
      BY <2>1, <2>2
  <1>8. \A m \in ModelIds : ToSet(batches'[m]) = IF m \in M THEN {} ELSE ToSet(batches[m])
    BY <1>4
  <1>9. \A m \in ModelIds : \A q \in ToSet(batches'[m]) : q \in Request /\ ModelOf[q] = m
    BY <1>1, <1>8
  <1>10. ASSUME NEW q \in Request PROVE Accounted(q)'
    <2>1. /\ Accounted(q) /\ ModelOf[q] \in ModelIds
          /\ Waits(q) <=> q \in ToSet(batches[ModelOf[q]])
          /\ Waits(q) => progress[q] = "done" /\ runs[q] = 0
      BY <1>1, WaitsInItsBatch
    <2>2. Waits(q)' <=> q \in ToSet(batches'[ModelOf[q]])
      BY <1>9, <2>1 DEF Waits
    <2>3. Waits(q)' <=> Waits(q) /\ ModelOf[q] \notin M
      BY <1>8, <2>1, <2>2
    <2>4. q \in X <=> q \in R \/ (Waits(q) /\ ModelOf[q] \in M)
      BY <1>1, <2>1
    <2>5. CASE q \in R
      <3>1. ~Waits(q) /\ progress'[q] = "returns" /\ q \in X
        BY <2>1, <2>5
      <3>2. QED
        BY <1>6, <2>3, <3>1 DEF Accounted
    <2>6. CASE q \notin R /\ Waits(q) /\ ModelOf[q] \in M
      <3>1. progress'[q] = "done" /\ ~Waits(q)' /\ runs'[q] = 1
        BY <1>6, <2>1, <2>3, <2>4, <2>6
      <3>2. QED
        BY <3>1 DEF Accounted
    <2>7. CASE q \notin R /\ ~(Waits(q) /\ ModelOf[q] \in M)
      <3>1. progress'[q] = progress[q] /\ runs'[q] = runs[q]
        BY <1>6, <2>4, <2>7
      <3>2. Waits(q)' <=> Waits(q)
        BY <2>3, <2>7
      <3>3. QED
        BY <2>1, <3>1, <3>2 DEF Accounted
    <2>8. QED
      BY <2>5, <2>6, <2>7
  <1>11. QED
    BY <1>2, <1>3, <1>7, <1>9, <1>10 DEF BatchInv

(* A request that was accepted is executed exactly once or waits in one    *)
(* batch, and a dropped one never, however calls and collections overlap   *)
(* (submit, infer, get_pending_results).                                   *)
THEOREM RequestsRunOnce == BatchSpec => []ExecutedOnce
PROOF
  <1>1. BatchInit => BatchInv
    <2> SUFFICES ASSUME BatchInit PROVE BatchInv
      OBVIOUS
    <2>1. /\ progress = [q \in Request |-> "new"] /\ runs = [q \in Request |-> 0]
          /\ batches = [m \in ModelIds |-> <<>>] /\ timedOut = {}
      BY DEF BatchInit
    <2>2. /\ progress \in [Request -> Progress] /\ runs \in [Request -> 0..2]
          /\ batches \in [ModelIds -> Seq(Request)]
      BY <2>1, EmptySeq DEF Progress
    <2>3. \A m \in ModelIds : ToSet(batches[m]) = {}
      BY <2>1 DEF ToSet
    <2>4. \A q \in Request : Accounted(q)
      BY <2>1, <2>3 DEF Accounted, Waits
    <2>5. QED
      BY <2>1, <2>2, <2>3, <2>4 DEF BatchInv
  <1>2. BatchInv /\ [BatchNext]_batchVars => BatchInv'
    <2> SUFFICES ASSUME BatchInv, [BatchNext]_batchVars
                 PROVE  BatchInv'
      OBVIOUS
    <2>1. /\ progress \in [Request -> Progress] /\ runs \in [Request -> 0..2]
          /\ batches \in [ModelIds -> Seq(Request)] /\ timedOut \subseteq ModelIds
      BY DEF BatchInv
    <2>2. ASSUME NEW q \in Request, Submit(q) PROVE BatchInv'
      <3> DEFINE p == IF q \in overdue THEN "dropped"
                      ELSE IF Priority[q] = "REAL_TIME" THEN "runs"
                      ELSE IF throttled /\ Priority[q] # "HIGH" THEN "dropped" ELSE "joins"
      <3>1. /\ progress[q] = "new" /\ progress' = [progress EXCEPT ![q] = p]
            /\ UNCHANGED <<batches, runs, timedOut>>
        BY <2>2 DEF Submit
      <3>2. p \in {"dropped", "runs", "joins"} /\ p \in Progress
        BY DEF Progress
      <3> HIDE DEF p
      <3>3. QED
        BY <2>1, <3>1, <3>2, CallsMoveOn
    <2>3. ASSUME NEW q \in Request, KeepResult(q) PROVE BatchInv'
      <3>1. /\ progress[q] = "returns" /\ progress' = [progress EXCEPT ![q] = "done"]
            /\ UNCHANGED <<batches, runs, timedOut>> /\ "done" \in Progress
        BY <2>3 DEF KeepResult, Progress
      <3>2. QED
        BY <2>1, <3>1, CallsMoveOn
    <2>4. ASSUME NEW q \in Request, RunAlone(q) PROVE BatchInv'
      <3>1. /\ progress[q] = "runs" /\ runs' = Executed({q})
            /\ progress' = [progress EXCEPT ![q] = "returns"]
            /\ UNCHANGED <<batches, timedOut>>
        BY <2>4 DEF RunAlone
      <3>2. {q} = {q} \cup UNION {ToSet(batches[m]) : m \in {}}
        OBVIOUS
      <3>3. batches' = [m \in ModelIds |-> IF m \in {} THEN <<>> ELSE batches[m]]
        BY <2>1, <3>1
      <3>4. progress' = [x \in Request |-> IF x \in {q} THEN "returns" ELSE progress[x]]
        BY <2>1, <3>1
      <3>5. /\ {q} \in SUBSET Request /\ {} \in SUBSET ModelIds
            /\ \A x \in {q} : progress[x] \in {"runs", "joins"} /\ timedOut' \subseteq ModelIds
        BY <2>1, <3>1
      <3>6. runs' = Executed({q} \cup UNION {ToSet(batches[m]) : m \in {}})
        BY <3>1, <3>2
      <3>7. QED
        BY <3>3, <3>4, <3>5, <3>6, BatchesAreRunOnce
    <2>5. ASSUME NEW q \in Request, JoinBatch(q) PROVE BatchInv'
      <3> DEFINE m == ModelOf[q]
                 joined == Append(batches[m], q)
      <3>1. progress[q] = "joins" /\ m \in ModelIds
        BY <2>5 DEF JoinBatch, ModelIds
      <3>2. batches[m] \in Seq(Request)
        BY <2>1, <3>1
      <3>3. joined \in Seq(Request) /\ ToSet(joined) = ToSet(batches[m]) \cup {q}
        BY <3>2, AppendElements
      <3> HIDE DEF m
      <3>4. CASE Len(joined) >= MaxBatch
        <4>1. /\ batches' = [batches EXCEPT ![m] = <<>>] /\ timedOut' = timedOut \ {m}
              /\ runs' = Executed(ToSet(joined))
              /\ progress' = [progress EXCEPT ![q] = "returns"]
          BY <2>5, <3>4 DEF JoinBatch, m
        <4>2. ToSet(joined) = {q} \cup UNION {ToSet(batches[x]) : x \in {m}}
          BY <3>3
        <4>3. batches' = [x \in ModelIds |-> IF x \in {m} THEN <<>> ELSE batches[x]]
          BY <2>1, <4>1
        <4>4. progress' = [x \in Request |-> IF x \in {q} THEN "returns" ELSE progress[x]]
          BY <2>1, <4>1
        <4>5. /\ {q} \in SUBSET Request /\ {m} \in SUBSET ModelIds
              /\ \A x \in {q} : progress[x] \in {"runs", "joins"} /\ timedOut' \subseteq ModelIds
          BY <2>1, <3>1, <4>1
        <4>6. runs' = Executed({q} \cup UNION {ToSet(batches[x]) : x \in {m}})
          BY <4>1, <4>2
        <4>7. QED
          BY <4>3, <4>4, <4>5, <4>6, BatchesAreRunOnce
      <3>5. CASE ~(Len(joined) >= MaxBatch)
        <4>1. /\ batches' = [batches EXCEPT ![m] = joined]
              /\ progress' = [progress EXCEPT ![q] = "done"]
              /\ UNCHANGED <<timedOut, runs>>
          BY <2>5, <3>5 DEF JoinBatch, m
        <4>2. /\ batches' \in [ModelIds -> Seq(Request)]
              /\ progress' \in [Request -> Progress] /\ progress'[q] = "done"
              /\ \A x \in Request : x # q => progress'[x] = progress[x]
          BY <2>1, <3>3, <4>1 DEF Progress
        <4>3. \A x \in ModelIds : ToSet(batches'[x]) =
                IF x = m THEN ToSet(batches[m]) \cup {q} ELSE ToSet(batches[x])
          BY <2>1, <3>3, <4>1
        <4>4. \A n \in ModelIds : \A x \in ToSet(batches'[n]) : x \in Request /\ ModelOf[x] = n
          <5>1. \A n \in ModelIds : \A x \in ToSet(batches[n]) : x \in Request /\ ModelOf[x] = n
            BY DEF BatchInv
          <5>2. ModelOf[q] = m
            BY DEF m
          <5>3. QED
            BY <4>3, <5>1, <5>2
        <4>5. ASSUME NEW x \in Request PROVE Accounted(x)'
          <5>1. Accounted(x)
            BY DEF BatchInv
          <5>2. CASE x = q
            <6>1. Waits(x)'
              BY <3>1, <4>3, <5>2 DEF Waits
            <6>2. runs'[x] = 0
              BY <3>1, <4>1, <5>1, <5>2 DEF Accounted
            <6>3. QED
              BY <4>2, <5>2, <6>1, <6>2 DEF Accounted
          <5>3. CASE x # q
            <6>1. Waits(x)' <=> Waits(x)
              BY <3>1, <4>3, <5>3 DEF Waits
            <6>2. progress'[x] = progress[x] /\ runs'[x] = runs[x]
              BY <4>1, <4>2, <5>3
            <6>3. QED
              BY <5>1, <6>1, <6>2 DEF Accounted
          <5>4. QED
            BY <5>2, <5>3
        <4>6. QED
          BY <2>1, <4>1, <4>2, <4>4, <4>5 DEF BatchInv
      <3>6. QED
        BY <3>4, <3>5
    <2>6. CASE FlushExpired
      <3>1. /\ runs' = Executed(UNION {ToSet(batches[m]) : m \in timedOut})
            /\ batches' = [m \in ModelIds |-> IF m \in timedOut THEN <<>> ELSE batches[m]]
            /\ timedOut' = timedOut \ timedOut /\ progress' = progress
        BY <2>6 DEF FlushExpired, Flushed, Popped
      <3>2. runs' = Executed({} \cup UNION {ToSet(batches[m]) : m \in timedOut})
        <4>1. UNION {ToSet(batches[m]) : m \in timedOut} = {} \cup UNION {ToSet(batches[m]) : m \in timedOut}
          OBVIOUS
        <4>2. QED
          BY <3>1, <4>1
      <3>3. progress' = [x \in Request |-> IF x \in {} THEN "returns" ELSE progress[x]]
        BY <2>1, <3>1
      <3>4. /\ {} \in SUBSET Request /\ timedOut \in SUBSET ModelIds
            /\ \A x \in {} : progress[x] \in {"runs", "joins"}
            /\ timedOut' \subseteq ModelIds
        BY <2>1, <3>1
      <3>5. QED
        BY <3>1, <3>2, <3>3, <3>4, BatchesAreRunOnce
    <2>7. ASSUME NEW m \in ModelIds, TimeOut(m) PROVE BatchInv'
      <3>1. timedOut' = timedOut \cup {m} /\ UNCHANGED <<progress, batches, runs>>
        BY <2>7 DEF TimeOut
      <3>2. QED
        BY <2>1, <3>1 DEF BatchInv, Accounted, Waits
    <2>8. CASE \/ SetThermalThrottle \/ CopyResults \/ ClearResults
               \/ \E q \in Request : Overdue(q)
               \/ UNCHANGED batchVars
      <3>1. UNCHANGED <<progress, batches, runs, timedOut>>
        BY <2>8 DEF SetThermalThrottle, CopyResults, ClearResults, Overdue, batchVars
      <3>2. QED
        BY <2>1, <3>1 DEF BatchInv, Accounted, Waits
    <2>9. QED
      BY <2>2, <2>3, <2>4, <2>5, <2>6, <2>7, <2>8 DEF BatchNext, GetPendingResults, Infer
  <1>3. BatchInv => ExecutedOnce
    <2> SUFFICES ASSUME BatchInv, NEW q \in Request
                 PROVE  /\ runs[q] <= 1
                        /\ progress[q] = "done" => (Waits(q) <=> runs[q] = 0)
                        /\ progress[q] = "dropped" => runs[q] = 0
      BY DEF ExecutedOnce
    <2>1. Accounted(q) /\ runs[q] \in 0..1
      BY WaitsInItsBatch DEF BatchInv
    <2>2. QED
      BY <2>1 DEF Accounted
  <1>4. QED
    BY <1>1, <1>2, <1>3, PTL DEF BatchSpec

=============================================================================
