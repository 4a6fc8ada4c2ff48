---------------------------- MODULE DeviceProofs ----------------------------
(***************************************************************************)
(* Proofs about the services of an edge node and the sensor hub in front   *)
(* of it, for any events, models, buffers, windows and batches, and        *)
(* whatever falls between two steps of a call.                             *)
(***************************************************************************)
EXTENDS ReconnectUploader, NodeServices, SensorHub, FiniteSetTheorems, SequenceTheorems,
        WellFoundedInduction, TLAPS

-----------------------------------------------------------------------------
(* The asynchronous uploader.  A row leaves the table by an overwriting,   *)
(* which is logged, or by the acknowledgement of what was just stored.     *)
LEMMA TurnLosesNothing ==
  ASSUME NoEventLost, NEW d \in Drain, Turn(d)
  PROVE  NoEventLost'
PROOF
  <1>1. CASE Start(d) \/ ReadBatch(d)
    <2>1. UNCHANGED <<rows, evicted, written, stored>>
      BY <1>1 DEF Start, ReadBatch, buffer
    <2>2. QED
      BY <2>1 DEF NoEventLost
  <1>2. CASE PostAccepted(d)
    <2>1. PICK e : /\ stored' = stored \cup {e} /\ rows' = rows \ {e}
                   /\ evicted' = evicted /\ written' = written
      BY <1>2 DEF PostAccepted, AckRow, Buffer!Ack
    <2>2. QED
      BY <2>1 DEF NoEventLost
  <1>3. CASE PostFails(d)
    <2>1. UNCHANGED <<rows, evicted, written, stored>>
      BY <1>3 DEF PostFails, KeepRow, buffer
    <2>2. QED
      BY <2>1 DEF NoEventLost
  <1>4. QED
    BY <1>1, <1>2, <1>3 DEF Turn

(* A full table overwrites its oldest row, and the overflow log has it.    *)
LEMMA WriteLosesNothing ==
  ASSUME NoEventLost, NEW e \in Event, SensorWrites(e)
  PROVE  NoEventLost'
PROOF
  <1>1. /\ written' = written \cup {e} /\ stored' = stored
        /\ \/ rows' = rows \cup {e} /\ evicted' = evicted
           \/ \E o \in rows : rows' = (rows \ {o}) \cup {e} /\ evicted' = evicted \cup {o}
    BY DEF SensorWrites, Buffer!Write, Buffer!Oldest, Buffer!Overwrite
  <1>2. QED
    BY <1>1 DEF NoEventLost

(* An event leaves the buffer only when the pipeline has stored it or with *)
(* an entry in the overflow log, for any number of overlapping calls, any  *)
(* batch and any answers (ReconnectUploader.start, CircularBuffer).        *)
THEOREM UploadsLoseNothing == UploaderSpec => []NoEventLost
PROOF
  <1>1. UploaderInit => NoEventLost
    BY DEF UploaderInit, Buffer!Init, NoEventLost
  <1>2. NoEventLost /\ [UploaderNext]_uploaderVars => NoEventLost'
    <2> SUFFICES ASSUME NoEventLost, [UploaderNext]_uploaderVars
        PROVE  NoEventLost'
      OBVIOUS
    <2>1. CASE UNCHANGED uploaderVars
      BY <2>1 DEF uploaderVars, buffer, NoEventLost
    <2>2. QED
      BY <2>1, TurnLosesNothing, WriteLosesNothing DEF UploaderNext
  <1>3. QED
    BY <1>1, <1>2, PTL DEF UploaderSpec

(* The uploader also ends its passes for a reason: what a batch no longer  *)
(* than batch_size leaves out are the rows beyond batch_size.              *)
UploaderInv ==
  /\ IsFiniteSet(rows) /\ pc = [d \in Drain |-> pc[d]] /\ late = [d \in Drain |-> late[d]]
  /\ failed = [d \in Drain |-> failed[d]] /\ \A d \in Drain : IsFiniteSet(failed[d])
  /\ CompleteMeansTried

LEMMA NumbersAreCounted == \A m \in Nat : IsFiniteSet(1..m) /\ Cardinality(1..m) = m
PROOF BY FS_Interval

LEMMA FullBatchOrAll ==
  ASSUME IsFiniteSet(rows), NEW b \in Buffer!Batches(BatchSize), NEW F, IsFiniteSet(F),
         \A i \in DOMAIN b : b[i] \in F, Cardinality(F) < BatchSize
  PROVE  rows \subseteq F
PROOF
  <1> USE UploaderAssumption
  <1> DEFINE size == IF Cardinality(rows) < BatchSize THEN Cardinality(rows) ELSE BatchSize
             R == {b[i] : i \in 1..size}
  <1>1. Cardinality(rows) \in Nat /\ size \in Nat /\ Cardinality(F) \in Nat
    BY FS_CardinalityType
  <1>2. b \in [1..size -> rows] /\ \A i, j \in 1..size : i < j => b[i] # b[j]
    <2>1. Buffer!Cardinality(rows) = Cardinality(rows)
      BY DEF Buffer!Cardinality, Cardinality
    <2>2. QED
      BY <2>1 DEF Buffer!Batches
  <1> HIDE DEF size
  <1>3. R \subseteq F /\ R \subseteq rows
    BY <1>2
  <1>4. IsFiniteSet(1..size) /\ Cardinality(1..size) = size
    BY <1>1, NumbersAreCounted
  <1>5. Cardinality(R) = size
    <2>1. \A i, j \in 1..size : b[i] = b[j] => i = j
      BY <1>1, <1>2
    <2>2. b \in Bijection(1..size, R)
      BY <1>2, <2>1 DEF Bijection, Injection, Surjection, IsInjective
    <2>3. QED
      BY <1>4, <2>2, FS_Bijection DEF ExistsBijection
  <1>6. size <= Cardinality(F)
    BY <1>3, <1>5, FS_Subset
  <1>7. size = Cardinality(rows)
    BY <1>1, <1>6 DEF size
  <1>8. R = rows
    BY <1>3, <1>5, <1>7, FS_Subset
  <1>9. QED
    BY <1>3, <1>8

LEMMA TurnTries ==
  ASSUME UploaderInv, NEW d \in Drain, Turn(d)
  PROVE  UploaderInv'
PROOF
  <1> USE DEF UploaderInv
  <1>1. CASE Start(d)
    <2>1. pc' = [pc EXCEPT ![d] = "reading"] /\ UNCHANGED <<rows, failed, late>>
      BY <1>1 DEF Start, buffer
    <2>2. QED
      BY <2>1 DEF CompleteMeansTried
  <1>2. CASE ReadBatch(d)
    <2>1. PICK b \in Buffer!Batches(BatchSize) :
            pc' = [pc EXCEPT ![d] = IF Exhausted(b, d) THEN "done" ELSE "posting"]
      BY <1>2 DEF ReadBatch
    <2>2. late' = [late EXCEPT ![d] = {}] /\ UNCHANGED <<rows, failed>>
      BY <1>2 DEF ReadBatch, buffer
    <2>3. ASSUME pc'[d] = "done", Cardinality(failed[d]) < BatchSize PROVE rows \subseteq failed[d]
      <3>1. Exhausted(b, d)
        BY <2>1, <2>3
      <3>2. \A i \in DOMAIN b : b[i] \in failed[d]
        BY <3>1 DEF Exhausted
      <3>3. QED
        BY <2>3, <3>2, FullBatchOrAll
    <2>4. CompleteMeansTried'
      BY <2>1, <2>2, <2>3 DEF CompleteMeansTried
    <2>5. QED
      BY <2>1, <2>2, <2>4
  <1>3. CASE PostAccepted(d)
    <2>1. rows' \subseteq rows /\ UNCHANGED <<failed, late>>
      BY <1>3 DEF PostAccepted, AckRow, Buffer!Ack
    <2>2. \E to \in {"reading", "posting"} : pc' = [pc EXCEPT ![d] = to]
      BY <1>3 DEF PostAccepted, NextEvent
    <2>3. IsFiniteSet(rows')
      BY <2>1, FS_Subset
    <2>4. QED
      BY <2>1, <2>2, <2>3 DEF CompleteMeansTried
  <1>4. CASE PostFails(d)
    <2>1. rows' = rows /\ late' = late
      BY <1>4 DEF PostFails, KeepRow, buffer
    <2>2. \E to \in {"reading", "posting"} : pc' = [pc EXCEPT ![d] = to]
      BY <1>4 DEF PostFails, NextEvent
    <2>3. failed' = failed \/ \E e : failed' = [failed EXCEPT ![d] = @ \cup {e}]
      BY <1>4 DEF PostFails, GiveUp
    <2>4. \A c \in Drain : IsFiniteSet(failed'[c]) /\ (c # d => failed'[c] = failed[c])
      <3>1. \A e : IsFiniteSet(failed[d] \cup {e})
        BY FS_AddElement
      <3>2. QED
        BY <2>3, <3>1
    <2>5. failed' = [c \in Drain |-> failed'[c]]
      BY <2>3
    <2>6. QED
      BY <2>1, <2>2, <2>4, <2>5 DEF CompleteMeansTried
  <1>5. QED
    BY <1>1, <1>2, <1>3, <1>4 DEF Turn

LEMMA WritesComeLate ==
  ASSUME UploaderInv, NEW e \in Event, SensorWrites(e)
  PROVE  UploaderInv'
PROOF
  <1> USE DEF UploaderInv
  <1>1. rows' \subseteq rows \cup {e} /\ late' = [d \in Drain |-> late[d] \cup {e}]
        /\ pc' = pc /\ failed' = failed
    BY DEF SensorWrites, Buffer!Write, Buffer!Overwrite, call
  <1>2. IsFiniteSet(rows')
    BY <1>1, FS_AddElement, FS_Subset
  <1>3. QED
    BY <1>1, <1>2 DEF CompleteMeansTried

LEMMA UploaderInvariant == UploaderSpec => []UploaderInv
PROOF
  <1>1. UploaderInit => UploaderInv
    BY FS_EmptySet DEF UploaderInit, Buffer!Init, UploaderInv, CompleteMeansTried
  <1>2. UploaderInv /\ [UploaderNext]_uploaderVars => UploaderInv'
    <2> SUFFICES ASSUME UploaderInv, [UploaderNext]_uploaderVars
        PROVE  UploaderInv'
      OBVIOUS
    <2>1. CASE UNCHANGED uploaderVars
      BY <2>1 DEF uploaderVars, buffer, call, UploaderInv, CompleteMeansTried
    <2>2. QED
      BY <2>1, TurnTries, WritesComeLate DEF UploaderNext
  <1>3. QED
    BY <1>1, <1>2, PTL DEF UploaderSpec

(* A pass that gave up on fewer events than a batch holds leaves only      *)
(* these behind, and what was written after it looked last, for any calls, *)
(* batches and answers (ReconnectUploader.start).                          *)
THEOREM PassesTryEverything == UploaderSpec => []CompleteMeansTried
PROOF
  <1>1. UploaderInv => CompleteMeansTried
    BY DEF UploaderInv
  <1>2. QED
    BY <1>1, UploaderInvariant, PTL

-----------------------------------------------------------------------------
(* HandOver.  Whatever a call holds was written, and it posts only what it *)
(* holds.                                                                  *)
HeldBy(d) ==
  /\ pending[d] \in Seq(Event)
  /\ \A i \in 1..Len(pending[d]) : pending[d][i] \in written
  /\ pc[d] = "posting" => pending[d] # <<>>

HeldInv ==
  /\ rows \subseteq written /\ written \subseteq Event
  /\ pending = [d \in Drain |-> pending[d]]
  /\ \A d \in Drain : HeldBy(d)

(* What is left of a batch are rows, at least one if not all had failed.   *)
LEMMA UntriedAreRows ==
  ASSUME IsFiniteSet(rows), rows \subseteq Event, NEW d \in Drain,
         NEW b \in Buffer!Batches(BatchSize), NEW p \in Untried(b, d)
  PROVE  /\ p \in Seq(Event)
         /\ \A i \in 1..Len(p) : p[i] \in rows
         /\ ~Exhausted(b, d) => p # <<>>
PROOF
  <1>1. PICK size \in Nat : b \in [1..size -> rows]
    <2>1. Buffer!Cardinality(rows) = Cardinality(rows)
      BY DEF Buffer!Cardinality, Cardinality
    <2>2. Cardinality(rows) \in Nat /\ BatchSize \in Nat
      BY FS_CardinalityType, UploaderAssumption
    <2>3. QED
      BY <2>1, <2>2 DEF Buffer!Batches
  <1> DEFINE left == {i \in DOMAIN b : b[i] \notin failed[d]}
             n == Cardinality(left)
  <1>2. IsFiniteSet(left) /\ n \in Nat
    <2>1. left \subseteq 1..size
      BY <1>1
    <2>2. IsFiniteSet(1..size)
      BY <1>1, NumbersAreCounted
    <2>3. QED
      BY <2>1, <2>2, FS_Subset, FS_CardinalityType
  <1>3. PICK q \in [1..n -> left] : p = [i \in DOMAIN q |-> b[q[i]]]
    BY DEF Untried
  <1>4. n = 0 <=> left = {}
    BY <1>2, FS_EmptySet
  <1>5. left # {} <=> ~Exhausted(b, d)
    BY DEF Exhausted
  <1>6. left \subseteq 1..size
    BY <1>1
  <1> HIDE DEF left, n
  <1>7. p \in [1..n -> rows]
    BY <1>1, <1>3, <1>6
  <1>8. p \in Seq(Event) /\ Len(p) = n
    BY <1>2, <1>7
  <1>9. QED
    BY <1>2, <1>4, <1>5, <1>7, <1>8

(* The head of what a call posts, and what it goes on with.                *)
LEMMA HeadIsHeld ==
  ASSUME HeldInv, NEW d \in Drain, pc[d] = "posting"
  PROVE  /\ Head(pending[d]) \in written \cap Event
         /\ Tail(pending[d]) \in Seq(Event)
         /\ \A i \in 1..Len(Tail(pending[d])) : Tail(pending[d])[i] \in written
         /\ Len(pending[d]) # 1 => Tail(pending[d]) # <<>>
PROOF
  <1> DEFINE s == pending[d]
  <1>1. s \in Seq(Event) /\ s # <<>> /\ \A i \in 1..Len(s) : s[i] \in written
    BY DEF HeldInv, HeldBy
  <1> HIDE DEF s
  <1>2. Len(s) \in Nat /\ Len(s) # 0 /\ Head(s) = s[1] /\ 1 \in 1..Len(s)
    BY <1>1
  <1>3. /\ Tail(s) \in Seq(Event)
        /\ Len(Tail(s)) = Len(s) - 1
        /\ \A i \in 1..Len(Tail(s)) : Tail(s)[i] = s[i + 1]
    BY <1>1, HeadTailProperties
  <1>4. \A i \in 1..Len(Tail(s)) : Tail(s)[i] \in written
    BY <1>1, <1>2, <1>3
  <1>5. Len(s) # 1 => Tail(s) # <<>>
    <2>1. Len(<<>>) = 0
      OBVIOUS
    <2>2. Tail(s) = <<>> => Len(Tail(s)) = 0
      BY <2>1
    <2>3. QED
      BY <1>2, <1>3, <2>2
  <1>6. Head(s) \in written \cap Event
    BY <1>1, <1>2 DEF HeldInv
  <1>7. QED
    BY <1>3, <1>4, <1>5, <1>6 DEF s

(* Going on to the next event.                                             *)
LEMMA NextIsHeld ==
  ASSUME HeldInv, pc = [c \in Drain |-> pc[c]], NEW d \in Drain, pc[d] = "posting", NextEvent(d),
         rows' \subseteq rows, written' = written
  PROVE  HeldInv'
PROOF
  <1> DEFINE s == pending[d]
  <1>1. /\ pending' = [pending EXCEPT ![d] = Tail(s)]
        /\ pc' = [pc EXCEPT ![d] = IF Len(s) = 1 THEN "reading" ELSE "posting"]
    BY DEF NextEvent
  <1>2. /\ Tail(s) \in Seq(Event)
        /\ \A i \in 1..Len(Tail(s)) : Tail(s)[i] \in written
        /\ Len(s) # 1 => Tail(s) # <<>>
    BY HeadIsHeld
  <1>3. pending = [c \in Drain |-> pending[c]]
    BY DEF HeldInv
  <1>4. pending'[d] = Tail(s) /\ pc'[d] = IF Len(s) = 1 THEN "reading" ELSE "posting"
    BY <1>1, <1>3
  <1>5. HeldBy(d)'
    BY <1>2, <1>4 DEF HeldBy
  <1>6. ASSUME NEW c \in Drain, c # d PROVE HeldBy(c)'
    <2>1. pending'[c] = pending[c] /\ pc'[c] = pc[c]
      BY <1>1, <1>3, <1>6
    <2>2. QED
      BY <2>1 DEF HeldInv, HeldBy
  <1>7. QED
    BY <1>1, <1>3, <1>5, <1>6 DEF HeldInv

LEMMA TurnHolds ==
  ASSUME UploaderInv, HeldInv, NEW d \in Drain, Turn(d)
  PROVE  HeldInv'
PROOF
  <1>0. pc = [c \in Drain |-> pc[c]] /\ pending = [c \in Drain |-> pending[c]]
    BY DEF UploaderInv, HeldInv
  <1>1. CASE Start(d)
    <2>1. pc' = [pc EXCEPT ![d] = "reading"] /\ UNCHANGED <<rows, written, pending>>
      BY <1>1 DEF Start, buffer
    <2>2. \A c \in Drain : pc'[c] = "posting" => pc[c] = "posting"
      BY <1>0, <2>1
    <2>3. QED
      BY <2>1, <2>2 DEF HeldInv, HeldBy
  <1>2. CASE ReadBatch(d)
    <2>0. PICK b \in Buffer!Batches(BatchSize) : \E p \in Untried(b, d) :
            /\ pending' = [pending EXCEPT ![d] = p]
            /\ pc' = [pc EXCEPT ![d] = IF Exhausted(b, d) THEN "done" ELSE "posting"]
      BY <1>2 DEF ReadBatch
    <2>1. PICK p \in Untried(b, d) :
            /\ pending' = [pending EXCEPT ![d] = p]
            /\ pc' = [pc EXCEPT ![d] = IF Exhausted(b, d) THEN "done" ELSE "posting"]
      BY <2>0
    <2>2. UNCHANGED <<rows, written>>
      BY <1>2 DEF ReadBatch, buffer
    <2>3. /\ p \in Seq(Event)
          /\ \A i \in 1..Len(p) : p[i] \in rows
          /\ ~Exhausted(b, d) => p # <<>>
      BY UntriedAreRows DEF UploaderInv, HeldInv
    <2>4. pending'[d] = p /\ pc'[d] = IF Exhausted(b, d) THEN "done" ELSE "posting"
      BY <1>0, <2>1
    <2>5. HeldBy(d)'
      BY <2>2, <2>3, <2>4 DEF HeldBy, HeldInv
    <2>6. ASSUME NEW c \in Drain, c # d PROVE HeldBy(c)'
      <3>1. pending'[c] = pending[c] /\ pc'[c] = pc[c]
        BY <1>0, <2>1, <2>6
      <3>2. QED
        BY <2>2, <3>1 DEF HeldInv, HeldBy
    <2>7. QED
      BY <1>0, <2>1, <2>2, <2>5, <2>6 DEF HeldInv
  <1>3. CASE PostAccepted(d)
    <2>1. pc[d] = "posting" /\ NextEvent(d) /\ rows' \subseteq rows /\ written' = written
      BY <1>3 DEF PostAccepted, AckRow, Buffer!Ack
    <2>2. QED
      BY <1>0, <2>1, NextIsHeld
  <1>4. CASE PostFails(d)
    <2>1. pc[d] = "posting" /\ rows' = rows /\ written' = written
      BY <1>4 DEF PostFails, KeepRow, buffer
    <2>2. CASE NextEvent(d)
      BY <1>0, <2>1, <2>2, NextIsHeld
    <2>3. CASE UNCHANGED <<pc, pending>>
      BY <2>1, <2>3 DEF HeldInv, HeldBy
    <2>4. QED
      BY <1>4, <2>2, <2>3 DEF PostFails
  <1>5. QED
    BY <1>1, <1>2, <1>3, <1>4 DEF Turn

LEMMA WritesAreHeld ==
  ASSUME HeldInv, NEW e \in Event, SensorWrites(e)
  PROVE  HeldInv'
PROOF
  <1>1. /\ written' = written \cup {e} /\ rows' \subseteq rows \cup {e}
        /\ UNCHANGED <<pc, pending>>
    BY DEF SensorWrites, Buffer!Write, Buffer!Overwrite, call
  <1>2. QED
    BY <1>1 DEF HeldInv, HeldBy

(* write() of a new event is Accept, an answer of 200 is Deliver, also of  *)
(* what another call delivered and acknowledged before.                    *)
LEMMA SensorIsAccept ==
  ASSUME IsFiniteSet(rows), NEW e \in Event, SensorWrites(e)
  PROVE  Contract!Accept(e)
PROOF
  <1>1. /\ e \notin written /\ written' = written \cup {e} /\ stored' = stored
        /\ \/ ~Buffer!Full /\ rows' = rows \cup {e} /\ UNCHANGED evicted
           \/ Buffer!Full /\ \E o \in Buffer!Oldest(rows) : Buffer!Overwrite(o, e)
    BY DEF SensorWrites, Buffer!Write
  <1>2. Buffer!Full <=> Cardinality(rows) >= MaxRows
    BY DEF Buffer!Full, Buffer!Cardinality, Cardinality
  <1>3. Contract!Cardinality(rows) = Cardinality(rows)
    BY DEF Contract!Cardinality, Cardinality
  <1>4. Cardinality(rows) \in Nat /\ MaxRows \in Nat
    BY UploaderAssumption, FS_CardinalityType
  <1>5. CASE ~Buffer!Full
    BY <1>1, <1>2, <1>3, <1>4, <1>5 DEF Contract!Accept
  <1>6. CASE Buffer!Full
    <2>1. PICK o \in rows :
            /\ \A w \in rows : Timestamp[o] <= Timestamp[w]
            /\ rows' = (rows \ {o}) \cup {e}
            /\ evicted' = evicted \cup {o}
      BY <1>1, <1>6 DEF Buffer!Oldest, Buffer!Overwrite
    <2>2. QED
      BY <1>1, <1>2, <1>3, <1>4, <1>6, <2>1 DEF Contract!Accept
  <1>7. QED
    BY <1>5, <1>6

LEMMA AnswerIsDeliver ==
  ASSUME HeldInv, NEW d \in Drain, PostAccepted(d)
  PROVE  Contract!Next
PROOF
  <1>1. /\ pc[d] = "posting" /\ Head(pending[d]) \notin Rejected
        /\ stored' = stored \cup {Head(pending[d])} /\ rows' = rows \ {Head(pending[d])}
        /\ UNCHANGED <<evicted, written>>
    BY DEF PostAccepted, AckRow, Buffer!Ack
  <1>2. PICK e \in written \cap Event : e = Head(pending[d])
    BY <1>1, HeadIsHeld
  <1>3. Contract!Deliver(e)
    BY <1>1, <1>2 DEF Contract!Deliver
  <1>4. QED
    BY <1>2, <1>3 DEF Contract!Next

(* Overlapping uploads hand their events over as HandOver says, for any    *)
(* calls, batches, retries and answers (ReconnectUploader.start).          *)
THEOREM UploadersHandOver == UploaderSpec => ImplementsHandOver
PROOF
  <1>1. UploaderInit => HeldInv /\ Contract!Init
    BY DEF UploaderInit, Buffer!Init, HeldInv, HeldBy, Contract!Init
  <1>2. UploaderInv /\ HeldInv /\ [UploaderNext]_uploaderVars
          => HeldInv' /\ [Contract!Next]_(Contract!vars)
    <2> SUFFICES ASSUME UploaderInv, HeldInv, [UploaderNext]_uploaderVars
                 PROVE  HeldInv' /\ [Contract!Next]_(Contract!vars)
      OBVIOUS
    <2>1. ASSUME NEW e \in Event, SensorWrites(e)
          PROVE  HeldInv' /\ [Contract!Next]_(Contract!vars)
      <3>1. Contract!Accept(e)
        BY <2>1, SensorIsAccept DEF UploaderInv
      <3>2. QED
        BY <2>1, <3>1, WritesAreHeld DEF Contract!Next
    <2>2. ASSUME NEW d \in Drain, Turn(d)
          PROVE  HeldInv' /\ [Contract!Next]_(Contract!vars)
      <3>1. CASE PostAccepted(d)
        BY <2>2, <3>1, TurnHolds, AnswerIsDeliver
      <3>2. CASE Start(d) \/ ReadBatch(d) \/ PostFails(d)
        <4>1. UNCHANGED <<rows, evicted, written, stored>>
          BY <3>2 DEF Start, ReadBatch, PostFails, KeepRow, buffer
        <4>2. QED
          BY <2>2, <4>1, TurnHolds DEF Contract!vars
      <3>3. QED
        BY <2>2, <3>1, <3>2 DEF Turn
    <2>3. CASE UNCHANGED uploaderVars
      BY <2>3 DEF uploaderVars, buffer, call, HeldInv, HeldBy, Contract!vars
    <2>4. QED
      BY <2>1, <2>2, <2>3 DEF UploaderNext
  <1>3. QED
    BY <1>1, <1>2, UploaderInvariant, PTL DEF UploaderSpec, ImplementsHandOver, Contract!Spec

-----------------------------------------------------------------------------
(* The model store.  The weights are whole before the index names them, or *)
(* were overwritten since, and the index in memory and a readable index on *)
(* the disk are one, but while the new one is written.                     *)
Names(index) ==
  \A m \in StoredModel :
    index[m] # NoVersion =>
      /\ index[m] \in StoredVersion
      /\ weights[m][index[m]] = "whole" \/ <<m, index[m]>> \in overwrites

ModelsInv ==
  /\ weights \in [StoredModel -> [StoredVersion -> {"absent", "partial", "whole"}]]
  /\ memIndex \in [StoredModel -> StoredVersion \cup {NoVersion}]
  /\ diskIndex = [readable |-> diskIndex.readable, index |-> diskIndex.index]
  /\ saving = [at |-> saving.at, m |-> saving.m, v |-> saving.v]
  /\ Names(memIndex) /\ Names(LoadIndex(diskIndex))
  /\ IF saving.at = "write" THEN ~diskIndex.readable ELSE memIndex = LoadIndex(diskIndex)
  /\ saving.at = "index" => \A m \in saving.m, v \in saving.v : weights[m][v] = "whole"

(* A save in its steps, for one model and version.  A copy over an indexed *)
(* file excuses itself, and one that is complete needs no excuse.          *)
LEMMA SaveKeepsModels ==
  ASSUME ModelsInv, NEW m \in StoredModel, NEW v \in StoredVersion,
         SaveModel(m, v) \/ Copied(m, v) \/ Indexed(m, v)
  PROVE  ModelsInv'
PROOF
  <1> USE DEF ModelsInv
  <1>1. CASE SaveModel(m, v)
    <2>1. /\ saving.at # "write" /\ saving' = [at |-> "copy", m |-> {m}, v |-> {v}]
          /\ weights' = [weights EXCEPT ![m][v] = "partial"]
          /\ overwrites' = IF memIndex[m] = v THEN overwrites \cup {<<m, v>>} ELSE overwrites
          /\ UNCHANGED <<memIndex, diskIndex>>
      BY <1>1 DEF SaveModel, NotSaving
    <2>2. LoadIndex(diskIndex') = memIndex
      BY <2>1 DEF LoadIndex
    <2>3. Names(memIndex)'
      BY <2>1 DEF Names
    <2>4. QED
      BY <2>1, <2>2, <2>3 DEF Names
  <1>2. CASE Copied(m, v)
    <2>1. /\ saving.at = "copy" /\ saving.m = {m} /\ saving.v = {v} /\ saving' = [saving EXCEPT !.at = "index"]
          /\ weights' = [weights EXCEPT ![m][v] = "whole"]
          /\ overwrites' = overwrites \ {<<m, v>>}
          /\ UNCHANGED <<memIndex, diskIndex>>
      BY <1>2 DEF Copied
    <2>2. \A k \in StoredModel, w \in StoredVersion :
            weights[k][w] = "whole" \/ <<k, w>> \in overwrites =>
              weights'[k][w] = "whole" \/ <<k, w>> \in overwrites'
      <3> SUFFICES ASSUME NEW k \in StoredModel, NEW w \in StoredVersion,
                          weights[k][w] = "whole" \/ <<k, w>> \in overwrites
          PROVE  weights'[k][w] = "whole" \/ <<k, w>> \in overwrites'
        OBVIOUS
      <3>1. CASE k = m /\ w = v
        BY <2>1, <3>1
      <3>2. CASE ~(k = m /\ w = v)
        <4>1. <<k, w>> # <<m, v>>
          BY <3>2
        <4>2. weights'[k][w] = weights[k][w]
          BY <2>1, <3>2
        <4>3. QED
          BY <2>1, <4>1, <4>2
      <3>3. QED
        BY <3>1, <3>2
    <2>3. Names(memIndex)' /\ Names(LoadIndex(diskIndex))'
      BY <2>1, <2>2 DEF Names, LoadIndex
    <2>4. weights' \in [StoredModel -> [StoredVersion -> {"absent", "partial", "whole"}]] /\ weights'[m][v] = "whole"
      BY <2>1
    <2>5. saving'.at = "index" /\ saving' = [at |-> "index", m |-> {m}, v |-> {v}]
      BY <2>1
    <2>6. LoadIndex(diskIndex)' = LoadIndex(diskIndex) /\ memIndex' = memIndex /\ diskIndex' = diskIndex
      BY <2>1 DEF LoadIndex
    <2>7. QED
      BY <2>1, <2>3, <2>4, <2>5, <2>6
  <1>3. CASE Indexed(m, v)
    <2>1. /\ saving.at = "index" /\ saving.m = {m} /\ saving.v = {v}
          /\ memIndex' = [memIndex EXCEPT ![m] = v]
          /\ diskIndex' = [diskIndex EXCEPT !.readable = FALSE]
          /\ saving' = [saving EXCEPT !.at = "write"]
          /\ UNCHANGED <<weights, overwrites>>
      BY <1>3 DEF Indexed
    <2>2. saving'.at = "write" /\ saving' = [at |-> "write", m |-> {m}, v |-> {v}]
      BY <2>1
    <2>3. ~diskIndex'.readable /\ diskIndex' = [readable |-> FALSE, index |-> diskIndex.index]
      BY <2>1
    <2>4. Names(LoadIndex(diskIndex))' /\ Names(memIndex)'
      BY <2>1, <2>3 DEF Names, LoadIndex, NoIndex
    <2>5. QED
      BY <2>1, <2>2, <2>3, <2>4
  <1>4. QED
    BY <1>1, <1>2, <1>3

(* load_model finds whole weights under every name of the index, wherever  *)
(* crashes broke saves off, but where a version was saved again over its   *)
(* own indexed file, for any models and versions (model_store.py).         *)
THEOREM LoadedModelsAreWhole == StoreSpec => []LoadedIsWhole
PROOF
  <1>1. StoreInit => ModelsInv
    BY DEF StoreInit, ModelsInv, Names, NoIndex, LoadIndex, NotSaving
  <1>2. ModelsInv /\ [StoreNext]_storeVars => ModelsInv'
    <2> SUFFICES ASSUME ModelsInv, [StoreNext]_storeVars
        PROVE  ModelsInv'
      OBVIOUS
    <2>1. CASE UNCHANGED storeVars
      BY <2>1 DEF storeVars, ModelsInv, Names, LoadIndex
    <2>2. CASE SaveIndex
      BY <2>2 DEF SaveIndex, ModelsInv, Names, LoadIndex, NotSaving
    <2>3. CASE Restart
      BY <2>3 DEF Restart, ModelsInv, Names, LoadIndex, NoIndex, NotSaving
    <2>4. QED
      BY <2>1, <2>2, <2>3, SaveKeepsModels DEF StoreNext
  <1>3. ModelsInv => LoadedIsWhole
    BY DEF ModelsInv, Names, LoadedIsWhole
  <1>4. QED
    BY <1>1, <1>2, <1>3, PTL DEF StoreSpec

-----------------------------------------------------------------------------
(* Thermal protection.  The throttle has lasted at least as long as the    *)
(* cool spell the code measures within it.                                 *)
ThrottleInv ==
  /\ active \in BOOLEAN /\ throttled \in 0..Horizon
  /\ coolSince \in (0..Horizon) \cup {Never}
  /\ active /\ coolSince # Never => coolSince <= throttled
  /\ ~active => coolSince = Never

(* A sample keeps that, and a throttle is lifted when the spell is long    *)
(* enough for it.                                                          *)
LEMMA SampleKeepsThrottle ==
  ASSUME ThrottleInv, NEW g \in 1..MaxGap, HotSample(g) \/ CoolSample(g)
  PROVE  ThrottleInv' /\ (active /\ ~active' => throttled' >= Recovery)
PROOF
  <1> USE ThermalAssumption DEF ThrottleInv
  <1>1. /\ Horizon \in Nat /\ Recovery \in Nat /\ Recovery < Horizon /\ g \in Nat
        /\ \A t \in Nat : Capped(t) \in 0..Horizon /\ (t >= Recovery => Capped(t) >= Recovery)
        /\ \A t, u \in Nat : t <= u => Capped(t) <= Capped(u)
    BY DEF Horizon, Capped
  <1>2. throttled \in Nat /\ (coolSince # Never => coolSince \in Nat)
    BY <1>1
  <1> HIDE DEF Horizon, Capped
  <1>3. CASE HotSample(g)
    <2>1. CASE active
      <3>1. /\ active' = active /\ throttled' = Capped(throttled + g)
            /\ coolSince' = IF coolSince = Never THEN Never ELSE Capped(coolSince + g)
        BY <1>3, <2>1 DEF HotSample
      <3>2. throttled + g \in Nat /\ (coolSince # Never => coolSince + g \in Nat /\ coolSince + g <= throttled + g)
        BY <1>1, <1>2, <2>1
      <3>3. QED
        BY <1>1, <2>1, <3>1, <3>2
    <2>2. CASE ~active
      <3>1. active' = TRUE /\ coolSince' = Never /\ throttled' = 0
        BY <1>3, <2>2 DEF HotSample, Forgotten
      <3>2. QED
        BY <1>1, <2>2, <3>1
    <2>3. QED
      BY <2>1, <2>2
  <1>4. CASE CoolSample(g)
    <2>1. CASE active /\ ~Recovered(g)
      BY <1>1, <1>2, <1>4, <2>1 DEF CoolSample
    <2>2. CASE active /\ Recovered(g)
      <3>1. /\ coolSince \in Nat /\ coolSince + g >= Recovery /\ coolSince <= throttled
            /\ active' = FALSE /\ coolSince' = Never /\ throttled' = Capped(throttled + g)
        BY <1>2, <1>4, <2>2 DEF CoolSample, Recovered, Forgotten
      <3>2. throttled + g \in Nat /\ throttled + g >= Recovery
        BY <1>1, <1>2, <3>1
      <3>3. QED
        BY <1>1, <3>1, <3>2
    <2>3. CASE ~active
      <3>1. active' = FALSE /\ coolSince' = Never /\ throttled' = 0
        BY <1>4, <2>3 DEF CoolSample, Forgotten
      <3>2. active' \in BOOLEAN
        BY <3>1
      <3>3. 0 \in 0..Horizon
        BY <1>1
      <3>4. throttled' \in 0..Horizon
        BY <3>1, <3>3
      <3>5. ThrottleInv'
        BY <3>1, <3>2, <3>4
      <3>6. QED
        BY <2>3, <3>5
    <2>4. QED
      BY <2>1, <2>2, <2>3
  <1>5. QED
    BY <1>3, <1>4

(* Once throttled, inference stays throttled for the recovery time, for    *)
(* any spacing of the samples (hardware_telemetry.py, _handle_thermal).    *)
THEOREM ThrottleDoesNotToggle == ThermalSpec => NoRapidToggling
PROOF
  <1>1. ThermalInit => ThrottleInv
    <2>1. 0 \in 0..Horizon
      BY ThermalAssumption DEF Horizon
    <2>2. QED
      BY <2>1 DEF ThermalInit, ThrottleInv
  <1>2. ThrottleInv /\ [ThermalNext]_thermalVars =>
          ThrottleInv' /\ [active /\ ~active' => throttled' >= Recovery]_thermalVars
    <2> SUFFICES ASSUME ThrottleInv, [ThermalNext]_thermalVars
        PROVE  ThrottleInv' /\ [active /\ ~active' => throttled' >= Recovery]_thermalVars
      OBVIOUS
    <2>1. CASE UNCHANGED thermalVars
      BY <2>1 DEF thermalVars, ThrottleInv
    <2>2. CASE TemperatureChanges
      BY <2>2 DEF TemperatureChanges, ThrottleInv
    <2>3. CASE Sample
      BY <2>3, SampleKeepsThrottle DEF Sample
    <2>4. QED
      BY <2>1, <2>2, <2>3 DEF ThermalNext
  <1>3. QED
    BY <1>1, <1>2, PTL DEF ThermalSpec, NoRapidToggling

-----------------------------------------------------------------------------
(* Remainders, for a modulus that is no number but a parameter.            *)

(* Division with its remainder.                                            *)
LEMMA DivisionRule ==
  ASSUME NEW C \in Nat \ {0}, NEW a \in Int
  PROVE  a % C \in 0..(C - 1) /\ a \div C \in Int /\ a = C * (a \div C) + (a % C)
PROOF
  <1>1. a % C \in 0..(C - 1) /\ a \div C \in Int
    OBVIOUS
  <1> DEFINE m == C * (a \div C)
             r == a % C
  <1>2. r = a - m
    OBVIOUS
  <1>3. m \in Int /\ r \in Int
    BY <1>1
  <1> HIDE DEF m, r
  <1>4. a = m + r
    BY <1>2, <1>3
  <1>5. QED
    BY <1>1, <1>4 DEF m, r

(* A remainder is told by its range.                                       *)
LEMMA RemainderIsUnique ==
  ASSUME NEW C \in Nat \ {0}, NEW q \in Int, NEW p \in Int,
         NEW r \in 0..(C - 1), NEW s \in 0..(C - 1), C * q + r = C * p + s
  PROVE  r = s
PROOF
  <1>1. ~(q >= p + 1)
    <2> SUFFICES ASSUME q >= p + 1 PROVE FALSE
      OBVIOUS
    <2> DEFINE d == q - p
    <2>1. d \in Nat /\ d >= 1 /\ C * d >= C
      OBVIOUS
    <2>2. C * q = C * p + C * d
      OBVIOUS
    <2>3. QED
      BY <2>1, <2>2
  <1>2. ~(p >= q + 1)
    <2> SUFFICES ASSUME p >= q + 1 PROVE FALSE
      OBVIOUS
    <2> DEFINE d == p - q
    <2>1. d \in Nat /\ d >= 1 /\ C * d >= C
      OBVIOUS
    <2>2. C * p = C * q + C * d
      OBVIOUS
    <2>3. QED
      BY <2>1, <2>2
  <1>3. q = p
    BY <1>1, <1>2
  <1>4. QED
    BY <1>3

(* Numbers that differ by multiples of the modulus have one remainder.     *)
LEMMA RemainderIs ==
  ASSUME NEW C \in Nat \ {0}, NEW a \in Int, NEW q \in Int, NEW r \in 0..(C - 1), a = C * q + r
  PROVE  a % C = r
PROOF
  <1>1. a % C \in 0..(C - 1) /\ a \div C \in Int /\ a = C * (a \div C) + (a % C)
    BY DivisionRule
  <1>2. QED
    BY <1>1, RemainderIsUnique

(* It does not matter whether the remainder is taken before a sum.         *)
LEMMA RemainderOfSum ==
  ASSUME NEW C \in Nat \ {0}, NEW a \in Int, NEW b \in Int
  PROVE  ((a % C) + b) % C = (a + b) % C
PROOF
  <1> DEFINE p == a \div C
             x == (a % C) + b
             q == x \div C
  <1>1. a % C \in 0..(C - 1) /\ p \in Int /\ a = C * p + (a % C)
    BY DivisionRule
  <1>2. x \in Int
    BY <1>1
  <1>3. x % C \in 0..(C - 1) /\ q \in Int /\ x = C * q + (x % C)
    BY <1>2, DivisionRule
  <1>4. C * p \in Int /\ C * q \in Int /\ C * (p + q) = C * p + C * q
    BY <1>1, <1>3
  <1> HIDE DEF p, q
  <1>5. a + b = C * (p + q) + (x % C)
    BY <1>1, <1>3, <1>4
  <1> HIDE DEF x
  <1>6. (a + b) % C = x % C
    <2>1. a + b \in Int /\ p + q \in Int
      BY <1>1, <1>3
    <2>2. QED
      BY <1>3, <1>5, <2>1, RemainderIs
  <1>7. QED
    BY <1>6 DEF x

(* A whole turn does not change a place.                                   *)
LEMMA RemainderOfTurn ==
  ASSUME NEW C \in Nat \ {0}, NEW a \in Int
  PROVE  (a + C) % C = a % C
PROOF
  <1>1. a % C \in 0..(C - 1) /\ a \div C \in Int /\ a = C * (a \div C) + (a % C)
    BY DivisionRule
  <1> DEFINE p == a \div C
             r == a % C
  <1>2. p \in Int /\ r \in 0..(C - 1) /\ a = C * p + r
    BY <1>1
  <1> HIDE DEF p, r
  <1>3. C * p \in Int /\ C * (p + 1) = C * p + C
    BY <1>2
  <1>4. a + C = C * (p + 1) + r
    BY <1>2, <1>3
  <1>5. a + C \in Int /\ p + 1 \in Int
    BY <1>2
  <1>6. (a + C) % C = r
    BY <1>2, <1>4, <1>5, RemainderIs
  <1>7. QED
    BY <1>6 DEF r

(* How far a place of a ring is behind its head.                           *)
LEMMA OffsetInRing ==
  ASSUME NEW C \in Nat \ {0}, NEW a \in Int, NEW j \in 0..(C - 1)
  PROVE  (((a + j) % C) - (a % C) + C) % C = j
PROOF
  <1> DEFINE p == a \div C
             q == (a + j) \div C
             r == a % C
             s == (a + j) % C
  <1>1. r \in 0..(C - 1) /\ p \in Int /\ a = C * p + r
    BY DivisionRule
  <1>2. s \in 0..(C - 1) /\ q \in Int /\ a + j = C * q + s
    <2>1. a + j \in Int
      OBVIOUS
    <2>2. QED
      BY <2>1, DivisionRule
  <1> HIDE DEF p, q, r, s
  <1>3. C * p \in Int /\ C * q \in Int /\ C * (p + 1 - q) = C * p + C - C * q
    BY <1>1, <1>2
  <1>4. s - r + C = C * (p + 1 - q) + j
    BY <1>1, <1>2, <1>3
  <1>5. s - r + C \in Int /\ p + 1 - q \in Int
    BY <1>1, <1>2
  <1>6. (s - r + C) % C = j
    BY <1>4, <1>5, RemainderIs
  <1>7. QED
    BY <1>6 DEF r, s

-----------------------------------------------------------------------------
(* A set of naturals below a bound has a greatest element.                 *)
LEMMA GreatestOf ==
  ASSUME NEW b \in Nat, NEW I, I \subseteq 0..b, I # {}
  PROVE  \E i \in I : \A j \in I : j <= i
PROOF
  <1> DEFINE J == {b - i : i \in I}
  <1>1. J \subseteq Nat /\ J # {}
    <2>1. \A i \in I : i \in 0..b
      OBVIOUS
    <2>2. \A i \in 0..b : b - i \in Nat
      OBVIOUS
    <2>3. QED
      BY <2>1, <2>2
  <1>2. PICK k \in J : \A j \in J : k <= j
    <2>1. IsWellFoundedOn(OpToRel(<, Nat), Nat)
      BY NatLessThanWellFounded
    <2>2. PICK k \in J : \A j \in J : ~(<<j, k>> \in OpToRel(<, Nat))
      BY <1>1, <2>1, WFMin
    <2>3. \A j \in J : ~(j < k)
      BY <1>1, <2>2 DEF OpToRel
    <2>4. k \in Nat /\ \A j \in J : j \in Nat /\ ~(j < k)
      BY <1>1, <2>2, <2>3
    <2>5. \A j \in J : k <= j
      BY <2>4
    <2>6. QED
      BY <2>2, <2>5
  <1>3. PICK i \in I : k = b - i
    BY <1>2
  <1>4. \A j \in I : k <= b - j
    BY <1>2
  <1>5. QED
    BY <1>3, <1>4

(* The sensor hub.  A push writes, moves the head and counts, so what is   *)
(* counted is behind the head and what is behind the head is written.      *)
WrittenUpTo(c) == IF push.ch = {c} /\ push.at = "slice" THEN taken[c] - push.n ELSE taken[c]
HeadUpTo(c) ==
  IF push.ch = {c} /\ push.at \in {"slice", "head"} THEN taken[c] - push.n ELSE taken[c]
CountedUpTo(c) == IF push.ch = {c} THEN taken[c] - push.n ELSE taken[c]

(* Sample k has its place until another comes round to it.                 *)
Place(k) == (k - 1) % Capacity
InPlace(buf, upTo) == \A k \in 1..upTo : upTo - Capacity < k => buf[Place(k)] = k

PushInv ==
  \/ push = NoPush
  \/ \E c \in Channel, n \in BatchSizes :
       push = [ch |-> {c}, n |-> n, at |-> push.at] /\ push.at \in {"slice", "head", "count"} /\ n <= taken[c]

RingInv(c) ==
  /\ taken[c] \in Nat
  /\ ring[c] = [buf |-> ring[c].buf, head |-> HeadUpTo(c) % Capacity, count |-> CountedUpTo(c)]
  /\ ring[c].buf = [i \in 0..(Capacity - 1) |-> ring[c].buf[i]]
  /\ InPlace(ring[c].buf, WrittenUpTo(c))

RingsInv ==
  /\ taken = [c \in Channel |-> taken[c]] /\ ring = [c \in Channel |-> ring[c]]
  /\ PushInv /\ \A c \in Channel : RingInv(c)

(* Every push is somewhere between its samples and its count.              *)
LEMMA PushedUpTo ==
  ASSUME PushInv, NEW c \in Channel, taken[c] \in Nat
  PROVE  /\ WrittenUpTo(c) \in Nat /\ HeadUpTo(c) \in Nat /\ CountedUpTo(c) \in Nat
         /\ CountedUpTo(c) <= HeadUpTo(c) /\ HeadUpTo(c) <= WrittenUpTo(c) /\ WrittenUpTo(c) <= taken[c]
PROOF
  <1> USE HubAssumption
  <1>1. CASE push = NoPush
    BY <1>1 DEF NoPush, WrittenUpTo, HeadUpTo, CountedUpTo
  <1>2. ASSUME NEW d \in Channel, NEW n \in BatchSizes,
               push = [ch |-> {d}, n |-> n, at |-> push.at], n <= taken[d]
        PROVE  /\ WrittenUpTo(c) \in Nat /\ HeadUpTo(c) \in Nat /\ CountedUpTo(c) \in Nat
               /\ CountedUpTo(c) <= HeadUpTo(c) /\ HeadUpTo(c) <= WrittenUpTo(c)
               /\ WrittenUpTo(c) <= taken[c]
    <2>1. push.n = n /\ n \in Nat /\ (push.ch = {c} => d = c /\ taken[c] - n \in Nat)
      <3>1. n \in Nat /\ push.n = n /\ push.ch = {d}
        BY <1>2
      <3>2. d = c => taken[c] - n \in Nat
        BY <1>2, <3>1
      <3>3. QED
        BY <3>1, <3>2
    <2>2. taken[c] - n <= taken[c]
      BY <2>1
    <2>3. QED
      BY <2>1, <2>2 DEF WrittenUpTo, HeadUpTo, CountedUpTo
  <1>3. QED
    BY <1>1, <1>2 DEF PushInv

(* Of n samples behind the first a, and of those before them, the distance *)
(* to the head tells which are which.                                      *)
LEMMA OffsetTellsNew ==
  ASSUME NEW C \in Nat \ {0}, NEW a \in Nat, NEW n \in 1..C, NEW k \in 1..(a + n), a + n - C < k
  PROVE  LET offset == (((k - 1) % C) - (a % C) + C) % C
         IN IF k > a THEN offset = k - 1 - a /\ offset < n ELSE ~(offset < n)
PROOF
  <1> DEFINE offset == (((k - 1) % C) - (a % C) + C) % C
  <1>1. CASE k > a
    <2>1. PICK j \in 0..(C - 1) : j = k - 1 - a /\ k - 1 = a + j /\ j < n
      BY <1>1
    <2>2. (((a + j) % C) - (a % C) + C) % C = j
      <3>1. a \in Int
        OBVIOUS
      <3>2. QED
        BY <3>1, OffsetInRing
    <2> DEFINE m == k - 1
    <2>3. m = a + j
      BY <2>1
    <2>4. (((m % C) - (a % C)) + C) % C = j
      BY <2>2, <2>3
    <2>5. QED
      BY <1>1, <2>1, <2>4
  <1>2. CASE k <= a
    <2>1. PICK j \in 0..(C - 1) : k - 1 + C = a + j /\ ~(j < n)
      <3>1. k - 1 - a + C \in 0..(C - 1) /\ ~(k - 1 - a + C < n)
        BY <1>2
      <3>2. k - 1 + C = a + (k - 1 - a + C)
        OBVIOUS
      <3>3. QED
        BY <3>1, <3>2
    <2>2. (k - 1) % C = (a + j) % C
      <3>1. k - 1 \in Int
        OBVIOUS
      <3>2. (k - 1 + C) % C = (k - 1) % C
        BY <3>1, RemainderOfTurn
      <3>3. QED
        BY <2>1, <3>2
    <2>3. (((a + j) % C) - (a % C) + C) % C = j
      <3>1. a \in Int
        OBVIOUS
      <3>2. QED
        BY <3>1, OffsetInRing
    <2>4. QED
      BY <1>2, <2>1, <2>2, <2>3
  <1>3. QED
    BY <1>1, <1>2

(* A batch goes to the places behind the head and keeps the rest.          *)
LEMMA BatchIsWritten ==
  ASSUME NEW c \in Channel, NEW n \in BatchSizes, NEW a \in Nat, taken[c] = a + n, n <= Capacity,
         NEW r, r = [buf |-> r.buf, head |-> a % Capacity, count |-> r.count],
         r.buf = [i \in 0..(Capacity - 1) |-> r.buf[i]],
         InPlace(r.buf, a)
  PROVE  /\ Written(r, c, n) = [buf |-> Written(r, c, n).buf, head |-> r.head, count |-> r.count]
         /\ Written(r, c, n).buf = [i \in 0..(Capacity - 1) |-> Written(r, c, n).buf[i]]
         /\ InPlace(Written(r, c, n).buf, taken[c])
PROOF
  <1> DEFINE first == taken[c] - n + 1
             offset(i) == (i - r.head + Capacity) % Capacity
             buf == [i \in 0..(Capacity - 1) |-> IF offset(i) < n THEN first + offset(i) ELSE r.buf[i]]
  <1>1. Written(r, c, n) = [r EXCEPT !.buf = buf]
    BY DEF Written
  <1>2. /\ Capacity \in Nat \ {0} /\ n \in 1..Capacity /\ first = a + 1
        /\ r.head = a % Capacity
    <2>1. n \in Nat \ {0} /\ Capacity \in Nat \ {0}
      BY HubAssumption
    <2>2. QED
      BY <2>1
  <1> HIDE DEF buf
  <1>3. Written(r, c, n) = [buf |-> buf, head |-> r.head, count |-> r.count]
    BY <1>1
  <1>4. ASSUME NEW k \in 1..(a + n), a + n - Capacity < k
        PROVE  buf[Place(k)] = k
    <2>1. Place(k) \in 0..(Capacity - 1)
      <3>1. k - 1 \in Int
        OBVIOUS
      <3>2. QED
        BY <1>2, <3>1, DivisionRule DEF Place
    <2>2. IF k > a THEN offset(Place(k)) = k - 1 - a /\ offset(Place(k)) < n ELSE ~(offset(Place(k)) < n)
      BY <1>2, <1>4, OffsetTellsNew DEF Place
    <2>3. buf[Place(k)] = IF offset(Place(k)) < n THEN first + offset(Place(k)) ELSE r.buf[Place(k)]
      BY <2>1 DEF buf
    <2>4. CASE k > a
      <3>1. a + 1 + (k - 1 - a) = k
        OBVIOUS
      <3>2. QED
        BY <1>2, <2>2, <2>3, <2>4, <3>1
    <2>5. CASE k <= a
      <3>1. k \in 1..a /\ a - Capacity < k
        BY <1>2, <1>4, <2>5
      <3>2. r.buf[Place(k)] = k
        BY <3>1 DEF InPlace
      <3>3. QED
        BY <2>2, <2>3, <2>5, <3>2
    <2>6. QED
      BY <2>4, <2>5
  <1>5. InPlace(buf, taken[c])
    <2> DEFINE top == a + n
    <2>1. \A k \in 1..top : top - Capacity < k => buf[Place(k)] = k
      BY <1>2, <1>4
    <2> HIDE DEF top
    <2>3. InPlace(buf, top)
      BY <2>1 DEF InPlace
    <2>2. QED
      BY <2>3 DEF top
  <1>6. buf = [i \in 0..(Capacity - 1) |-> buf[i]]
    BY DEF buf
  <1>7. QED
    BY <1>3, <1>5, <1>6

(* What is behind the head and not far behind what is written can be read. *)
ReadOf(c) ==
  /\ read.newest \in Nat
  /\ read = [ch |-> {c}, len |-> Window[c], idx |-> Place(read.newest), newest |-> read.newest,
             at |-> read.at]
  /\ Window[c] <= read.newest /\ read.newest <= HeadUpTo(c)
  /\ taken[c] + Window[c] <= Capacity + read.newest
  /\ Window[c] <= Count(c)

(* What was sent and what waits is no newer.                               *)
Behind(c, upTo) ==
  /\ station[c] <= upTo
  /\ \A i \in DOMAIN batch : batch[i].ch = c => batch[i].at <= upTo

ReadsInv == read = NoRead \/ \E c \in Channel : ReadOf(c) /\ Behind(c, read.newest)

BatchInv ==
  /\ batch \in Seq([ch : Channel, at : Nat]) /\ station \in [Channel -> Nat]
  /\ \A c \in Channel : Behind(c, HeadUpTo(c))

HubInv == RingsInv /\ ReadsInv /\ BatchInv /\ WindowsAreRuns

(* A step of a push leaves all counters where they are or moves them on.   *)
LEMMA TakenByPush ==
  ASSUME NEW c \in Channel, RingsInv, Ingest(c)
  PROVE  /\ RingsInv'
         /\ \A d \in Channel : HeadUpTo(d)' = HeadUpTo(d) /\ Count(d)' = Count(d)
PROOF
  <1> USE HubAssumption
  <1>1. PICK n \in BatchSizes : /\ taken' = [taken EXCEPT ![c] = @ + n]
                                /\ push' = [ch |-> {c}, n |-> n, at |-> "slice"]
    BY DEF Ingest
  <1>2. n \in Nat \ {0} /\ push = NoPush /\ ring' = ring
    BY DEF Ingest
  <1>3. ASSUME NEW d \in Channel
        PROVE  /\ taken'[d] \in Nat /\ taken'[d] = IF d = c THEN taken[d] + n ELSE taken[d]
               /\ HeadUpTo(d)' = HeadUpTo(d) /\ WrittenUpTo(d)' = WrittenUpTo(d)
               /\ CountedUpTo(d)' = CountedUpTo(d) /\ Count(d)' = Count(d)
    <2>1. taken[d] \in Nat /\ taken'[d] = IF d = c THEN taken[d] + n ELSE taken[d]
      BY <1>1 DEF RingsInv, RingInv
    <2>2. HeadUpTo(d) = taken[d] /\ WrittenUpTo(d) = taken[d] /\ CountedUpTo(d) = taken[d]
      BY <1>2 DEF HeadUpTo, WrittenUpTo, CountedUpTo, NoPush
    <2>3. push'.ch = {c} /\ push'.n = n /\ push'.at = "slice" /\ ({c} = {d} <=> c = d)
      BY <1>1
    <2>4. HeadUpTo(d)' = taken[d] /\ WrittenUpTo(d)' = taken[d] /\ CountedUpTo(d)' = taken[d]
      BY <1>2, <2>1, <2>3 DEF HeadUpTo, WrittenUpTo, CountedUpTo
    <2>5. Count(d)' = Count(d)
      BY <1>2 DEF Count
    <2>6. QED
      BY <1>2, <2>1, <2>2, <2>4, <2>5
  <1>4. PushInv'
    <2>1. n <= taken'[c]
      <3>1. taken[c] \in Nat /\ taken'[c] = taken[c] + n
        BY <1>3 DEF RingsInv, RingInv
      <3>2. QED
        BY <1>2, <3>1
    <2>2. QED
      BY <1>1, <2>1 DEF PushInv
  <1>5. taken' = [d \in Channel |-> taken'[d]] /\ ring' = [d \in Channel |-> ring'[d]]
    BY <1>1, <1>2 DEF RingsInv
  <1>6. ASSUME NEW d \in Channel PROVE RingInv(d)'
    <2>1. RingInv(d)
      BY DEF RingsInv
    <2>2. QED
      BY <1>2, <1>3, <2>1 DEF RingInv, InPlace
  <1>7. QED
    BY <1>3, <1>4, <1>5, <1>6 DEF RingsInv

LEMMA MovedByPush ==
  ASSUME NEW c \in Channel, RingsInv, PushStep(c)
  PROVE  /\ RingsInv' /\ taken' = taken
         /\ \A d \in Channel : /\ HeadUpTo(d)' >= HeadUpTo(d) /\ Count(d)' >= Count(d)
                               /\ HeadUpTo(d)' \in Nat /\ Count(d)' \in Int
PROOF
  <1> USE HubAssumption
  <1>1. PICK n \in BatchSizes :
          push = [ch |-> {c}, n |-> n, at |-> push.at] /\ push.at \in {"slice", "head", "count"} /\ n <= taken[c]
    <2>1. push.ch = {c} /\ push # NoPush
      BY DEF PushStep, NoPush
    <2>2. QED
      BY <2>1 DEF RingsInv, PushInv
  <1>2. /\ n \in Nat \ {0} /\ push.ch = {c} /\ push.n = n /\ taken' = taken /\ Capacity \in Nat \ {0}
        /\ n <= Capacity
    <2>1. n + Window[c] <= Capacity /\ Window[c] \in Nat /\ n \in Nat /\ Capacity \in Nat
      OBVIOUS
    <2>2. QED
      BY <1>1, <2>1 DEF PushStep
  <1>3. taken[c] \in Nat /\ RingInv(c)
    BY DEF RingsInv, RingInv
  <1> DEFINE a == taken[c] - n
  <1>4. a \in Nat /\ taken[c] = a + n
    BY <1>1, <1>2, <1>3
  <1>5. ASSUME NEW d \in Channel, d # c
        PROVE  /\ RingInv(d)' /\ HeadUpTo(d)' = HeadUpTo(d) /\ Count(d)' = Count(d)
    <2>1. ring'[d] = ring[d] /\ push'.ch # {d} /\ push.ch # {d}
      BY <1>1, <1>2, <1>5 DEF PushStep, RingsInv, NoPush
    <2>2. /\ HeadUpTo(d)' = HeadUpTo(d) /\ WrittenUpTo(d)' = WrittenUpTo(d)
          /\ CountedUpTo(d)' = CountedUpTo(d)
      BY <1>2, <2>1 DEF HeadUpTo, WrittenUpTo, CountedUpTo
    <2>3. RingInv(d)
      BY DEF RingsInv
    <2>4. QED
      BY <1>2, <2>1, <2>2, <2>3 DEF RingInv, Count, InPlace
  <1>6. /\ RingInv(c)' /\ HeadUpTo(c)' >= HeadUpTo(c) /\ Count(c)' >= Count(c) /\ PushInv'
        /\ HeadUpTo(c)' \in Nat /\ Count(c)' \in Int
        /\ ring' = [d \in Channel |-> ring'[d]]
    <2>1. ring = [d \in Channel |-> ring[d]]
      BY DEF RingsInv
    <2>2. CASE push.at = "slice"
      <3>1. push' = [ch |-> {c}, n |-> n, at |-> "head"]
        BY <1>1, <2>2 DEF PushStep, StepAfter
      <3>2. ring' = [ring EXCEPT ![c] = Written(ring[c], c, n)]
        BY <1>2, <2>2 DEF PushStep
      <3>3. /\ WrittenUpTo(c) = a /\ HeadUpTo(c) = a /\ CountedUpTo(c) = a
            /\ WrittenUpTo(c)' = taken[c] /\ HeadUpTo(c)' = a /\ CountedUpTo(c)' = a
        BY <1>2, <2>2, <3>1 DEF WrittenUpTo, HeadUpTo, CountedUpTo
      <3>4. /\ ring[c] = [buf |-> ring[c].buf, head |-> a % Capacity, count |-> a]
            /\ ring[c].buf = [i \in 0..(Capacity - 1) |-> ring[c].buf[i]] /\ InPlace(ring[c].buf, a)
        BY <1>3, <3>3 DEF RingInv
      <3> DEFINE w == Written(ring[c], c, n)
      <3>5. /\ w = [buf |-> w.buf, head |-> ring[c].head, count |-> ring[c].count]
            /\ w.buf = [i \in 0..(Capacity - 1) |-> w.buf[i]]
            /\ InPlace(w.buf, taken[c])
        <4>1. ring[c] = [buf |-> ring[c].buf, head |-> a % Capacity, count |-> ring[c].count]
          BY <3>4
        <4>2. /\ a \in Nat /\ taken[c] = a + n /\ n <= Capacity
              /\ ring[c].buf = [i \in 0..(Capacity - 1) |-> ring[c].buf[i]] /\ InPlace(ring[c].buf, a)
          BY <1>2, <1>4, <3>4
        <4> HIDE DEF a
        <4> DEFINE r == ring[c]
        <4>3. r = [buf |-> r.buf, head |-> a % Capacity, count |-> r.count]
          BY <4>1
        <4>4. r.buf = [i \in 0..(Capacity - 1) |-> r.buf[i]] /\ InPlace(r.buf, a)
          BY <4>2
        <4> HIDE DEF r
        <4>5. /\ Written(r, c, n) = [buf |-> Written(r, c, n).buf, head |-> r.head, count |-> r.count]
              /\ Written(r, c, n).buf = [i \in 0..(Capacity - 1) |-> Written(r, c, n).buf[i]]
              /\ InPlace(Written(r, c, n).buf, taken[c])
          BY <4>2, <4>3, <4>4, BatchIsWritten
        <4>6. QED
          BY <4>5 DEF r
      <3> HIDE DEF w
      <3>6. ring'[c] = w /\ ring' = [d \in Channel |-> ring'[d]]
        BY <2>1, <3>2 DEF w
      <3>7. RingInv(c)'
        <4>1. ring'[c] = [buf |-> ring'[c].buf, head |-> a % Capacity, count |-> a]
          BY <3>4, <3>5, <3>6
        <4>2. InPlace(ring'[c].buf, taken[c])
          BY <3>5, <3>6
        <4>3. ring'[c].buf = [i \in 0..(Capacity - 1) |-> ring'[c].buf[i]]
          BY <3>5, <3>6
        <4>4. QED
          BY <1>2, <1>3, <3>3, <4>1, <4>2, <4>3 DEF RingInv, InPlace
      <3>8. Count(c)' = Count(c)
        BY <3>4, <3>5, <3>6 DEF Count
      <3>9. Count(c) \in Int
        BY <1>2, <1>4, <3>4 DEF Count
      <3>10. PushInv'
        BY <1>1, <1>2, <3>1 DEF PushInv
      <3>11. QED
        BY <1>4, <3>3, <3>6, <3>7, <3>8, <3>9, <3>10
    <2>3. CASE push.at = "head"
      <3>1. push' = [ch |-> {c}, n |-> n, at |-> "count"]
        <4>1. push' = [push EXCEPT !.at = StepAfter[@]] /\ StepAfter["head"] = "count"
          BY <2>3 DEF PushStep, StepAfter
        <4>2. push = [ch |-> {c}, n |-> n, at |-> "head"]
          BY <1>1, <2>3
        <4>3. push' = [push EXCEPT !.at = "count"]
          BY <4>1, <4>2
        <4>4. QED
          BY <4>2, <4>3
      <3>2. ring' = [ring EXCEPT ![c] = [ring[c] EXCEPT !.head = (@ + n) % Capacity]]
        BY <1>2, <2>3 DEF PushStep, HeadMoved
      <3>3. /\ WrittenUpTo(c) = taken[c] /\ HeadUpTo(c) = a /\ CountedUpTo(c) = a
            /\ WrittenUpTo(c)' = taken[c] /\ HeadUpTo(c)' = taken[c] /\ CountedUpTo(c)' = a
        BY <1>2, <2>3, <3>1 DEF WrittenUpTo, HeadUpTo, CountedUpTo
      <3>4. /\ ring[c] = [buf |-> ring[c].buf, head |-> a % Capacity, count |-> a]
            /\ ring[c].buf = [i \in 0..(Capacity - 1) |-> ring[c].buf[i]] /\ InPlace(ring[c].buf, taken[c])
        BY <1>3, <3>3 DEF RingInv
      <3>5. ((a % Capacity) + n) % Capacity = taken[c] % Capacity
        <4> HIDE DEF a
        <4>1. ((a % Capacity) + n) % Capacity = (a + n) % Capacity
          <5>1. a \in Int /\ n \in Int /\ Capacity \in Nat \ {0}
            BY <1>2, <1>4
          <5>2. QED
            BY <5>1, RemainderOfSum
        <4>2. QED
          BY <1>4, <4>1
      <3>6. /\ ring'[c] = [buf |-> ring[c].buf, head |-> taken[c] % Capacity, count |-> a]
            /\ ring' = [d \in Channel |-> ring'[d]]
        <4>1. ring'[c] = [ring[c] EXCEPT !.head = (@ + n) % Capacity] /\ ring' = [d \in Channel |-> ring'[d]]
          BY <2>1, <3>2
        <4>2. ring[c].head = a % Capacity
          BY <3>4
        <4> HIDE DEF a
        <4>3. [ring[c] EXCEPT !.head = (@ + n) % Capacity] =
                [ring[c] EXCEPT !.head = taken[c] % Capacity]
          BY <3>5, <4>2
        <4> DEFINE h == taken[c] % Capacity
                   g == a % Capacity
        <4> HIDE DEF h, g
        <4>4. [ring[c] EXCEPT !.head = h] = [buf |-> ring[c].buf, head |-> h, count |-> a]
          <5>1. ring[c] = [buf |-> ring[c].buf, head |-> g, count |-> a]
            BY <3>4 DEF g
          <5>2. QED
            BY <5>1
        <4>5. QED
          BY <4>1, <4>3, <4>4 DEF h
      <3>7. RingInv(c)'
        <4>1. /\ ring'[c] = [buf |-> ring'[c].buf, head |-> taken[c] % Capacity, count |-> a]
              /\ ring'[c].buf = ring[c].buf
          BY <3>6
        <4>2. QED
          BY <1>2, <1>3, <3>3, <3>4, <4>1 DEF RingInv, InPlace
      <3>8. Count(c)' = Count(c)
        BY <3>4, <3>6 DEF Count
      <3>9. Count(c) \in Int
        BY <1>2, <1>4, <3>4 DEF Count
      <3>10. PushInv'
        BY <1>1, <1>2, <3>1 DEF PushInv
      <3>11. QED
        BY <1>2, <1>3, <1>4, <3>3, <3>6, <3>7, <3>8, <3>9, <3>10
    <2>4. CASE push.at = "count"
      <3>1. push' = NoPush /\ push'.ch # {c}
        BY <2>4 DEF PushStep, NoPush
      <3>2. ring' = [ring EXCEPT ![c] = [ring[c] EXCEPT !.count = @ + n]]
        BY <1>2, <2>4 DEF PushStep, Counted
      <3>3. /\ WrittenUpTo(c) = taken[c] /\ HeadUpTo(c) = taken[c] /\ CountedUpTo(c) = a
            /\ WrittenUpTo(c)' = taken[c] /\ HeadUpTo(c)' = taken[c] /\ CountedUpTo(c)' = taken[c]
        BY <1>2, <2>4, <3>1 DEF WrittenUpTo, HeadUpTo, CountedUpTo
      <3>4. /\ ring[c] = [buf |-> ring[c].buf, head |-> taken[c] % Capacity, count |-> a]
            /\ ring[c].buf = [i \in 0..(Capacity - 1) |-> ring[c].buf[i]] /\ InPlace(ring[c].buf, taken[c])
        BY <1>3, <3>3 DEF RingInv
      <3>5. /\ ring'[c] = [buf |-> ring[c].buf, head |-> taken[c] % Capacity, count |-> taken[c]]
            /\ ring' = [d \in Channel |-> ring'[d]]
        <4>1. ring'[c] = [ring[c] EXCEPT !.count = @ + n] /\ ring' = [d \in Channel |-> ring'[d]]
          BY <2>1, <3>2
        <4> DEFINE h == taken[c] % Capacity
        <4>2. ring[c] = [buf |-> ring[c].buf, head |-> h, count |-> a]
          BY <3>4
        <4> HIDE DEF h
        <4>3. ring[c].count = a
          BY <4>2
        <4>4. [ring[c] EXCEPT !.count = @ + n] = [ring[c] EXCEPT !.count = taken[c]]
          BY <1>4, <4>3
        <4> HIDE DEF a
        <4>5. [ring[c] EXCEPT !.count = taken[c]] = [buf |-> ring[c].buf, head |-> h, count |-> taken[c]]
          BY <4>2
        <4>6. QED
          BY <4>1, <4>4, <4>5 DEF h
      <3>6. RingInv(c)'
        <4>1. /\ ring'[c] = [buf |-> ring'[c].buf, head |-> taken[c] % Capacity, count |-> taken[c]]
              /\ ring'[c].buf = ring[c].buf
          BY <3>5
        <4>2. QED
          BY <1>2, <1>3, <3>3, <3>4, <4>1 DEF RingInv, InPlace
      <3>7. Count(c)' >= Count(c)
        BY <1>2, <1>4, <3>4, <3>5 DEF Count
      <3>8. Count(c)' \in Int
        BY <1>2, <1>3, <3>5 DEF Count
      <3>9. PushInv'
        BY <3>1 DEF PushInv
      <3>10. QED
        BY <1>3, <3>3, <3>5, <3>6, <3>7, <3>8, <3>9
    <2>5. QED
      BY <1>1, <2>2, <2>3, <2>4
  <1>7. ASSUME NEW d \in Channel PROVE HeadUpTo(d) \in Nat /\ Count(d) \in Int
    <2>1. RingInv(d) /\ PushInv /\ taken[d] \in Nat
      BY DEF RingsInv, RingInv
    <2>2. HeadUpTo(d) \in Nat /\ CountedUpTo(d) \in Nat
      BY <2>1, PushedUpTo
    <2>3. ring[d].count \in Nat
      BY <2>1, <2>2 DEF RingInv
    <2>4. QED
      BY <1>2, <2>2, <2>3 DEF Count
  <1>8. ASSUME NEW d \in Channel
        PROVE  /\ RingInv(d)' /\ HeadUpTo(d)' >= HeadUpTo(d) /\ Count(d)' >= Count(d)
               /\ HeadUpTo(d)' \in Nat /\ Count(d)' \in Int
    BY <1>5, <1>6, <1>7
  <1>9. QED
    BY <1>2, <1>6, <1>8 DEF RingsInv

(* What is read after a count that suffices is the newest behind the head. *)
LEMMA WindowIsRead ==
  ASSUME NEW c \in Channel, NEW stage, RingsInv, BatchInv, Count(c) >= Window[c],
         read' = WindowOf(c, stage), UNCHANGED <<ringVars, batch, station>>
  PROVE  ReadsInv'
PROOF
  <1> USE HubAssumption
  <1> DEFINE h == HeadUpTo(c)
  <1>1. RingInv(c) /\ PushInv /\ taken[c] \in Nat
    BY DEF RingsInv, RingInv
  <1>2. /\ h \in Nat /\ CountedUpTo(c) <= h /\ h <= WrittenUpTo(c) /\ WrittenUpTo(c) <= taken[c]
        /\ CountedUpTo(c) \in Nat /\ WrittenUpTo(c) \in Nat
    BY <1>1, PushedUpTo
  <1>3. /\ Capacity \in Nat \ {0} /\ Window[c] \in Nat \ {0} /\ ring[c].count = CountedUpTo(c)
        /\ ring[c].head = h % Capacity
    BY <1>1 DEF RingInv
  <1>4. Window[c] <= h /\ Window[c] <= Capacity
    BY <1>2, <1>3 DEF Count
  <1>5. taken[c] + Window[c] <= Capacity + h
    <2>1. CASE push.ch = {c} /\ push.at \in {"slice", "head"}
      <3>1. PICK n \in BatchSizes : push.n = n /\ n + Window[c] <= Capacity /\ n \in Nat
        <4>1. push # NoPush
          BY <2>1 DEF NoPush
        <4>2. QED
          BY <1>1, <4>1 DEF PushInv
      <3>2. h = taken[c] - push.n
        BY <2>1 DEF HeadUpTo
      <3>3. QED
        BY <1>1, <1>3, <3>1, <3>2
    <2>2. CASE ~(push.ch = {c} /\ push.at \in {"slice", "head"})
      <3>1. h = taken[c]
        BY <2>2 DEF HeadUpTo
      <3>2. QED
        BY <1>1, <1>3, <1>4, <3>1
    <2>3. QED
      BY <2>1, <2>2
  <1> HIDE DEF h
  <1>6. (ring[c].head + Capacity - 1) % Capacity = Place(h)
    <2>1. h \in Int /\ h - 1 \in Int /\ Capacity - 1 \in Int
      BY <1>2, <1>3
    <2>2. ((h % Capacity) + (Capacity - 1)) % Capacity = (h + (Capacity - 1)) % Capacity
      BY <1>3, <2>1, RemainderOfSum
    <2>3. ((h - 1) + Capacity) % Capacity = (h - 1) % Capacity
      BY <1>3, <2>1, RemainderOfTurn
    <2>4. h + (Capacity - 1) = (h - 1) + Capacity
      BY <1>3, <2>1
    <2> DEFINE g == h % Capacity
    <2>5. g \in Int
      BY <1>3, <2>1, DivisionRule
    <2>6. ring[c].head = g
      BY <1>3
    <2> HIDE DEF g
    <2>7. ring[c].head + Capacity - 1 = g + (Capacity - 1)
      BY <1>3, <2>5, <2>6
    <2>8. QED
      BY <2>2, <2>3, <2>4, <2>7 DEF g, Place
  <1>7. ring[c].buf[Place(h)] = h
    <2>1. h \in 1..WrittenUpTo(c) /\ WrittenUpTo(c) - Capacity < h
      BY <1>1, <1>2, <1>3, <1>4, <1>5
    <2>2. QED
      BY <1>1, <2>1 DEF RingInv, InPlace
  <1>8. read' = [ch |-> {c}, len |-> Window[c], idx |-> Place(h), newest |-> h, at |-> stage]
    <2>1. (IF Window[c] < Count(c) THEN Window[c] ELSE Count(c)) = Window[c]
      <3>1. Count(c) \in Int
        BY <1>2, <1>3 DEF Count
      <3>2. QED
        BY <1>3, <3>1
    <2>2. QED
      BY <1>6, <1>7, <2>1 DEF WindowOf
  <1>9. /\ HeadUpTo(c)' = h /\ Count(c)' = Count(c) /\ taken' = taken
    BY DEF ringVars, HeadUpTo, Count, h
  <1>10. Behind(c, h)
    BY DEF BatchInv, h
  <1>11. ReadOf(c)'
    <2>1. read'.newest = h /\ read'.at = stage
      BY <1>8
    <2>2. read' = [ch |-> {c}, len |-> Window[c], idx |-> Place(read'.newest), newest |-> read'.newest,
                   at |-> read'.at]
      BY <1>8, <2>1
    <2>3. QED
      BY <1>2, <1>4, <1>5, <1>9, <2>1, <2>2 DEF ReadOf, Place
  <1>12. Behind(c, read.newest)'
    <2>1. read'.newest = h
      BY <1>8
    <2>2. QED
      BY <1>10, <2>1 DEF Behind
  <1>13. QED
    BY <1>11, <1>12 DEF ReadsInv

(* The samples of a read are the newest and those before it.               *)
LEMMA SamplesAreARun ==
  ASSUME NEW c \in Channel, RingsInv, ReadOf(c)
  PROVE  /\ Samples(c, read) = [k \in 1..Window[c] |-> read.newest - k + 1]
         /\ Window[c] \in Nat \ {0} /\ Window[c] <= read.newest /\ read.newest \in Nat
PROOF
  <1> USE HubAssumption
  <1> DEFINE top == read.newest
             w == Window[c]
             buf == ring[c].buf
  <1>1. RingInv(c) /\ PushInv /\ taken[c] \in Nat
    BY DEF RingsInv, RingInv
  <1>2. /\ WrittenUpTo(c) \in Nat /\ HeadUpTo(c) \in Nat
        /\ HeadUpTo(c) <= WrittenUpTo(c) /\ WrittenUpTo(c) <= taken[c]
    BY <1>1, PushedUpTo
  <1>3. /\ top \in Nat /\ w \in Nat \ {0} /\ w <= top /\ top <= HeadUpTo(c)
        /\ taken[c] + w <= Capacity + top /\ Capacity \in Nat \ {0}
        /\ read.len = w /\ read.idx = Place(top)
    BY DEF ReadOf
  <1>4. InPlace(buf, WrittenUpTo(c))
    BY <1>1 DEF RingInv
  <1> HIDE DEF top, w, buf
  <1>5. ASSUME NEW k \in 1..w
        PROVE  buf[(read.idx + Capacity - (k - 1)) % Capacity] = top - k + 1
    <2>1. /\ top \in Int /\ top - 1 \in Int /\ Capacity - (k - 1) \in Int /\ top - k \in Int
          /\ Capacity \in Nat \ {0}
      BY <1>3
    <2>2. (((top - 1) % Capacity) + (Capacity - (k - 1))) % Capacity
            = ((top - 1) + (Capacity - (k - 1))) % Capacity
      BY <2>1, RemainderOfSum
    <2>3. ((top - k) + Capacity) % Capacity = (top - k) % Capacity
      BY <2>1, RemainderOfTurn
    <2>4. (top - 1) + (Capacity - (k - 1)) = (top - k) + Capacity
      BY <2>1
    <2> DEFINE g == (top - 1) % Capacity
    <2>5. g \in Int
      BY <2>1, DivisionRule
    <2>6. read.idx = g
      BY <1>3 DEF Place
    <2> HIDE DEF g
    <2>7. read.idx + Capacity - (k - 1) = g + (Capacity - (k - 1))
      BY <2>1, <2>5, <2>6
    <2> DEFINE m == top - k + 1
    <2>8. m - 1 = top - k
      BY <2>1
    <2>9. (read.idx + Capacity - (k - 1)) % Capacity = Place(m)
      BY <2>2, <2>3, <2>4, <2>7, <2>8 DEF g, Place
    <2>10. m \in 1..WrittenUpTo(c) /\ WrittenUpTo(c) - Capacity < m
      BY <1>1, <1>2, <1>3
    <2> HIDE DEF m
    <2>11. buf[Place(m)] = m
      BY <1>4, <2>10 DEF InPlace
    <2>12. QED
      BY <2>9, <2>11 DEF m
  <1>6. Samples(c, read) = [k \in 1..w |-> top - k + 1]
    BY <1>3, <1>5 DEF Samples, buf
  <1>7. QED
    BY <1>3, <1>6 DEF top, w

(* Such samples are a run, and the first of them is the newest.            *)
LEMMA RunOfSamples ==
  ASSUME NEW n \in Nat \ {0}, NEW top \in Nat, n <= top, NEW w, w = [k \in 1..n |-> top - k + 1]
  PROVE  /\ \A k \in 1..Len(w) - 1 : w[k + 1] = w[k] - 1
         /\ w[Len(w)] >= 1 /\ w[1] = top
PROOF
  <1>1. Len(w) = n /\ \A k \in 1..n : w[k] = top - k + 1
    OBVIOUS
  <1>2. n \in 1..n /\ 1 \in 1..n /\ \A k \in 1..n - 1 : k \in 1..n /\ k + 1 \in 1..n
    OBVIOUS
  <1>3. w[n] = top - n + 1 /\ w[1] = top
    BY <1>1, <1>2
  <1>4. \A k \in 1..n - 1 : w[k + 1] = top - (k + 1) + 1 /\ w[k] = top - k + 1
    BY <1>1, <1>2
  <1>5. QED
    BY <1>1, <1>3, <1>4

(* The newest features of a channel are those of one of its entries.       *)
LEMMA NewestIsAnEntry ==
  ASSUME NEW c \in Channel, NEW default, BatchInv
  PROVE  \/ NewestOf(c, default) = default
         \/ \E i \in DOMAIN batch : batch[i].ch = c /\ NewestOf(c, default) = batch[i].at
PROOF
  <1> DEFINE mine == {i \in DOMAIN batch : batch[i].ch = c}
             last == CHOOSE i \in mine : \A j \in mine : j <= i
  <1>1. CASE mine = {}
    BY <1>1 DEF NewestOf
  <1>2. CASE mine # {}
    <2>1. Len(batch) \in Nat /\ mine \subseteq 0..Len(batch)
      BY DEF BatchInv
    <2> HIDE DEF mine
    <2>2. \E i \in mine : \A j \in mine : j <= i
      BY <1>2, <2>1, GreatestOf
    <2>3. last \in mine
      BY <2>2
    <2>4. NewestOf(c, default) = batch[last].at
      BY <1>2 DEF NewestOf, mine
    <2>5. last \in DOMAIN batch /\ batch[last].ch = c
      <3> HIDE DEF last
      <3>1. QED
        BY <2>3 DEF mine
    <2>6. QED
      BY <2>4, <2>5
  <1>3. QED
    BY <1>1, <1>2

(* While nothing is sent or extracted, what is behind stays behind.        *)
LEMMA BatchesWait ==
  ASSUME BatchInv, UNCHANGED <<batch, station>>,
         \A c \in Channel : HeadUpTo(c)' >= HeadUpTo(c) /\ HeadUpTo(c) \in Nat /\ HeadUpTo(c)' \in Nat
  PROVE  BatchInv'
PROOF
  <1>1. ASSUME NEW c \in Channel PROVE Behind(c, HeadUpTo(c))'
    <2>1. Behind(c, HeadUpTo(c)) /\ station[c] \in Nat
      BY DEF BatchInv
    <2>2. HeadUpTo(c)' >= HeadUpTo(c) /\ HeadUpTo(c) \in Nat /\ HeadUpTo(c)' \in Nat
      OBVIOUS
    <2>3. \A i \in DOMAIN batch : batch[i].at \in Nat
      <3>1. DOMAIN batch = 1..Len(batch)
        BY DEF BatchInv
      <3>2. \A i \in 1..Len(batch) : batch[i] \in [ch : Channel, at : Nat]
        BY ElementOfSeq DEF BatchInv
      <3>3. QED
        BY <3>1, <3>2
    <2>4. batch' = batch /\ station' = station
      OBVIOUS
    <2> DEFINE h == HeadUpTo(c)
    <2> HIDE DEF h
    <2>5. ASSUME NEW u \in Nat, h \in Nat, u >= h, Behind(c, h) PROVE Behind(c, u)
      BY <2>1, <2>3, <2>5 DEF Behind
    <2>6. Behind(c, HeadUpTo(c)')
      BY <2>1, <2>2, <2>5 DEF h
    <2>7. QED
      BY <2>4, <2>6 DEF Behind
  <1>2. QED
    BY <1>1 DEF BatchInv

LEMMA ReadsWait ==
  ASSUME ReadsInv, UNCHANGED <<read, batch, station>>,
         \A c \in Channel : /\ ReadOf(c) => taken'[c] + Window[c] <= Capacity + read.newest
                            /\ HeadUpTo(c)' >= HeadUpTo(c) /\ Count(c)' >= Count(c)
                            /\ {HeadUpTo(c), HeadUpTo(c)', Count(c), Count(c)'} \subseteq Int
  PROVE  ReadsInv'
PROOF
  <1>1. CASE read = NoRead
    BY <1>1 DEF ReadsInv
  <1>2. CASE read # NoRead
    <2>1. PICK c \in Channel : ReadOf(c) /\ Behind(c, read.newest)
      BY <1>2 DEF ReadsInv
    <2>2. Behind(c, read.newest)'
      BY <2>1 DEF Behind
    <2>3. Window[c] \in Nat
      BY HubAssumption
    <2>4. ReadOf(c)'
      BY <2>1, <2>3 DEF ReadOf, Place
    <2>5. QED
      BY <2>2, <2>4 DEF ReadsInv
  <1>3. QED
    BY <1>1, <1>2

(* The buffers are not moved by the loop.                                  *)
LEMMA RingsWait ==
  ASSUME RingsInv, UNCHANGED ringVars
  PROVE  /\ RingsInv'
         /\ \A c \in Channel : /\ HeadUpTo(c)' = HeadUpTo(c) /\ Count(c)' = Count(c)
                               /\ HeadUpTo(c) \in Nat /\ Count(c) \in Int
PROOF
  <1> USE DEF ringVars
  <1>1. PushInv' /\ \A c \in Channel : RingInv(c)'
    BY DEF RingsInv, PushInv, RingInv, WrittenUpTo, HeadUpTo, CountedUpTo, InPlace
  <1>2. RingsInv'
    BY <1>1 DEF RingsInv
  <1>3. ASSUME NEW c \in Channel
        PROVE  /\ HeadUpTo(c)' = HeadUpTo(c) /\ Count(c)' = Count(c)
               /\ HeadUpTo(c) \in Nat /\ Count(c) \in Int
    <2>1. RingInv(c) /\ PushInv /\ taken[c] \in Nat
      BY DEF RingsInv, RingInv
    <2>2. HeadUpTo(c) \in Nat /\ CountedUpTo(c) \in Nat
      BY <2>1, PushedUpTo
    <2>3. ring[c].count \in Nat /\ Capacity \in Nat
      BY <2>1, <2>2, HubAssumption DEF RingInv
    <2>4. Count(c) \in Int
      BY <2>3 DEF Count
    <2>5. HeadUpTo(c)' = HeadUpTo(c) /\ Count(c)' = Count(c)
      BY DEF HeadUpTo, Count
    <2>6. QED
      BY <2>2, <2>4, <2>5
  <1>4. QED
    BY <1>2, <1>3

(* Two features of a channel, the older first, both after what was sent.   *)
LEMMA RunsWait ==
  ASSUME WindowsAreRuns, UNCHANGED <<seen, batch, station>>
  PROVE  WindowsAreRuns'
BY DEF WindowsAreRuns

(* Every window the hub reads is a run of samples, the newest first, and   *)
(* features go upstream in their order, though nothing takes the lock:     *)
(* WindowsAreRuns, for every number of channels, every size of buffer,     *)
(* window and request.                                                     *)
THEOREM WindowsStayRuns == HubSpec => []WindowsAreRuns
PROOF
  <1>1. HubInit => HubInv
    <2> SUFFICES ASSUME HubInit PROVE HubInv
      OBVIOUS
    <2> USE HubAssumption
    <2>1. push = NoPush /\ read = NoRead /\ batch = <<>> /\ seen = <<>>
      BY DEF HubInit
    <2>2. ASSUME NEW c \in Channel PROVE RingInv(c)
      <3>1. taken[c] = 0 /\ ring[c] = Empty
        BY DEF HubInit
      <3>2. WrittenUpTo(c) = 0 /\ HeadUpTo(c) = 0 /\ CountedUpTo(c) = 0
        BY <2>1, <3>1 DEF WrittenUpTo, HeadUpTo, CountedUpTo, NoPush
      <3>3. 0 % Capacity = 0
        <4>1. 0 = Capacity * 0 + 0 /\ 0 \in 0..(Capacity - 1) /\ Capacity \in Nat \ {0}
          OBVIOUS
        <4>2. QED
          BY <4>1, RemainderIs
      <3>4. QED
        BY <3>1, <3>2, <3>3 DEF RingInv, Empty, InPlace
    <2>3. PushInv /\ ReadsInv
      BY <2>1 DEF PushInv, ReadsInv
    <2>4. taken = [c \in Channel |-> taken[c]] /\ ring = [c \in Channel |-> ring[c]]
      BY DEF HubInit
    <2>5. station = [c \in Channel |-> 0]
      BY DEF HubInit
    <2>6. BatchInv
      <3>1. \A c \in Channel : HeadUpTo(c) = 0
        BY <2>1 DEF HubInit, HeadUpTo, NoPush
      <3>2. QED
        BY <2>1, <2>5, <3>1 DEF BatchInv, Behind
    <2>7. WindowsAreRuns
      BY <2>1 DEF WindowsAreRuns
    <2>8. QED
      BY <2>2, <2>3, <2>4, <2>6, <2>7 DEF HubInv, RingsInv
  <1>2. HubInv /\ [HubNext]_hubVars => HubInv'
    <2> SUFFICES ASSUME HubInv, [HubNext]_hubVars PROVE HubInv'
      OBVIOUS
    <2> USE HubAssumption DEF HubInv
    <2>1. ASSUME UNCHANGED ringVars, UNCHANGED <<read, batch, station>> PROVE RingsInv' /\ ReadsInv' /\ BatchInv'
      <3>1. RingsInv' /\ \A c \in Channel : /\ HeadUpTo(c)' = HeadUpTo(c) /\ Count(c)' = Count(c)
                                            /\ HeadUpTo(c) \in Nat /\ Count(c) \in Int
        BY <2>1, RingsWait
      <3>2. \A c \in Channel : ReadOf(c) => taken'[c] + Window[c] <= Capacity + read.newest
        BY <2>1 DEF ringVars, ReadOf
      <3>3. QED
        BY <2>1, <3>1, <3>2, ReadsWait, BatchesWait
    <2>2. CASE UNCHANGED hubVars
      <3>1. UNCHANGED ringVars /\ UNCHANGED <<read, seen, batch, station>>
        BY <2>2 DEF hubVars, loopVars
      <3>2. QED
        BY <2>1, <3>1, RunsWait
    <2>3. ASSUME NEW c \in Channel, Ingest(c) PROVE HubInv'
      <3>1. /\ RingsInv' /\ \A d \in Channel : HeadUpTo(d)' = HeadUpTo(d) /\ Count(d)' = Count(d)
        BY <2>3, TakenByPush
      <3>2. UNCHANGED <<read, seen, batch, station>>
        BY <2>3 DEF Ingest, loopVars
      <3>3. ASSUME NEW d \in Channel PROVE HeadUpTo(d) \in Nat /\ Count(d) \in Int
        <4>1. RingInv(d) /\ PushInv /\ taken[d] \in Nat
          BY DEF RingsInv, RingInv
        <4>2. HeadUpTo(d) \in Nat /\ CountedUpTo(d) \in Nat
          BY <4>1, PushedUpTo
        <4>3. ring[d].count \in Nat
          BY <4>1, <4>2 DEF RingInv
        <4>4. QED
          BY <4>2, <4>3 DEF Count
      <3>4. ASSUME NEW d \in Channel, ReadOf(d)
            PROVE  taken'[d] + Window[d] <= Capacity + read.newest
        <4>1. PICK n \in BatchSizes : /\ read.ch = {c} => taken[c] + n - (read.newest - read.len) <= Capacity
                                      /\ taken' = [taken EXCEPT ![c] = @ + n]
          BY <2>3 DEF Ingest
        <4>2. /\ read.ch = {d} /\ read.len = Window[d] /\ read.newest \in Nat /\ Window[d] \in Nat
              /\ taken[d] + Window[d] <= Capacity + read.newest
          BY <3>4 DEF ReadOf
        <4>3. taken[d] \in Nat /\ taken'[d] = IF d = c THEN taken[d] + n ELSE taken[d]
          BY <4>1 DEF RingsInv, RingInv
        <4>4. CASE d = c
          <5>1. taken[d] + n - (read.newest - Window[d]) <= Capacity /\ taken'[d] = taken[d] + n
            BY <4>1, <4>2, <4>3, <4>4
          <5>2. n \in Nat /\ Capacity \in Nat
            OBVIOUS
          <5>3. QED
            BY <4>2, <4>3, <5>1, <5>2
        <4>5. CASE d # c
          BY <4>2, <4>3, <4>5
        <4>6. QED
          BY <4>4, <4>5
      <3>5. ReadsInv' /\ BatchInv'
        BY <3>1, <3>2, <3>3, <3>4, ReadsWait, BatchesWait
      <3>6. QED
        BY <3>1, <3>2, <3>5, RunsWait
    <2>4. ASSUME NEW c \in Channel, PushStep(c) PROVE HubInv'
      <3>1. /\ RingsInv' /\ taken' = taken
            /\ \A d \in Channel : /\ HeadUpTo(d)' >= HeadUpTo(d) /\ Count(d)' >= Count(d)
                                  /\ HeadUpTo(d)' \in Nat /\ Count(d)' \in Int
        BY <2>4, MovedByPush
      <3>2. UNCHANGED <<read, seen, batch, station>>
        BY <2>4 DEF PushStep, loopVars
      <3>3. ASSUME NEW d \in Channel PROVE HeadUpTo(d) \in Nat /\ Count(d) \in Int
        <4>1. RingInv(d) /\ PushInv /\ taken[d] \in Nat
          BY DEF RingsInv, RingInv
        <4>2. HeadUpTo(d) \in Nat /\ CountedUpTo(d) \in Nat
          BY <4>1, PushedUpTo
        <4>3. ring[d].count \in Nat
          BY <4>1, <4>2 DEF RingInv
        <4>4. QED
          BY <4>2, <4>3 DEF Count
      <3>4. \A d \in Channel : ReadOf(d) => taken'[d] + Window[d] <= Capacity + read.newest
        BY <3>1 DEF ReadOf
      <3>5. ReadsInv' /\ BatchInv'
        BY <3>1, <3>2, <3>3, <3>4, ReadsWait, BatchesWait
      <3>6. QED
        BY <3>1, <3>2, <3>5, RunsWait
    <2>5. ASSUME NEW c \in Channel, SkipChannel(c) PROVE HubInv'
      <3>1. UNCHANGED ringVars /\ UNCHANGED <<read, seen, batch, station>>
        BY <2>5 DEF SkipChannel
      <3>2. QED
        BY <2>1, <3>1, RunsWait
    <2>6. ASSUME NEW c \in Channel, TakeChannel(c) PROVE HubInv'
      <3>1. /\ UNCHANGED ringVars /\ UNCHANGED <<seen, batch, station>>
            /\ read' = WindowOf(c, "check") /\ Count(c) >= Window[c]
        BY <2>6 DEF TakeChannel
      <3>2. RingsInv' /\ \A d \in Channel : /\ HeadUpTo(d)' = HeadUpTo(d) /\ Count(d)' = Count(d)
                                            /\ HeadUpTo(d) \in Nat /\ Count(d) \in Int
        BY <3>1, RingsWait
      <3>3. ReadsInv'
        BY <3>1, WindowIsRead
      <3>4. BatchInv'
        BY <3>1, <3>2, BatchesWait
      <3>5. QED
        BY <3>1, <3>2, <3>3, <3>4, RunsWait
    <2>7. ASSUME NEW c \in Channel, Detect(c) \/ Extract(c) PROVE HubInv'
      <3>1. UNCHANGED ringVars /\ station' = station /\ read.ch = {c} /\ seen' = Samples(c, read)
        BY <2>7 DEF Detect, Extract
      <3>2. RingsInv' /\ \A d \in Channel : /\ HeadUpTo(d)' = HeadUpTo(d) /\ Count(d)' = Count(d)
                                            /\ HeadUpTo(d) \in Nat /\ Count(d) \in Int
        BY <3>1, RingsWait
      <3>3. ReadOf(c) /\ Behind(c, read.newest)
        <4>1. read # NoRead
          BY <3>1 DEF NoRead
        <4>2. PICK d \in Channel : ReadOf(d) /\ Behind(d, read.newest)
          BY <4>1 DEF ReadsInv
        <4>3. d = c
          BY <3>1, <4>2 DEF ReadOf
        <4>4. QED
          BY <4>2, <4>3
      <3>4. /\ Samples(c, read) = [k \in 1..Window[c] |-> read.newest - k + 1]
            /\ Window[c] \in Nat \ {0} /\ Window[c] <= read.newest /\ read.newest \in Nat
        BY <3>3, SamplesAreARun
      <3>5. /\ \A k \in 1..Len(seen') - 1 : seen'[k + 1] = seen'[k] - 1
            /\ seen'[Len(seen')] >= 1 /\ Samples(c, read)[1] = read.newest
        BY <3>1, <3>4, RunOfSamples
      <3>6. CASE Detect(c)
        <4>1. read' = WindowOf(c, "extract") /\ batch' = batch
          BY <3>6 DEF Detect
        <4>2. Count(c) >= Window[c]
          BY <3>2, <3>3, <3>4 DEF ReadOf
        <4>3. ReadsInv'
          BY <3>1, <4>1, <4>2, WindowIsRead
        <4>4. BatchInv'
          BY <3>1, <3>2, <4>1, BatchesWait
        <4>5. WindowsAreRuns'
          BY <3>1, <3>5, <4>1 DEF WindowsAreRuns
        <4>6. QED
          BY <3>2, <4>3, <4>4, <4>5
      <3>7. CASE Extract(c)
        <4> DEFINE entry == [ch |-> c, at |-> read.newest]
        <4>1. read' = NoRead /\ batch' = Append(batch, entry)
          BY <3>5, <3>7 DEF Extract
        <4>2. batch \in Seq([ch : Channel, at : Nat]) /\ entry \in [ch : Channel, at : Nat]
          BY <3>4 DEF BatchInv
        <4>3. /\ batch' \in Seq([ch : Channel, at : Nat]) /\ DOMAIN batch' = 1..Len(batch) + 1
              /\ DOMAIN batch = 1..Len(batch) /\ Len(batch) \in Nat
              /\ \A i \in 1..Len(batch) : batch'[i] = batch[i]
              /\ batch'[Len(batch) + 1] = entry
          BY <4>1, <4>2
        <4>4. \A i \in DOMAIN batch' : \/ i \in DOMAIN batch /\ batch'[i] = batch[i]
                                       \/ i = Len(batch) + 1 /\ batch'[i] = entry
          <5>1. \A i \in 1..Len(batch) + 1 : i \in 1..Len(batch) \/ i = Len(batch) + 1
            BY <4>3
          <5> HIDE DEF entry
          <5>2. QED
            BY <4>3, <5>1
        <4>5. ReadsInv'
          BY <4>1 DEF ReadsInv
        <4>6. BatchInv'
          <5>1. ASSUME NEW d \in Channel PROVE Behind(d, HeadUpTo(d))'
            <6>1. Behind(d, HeadUpTo(d)) /\ HeadUpTo(d)' = HeadUpTo(d)
              BY <3>2 DEF BatchInv
            <6>2. d = c => read.newest <= HeadUpTo(d)
              BY <3>3 DEF ReadOf
            <6>3. \A i \in DOMAIN batch' : batch'[i].ch = d => batch'[i].at <= HeadUpTo(d)
              BY <4>4, <6>1, <6>2 DEF Behind
            <6>4. QED
              BY <3>1, <6>1, <6>3 DEF Behind
          <5>2. QED
            BY <3>1, <4>3, <5>1 DEF BatchInv
        <4>7. WindowsAreRuns'
          <5>1. ASSUME NEW i \in DOMAIN batch', NEW j \in DOMAIN batch',
                       batch'[i].ch = batch'[j].ch, i <= j
                PROVE  station[batch'[i].ch] <= batch'[i].at /\ batch'[i].at <= batch'[j].at
            <6>1. CASE j \in DOMAIN batch /\ batch'[j] = batch[j]
              <7>1. i \in DOMAIN batch /\ batch'[i] = batch[i]
                BY <4>3, <5>1, <6>1
              <7>2. QED
                BY <5>1, <6>1, <7>1 DEF WindowsAreRuns
            <6>2. CASE j = Len(batch) + 1 /\ batch'[j] = entry
              <7>1. batch'[i].ch = c /\ batch'[j].at = read.newest
                BY <5>1, <6>2
              <7>2. CASE i \in DOMAIN batch /\ batch'[i] = batch[i]
                <8>1. batch[i].at <= read.newest
                  BY <3>3, <7>1, <7>2 DEF Behind
                <8>2. station[batch[i].ch] <= batch[i].at
                  <9>1. i <= i
                    BY <4>3, <7>2
                  <9>2. QED
                    BY <7>2, <9>1 DEF WindowsAreRuns
                <8>3. QED
                  BY <7>1, <7>2, <8>1, <8>2
              <7>3. CASE i = Len(batch) + 1 /\ batch'[i] = entry
                <8>1. station[c] <= read.newest /\ batch'[i].at = read.newest
                  BY <3>3, <7>3 DEF Behind
                <8>2. QED
                  BY <3>4, <7>1, <8>1
              <7>4. QED
                BY <4>4, <7>2, <7>3
            <6>3. QED
              BY <4>4, <6>1, <6>2
          <5>2. QED
            BY <3>1, <3>5, <5>1 DEF WindowsAreRuns
        <4>8. QED
          BY <3>2, <4>5, <4>6, <4>7
      <3>8. QED
        BY <2>7, <3>6, <3>7
    <2>8. ASSUME StartCycle \/ SendAlert \/ Stop PROVE HubInv'
      <3>1. UNCHANGED ringVars /\ UNCHANGED <<read, seen, batch, station>>
        BY <2>8 DEF StartCycle, SendAlert, Stop, loopVars
      <3>2. QED
        BY <2>1, <3>1, RunsWait
    <2>9. CASE EndCycle
      <3>1. UNCHANGED ringVars /\ UNCHANGED <<read, batch, station>> /\ seen' = <<>>
        BY <2>9 DEF EndCycle
      <3>2. WindowsAreRuns'
        BY <3>1 DEF WindowsAreRuns
      <3>3. QED
        BY <2>1, <3>1, <3>2
    <2>10. CASE SendBatch
      <3>1. UNCHANGED ringVars /\ read' = read /\ seen' = seen /\ batch' = <<>>
        BY <2>10 DEF SendBatch
      <3>2. RingsInv' /\ \A d \in Channel : /\ HeadUpTo(d)' = HeadUpTo(d) /\ Count(d)' = Count(d)
                                            /\ HeadUpTo(d) \in Nat /\ Count(d) \in Int
        BY <3>1, RingsWait
      <3>3. station' = station \/ station' = [c \in Channel |-> NewestOf(c, station[c])]
        BY <2>10 DEF SendBatch
      <3>4. ASSUME NEW c \in Channel, NEW upTo, Behind(c, upTo)
            PROVE  station'[c] <= upTo
        <4>1. CASE station' = station
          BY <3>4, <4>1 DEF Behind
        <4>2. CASE station' = [d \in Channel |-> NewestOf(d, station[d])]
          <5>1. station'[c] = NewestOf(c, station[c])
            BY <4>2
          <5>2. QED
            BY <3>4, <5>1, NewestIsAnEntry DEF Behind
        <4>3. QED
          BY <3>3, <4>1, <4>2
      <3>5. station' \in [Channel -> Nat]
        <4>1. station \in [Channel -> Nat] /\ \A i \in DOMAIN batch : batch[i].at \in Nat
          <5>1. \A i \in 1..Len(batch) : batch[i] \in [ch : Channel, at : Nat]
            BY ElementOfSeq DEF BatchInv
          <5>2. DOMAIN batch = 1..Len(batch)
            BY DEF BatchInv
          <5>3. QED
            BY <5>1, <5>2 DEF BatchInv
        <4>2. ASSUME NEW c \in Channel PROVE NewestOf(c, station[c]) \in Nat
          BY <4>1, NewestIsAnEntry
        <4>3. QED
          BY <3>3, <4>1, <4>2
      <3>6. ASSUME NEW c \in Channel, NEW upTo, Behind(c, upTo)
            PROVE  station'[c] <= upTo /\ \A i \in DOMAIN batch' : batch'[i].ch = c => batch'[i].at <= upTo
        BY <3>1, <3>4, <3>6
      <3>7. BatchInv'
        <4>1. ASSUME NEW c \in Channel PROVE Behind(c, HeadUpTo(c))'
          <5>1. Behind(c, HeadUpTo(c)) /\ HeadUpTo(c)' = HeadUpTo(c)
            BY <3>2 DEF BatchInv
          <5>2. QED
            BY <3>6, <5>1 DEF Behind
        <4>2. QED
          BY <3>1, <3>5, <4>1 DEF BatchInv
      <3>8. ReadsInv'
        <4>1. CASE read = NoRead
          BY <3>1, <4>1 DEF ReadsInv
        <4>2. ASSUME NEW c \in Channel, ReadOf(c), Behind(c, read.newest) PROVE ReadsInv'
          <5>1. ReadOf(c)'
            <6>1. taken' = taken /\ read' = read /\ HeadUpTo(c)' = HeadUpTo(c) /\ Count(c)' = Count(c)
              BY <3>1, <3>2 DEF ringVars
            <6>2. QED
              BY <4>2, <6>1 DEF ReadOf, Place
          <5>2. Behind(c, read.newest)'
            BY <3>1, <3>6, <4>2 DEF Behind
          <5>3. QED
            BY <5>1, <5>2 DEF ReadsInv
        <4>3. QED
          BY <4>1, <4>2 DEF ReadsInv
      <3>9. WindowsAreRuns'
        BY <3>1 DEF WindowsAreRuns
      <3>10. QED
        BY <3>2, <3>7, <3>8, <3>9
    <2>11. QED
      BY <2>2, <2>3, <2>4, <2>5, <2>6, <2>7, <2>8, <2>9, <2>10 DEF HubNext
  <1>3. HubInv => WindowsAreRuns
    BY DEF HubInv
  <1>4. QED
    BY <1>1, <1>2, <1>3, PTL DEF HubSpec

=============================================================================
