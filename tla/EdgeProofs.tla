----------------------------- MODULE EdgeProofs -----------------------------
(***************************************************************************)
(* Proofs about EdgeNode and its CircularBuffer, for any set of events,    *)
(* finite or not, any timestamps and any values of the limits.             *)
(***************************************************************************)
EXTENDS EdgeNode, FiniteSetTheorems, SequenceTheorems, TLAPS

(* The table is a finite set of written events within the limit.           *)
BufferInv ==
  /\ rows \subseteq written
  /\ written \subseteq Event
  /\ IsFiniteSet(rows)
  /\ Cardinality(rows) <= MaxRows

(* The batch holds written events, each once; the drain stands at its head.*)
BatchInv ==
  /\ batch \in Seq(Event)
  /\ \A i \in 1..Len(batch) : batch[i] \in written
  /\ \A i, j \in 1..Len(batch) : batch[i] = batch[j] => i = j
  /\ thread \in {"posting", "acking"} => batch # <<>>

(* An event still to be handled was delivered by faults only, one that was *)
(* never written not at all.                                               *)
Pending == rows \cup {batch[i] : i \in 1..Len(batch)}

BeingAcked(e) == thread = "acking" /\ e = Head(batch)

DeliveryInv ==
  /\ copies \in [Event -> Nat]
  /\ faults \in Nat
  /\ thread = "acking" => copies[Head(batch)] > 0
  /\ \A e \in Event \ written : copies[e] = 0
  /\ \A e \in Event : copies[e] <= 1 + faults
  /\ \A e \in Pending : copies[e] <= faults \/ BeingAcked(e)

StoreInv == BufferInv /\ BatchInv /\ DeliveryInv /\ NoEventLost

(* The machine remembers no failure that is not part of the streak.        *)
StreakInv ==
  /\ streak \in 0..FailureThreshold
  /\ failures \subseteq 0..Window
  /\ IsFiniteSet(failures)
  /\ Cardinality(failures) <= streak \/ streak = FailureThreshold
  /\ state \in State
  /\ AutonomousAfterThree

-----------------------------------------------------------------------------
(* The head of a sequence without repetitions does not occur in its tail.  *)
LEMMA TailOfBatch ==
  ASSUME BatchInv, batch # <<>>
  PROVE  /\ Head(batch) \in written \cap Event
         /\ Head(batch) = batch[1] /\ 1 \in 1..Len(batch)
         /\ Tail(batch) \in Seq(Event)
         /\ Len(Tail(batch)) = Len(batch) - 1
         /\ \A i \in 1..Len(Tail(batch)) :
              /\ Tail(batch)[i] = batch[i + 1]
              /\ i + 1 \in 1..Len(batch)
              /\ Tail(batch)[i] # Head(batch)
         /\ Len(batch) # 1 => Tail(batch) # <<>>
<1>1. batch \in Seq(Event) /\ Len(batch) \in Nat /\ Len(batch) # 0
  BY DEF BatchInv
<1>2. /\ Tail(batch) \in Seq(Event)
      /\ Len(Tail(batch)) = Len(batch) - 1
      /\ \A i \in 1..Len(Tail(batch)) : Tail(batch)[i] = batch[i + 1]
  BY <1>1, HeadTailProperties
<1>3. Head(batch) = batch[1] /\ 1 \in 1..Len(batch)
  BY <1>1
<1>4. ASSUME NEW i \in 1..Len(Tail(batch))
      PROVE  i + 1 \in 1..Len(batch) /\ Tail(batch)[i] # Head(batch)
  BY <1>1, <1>2, <1>3, <1>4 DEF BatchInv
<1>5. Head(batch) \in written \cap Event
  BY <1>1, <1>3 DEF BatchInv
<1>6. Len(batch) # 1 => Tail(batch) # <<>>
  <2>1. Len(<<>>) = 0
    OBVIOUS
  <2>2. Tail(batch) = <<>> => Len(Tail(batch)) = 0
    BY <2>1
  <2>3. QED
    BY <1>1, <1>2, <2>2
<1>7. \A i \in 1..Len(Tail(batch)) :
        /\ Tail(batch)[i] = batch[i + 1]
        /\ i + 1 \in 1..Len(batch)
        /\ Tail(batch)[i] # Head(batch)
  BY <1>2, <1>4
<1>8. QED
  BY <1>2, <1>3, <1>5, <1>6, <1>7

(* The instance counts as the module does.                                 *)
LEMMA FullMeansFull == Buffer!Full <=> Cardinality(rows) >= MaxRows
BY DEF Buffer!Full, Buffer!Cardinality, Cardinality

(* write() keeps the table within its limit: it adds one row, and removes  *)
(* one first when the table is full.                                       *)
LEMMA WriteKeepsBuffer ==
  ASSUME BufferInv, NEW e \in Event, Buffer!Write(e)
  PROVE  /\ BufferInv'
         /\ rows' \subseteq rows \cup {e}
         /\ rows \subseteq rows' \cup evicted'
         /\ evicted \subseteq evicted'
         /\ written' = written \cup {e}
         /\ e \in rows'
<1>1. Cardinality(rows) \in Nat /\ MaxRows \in Nat \ {0}
  BY EdgeAssumption, FS_CardinalityType DEF BufferInv
<1>2. CASE ~Buffer!Full
  <2>1. IsFiniteSet(rows') /\ Cardinality(rows') <= Cardinality(rows) + 1
    BY <1>1, <1>2, FS_AddElement DEF Buffer!Write, BufferInv
  <2>2. Cardinality(rows) + 1 <= MaxRows
    BY <1>1, <1>2, FullMeansFull
  <2>3. Cardinality(rows') \in Nat
    BY <2>1, FS_CardinalityType
  <2>4. QED
    BY <1>1, <1>2, <2>1, <2>2, <2>3 DEF Buffer!Write, BufferInv
<1>3. CASE Buffer!Full
  <2>1. PICK o \in Buffer!Oldest(rows) : Buffer!Overwrite(o, e)
    BY <1>3 DEF Buffer!Write
  <2>2. o \in rows
    BY <2>1 DEF Buffer!Oldest
  <2>3. IsFiniteSet(rows \ {o}) /\ Cardinality(rows \ {o}) = Cardinality(rows) - 1
    BY <2>2, FS_RemoveElement DEF BufferInv
  <2>4. IsFiniteSet(rows') /\ Cardinality(rows') <= Cardinality(rows)
    BY <1>1, <2>1, <2>3, FS_AddElement DEF Buffer!Overwrite
  <2>5. Cardinality(rows') \in Nat
    BY <2>4, FS_CardinalityType
  <2>6. QED
    BY <1>1, <2>1, <2>2, <2>4, <2>5 DEF Buffer!Write, Buffer!Overwrite, BufferInv
<1>4. QED
  BY <1>2, <1>3

(* ack() only removes rows.                                                *)
LEMMA AckKeepsBuffer ==
  ASSUME BufferInv, NEW e, Buffer!Ack(e)
  PROVE  /\ BufferInv'
         /\ rows' = rows \ {e} /\ evicted' = evicted /\ written' = written
<1>1. /\ IsFiniteSet(rows \ {e})
      /\ Cardinality(rows \ {e}) = IF e \in rows THEN Cardinality(rows) - 1 ELSE Cardinality(rows)
  BY FS_RemoveElement DEF BufferInv
<1>2. Cardinality(rows) \in Nat /\ Cardinality(rows \ {e}) \in Nat /\ MaxRows \in Nat
  BY <1>1, EdgeAssumption, FS_CardinalityType DEF BufferInv
<1>3. QED
  BY <1>1, <1>2 DEF Buffer!Ack, BufferInv

-----------------------------------------------------------------------------
(* A fresh node has stored, delivered and lost nothing.                    *)
LEMMA StoreInit == ASSUME Init PROVE StoreInv
<1>1. BufferInv
  BY FS_EmptySet, EdgeAssumption DEF Init, Buffer!Init, BufferInv
<1>2. BatchInv
  <2>1. batch = <<>> /\ Len(<<>>) = 0 /\ <<>> \in Seq(Event)
    BY DEF Init
  <2>2. QED
    BY <2>1 DEF Init, BatchInv
<1>3. DeliveryInv
  <2>1. Pending = {}
    BY DEF Init, Buffer!Init, Pending
  <2>2. QED
    BY <2>1 DEF Init, DeliveryInv
<1>4. QED
  BY <1>1, <1>2, <1>3 DEF StoreInv, NoEventLost, Init, Buffer!Init

(* A step that leaves buffer, batch and delivery alone keeps the invariant.*)
LEMMA StoreFrame ==
  ASSUME StoreInv, UNCHANGED <<buffer, batch, copies, faults>>,
         thread' = thread \/ (thread \notin {"posting", "acking"} /\ thread' \notin {"posting", "acking"})
  PROVE  StoreInv'
<1>1. UNCHANGED <<rows, evicted, written, acked, batch, copies, faults>>
  BY DEF buffer
<1>2. BufferInv' /\ BatchInv'
  BY <1>1 DEF StoreInv, BufferInv, BatchInv
<1>3. Pending' = Pending
  BY <1>1 DEF Pending
<1>4. ASSUME NEW e \in Pending PROVE copies[e] <= faults \/ BeingAcked(e)'
  BY <1>1 DEF StoreInv, DeliveryInv, BeingAcked
<1>5. DeliveryInv'
  BY <1>1, <1>3, <1>4 DEF StoreInv, DeliveryInv
<1>6. QED
  BY <1>1, <1>2, <1>5 DEF StoreInv, NoEventLost

(* A new row has not been delivered; a row written over is in the log.     *)
LEMMA StoreSensorWrites ==
  ASSUME StoreInv, NEW e \in Event, SensorWrites(e)
  PROVE  StoreInv'
<1>1. /\ e \notin written /\ Buffer!Write(e)
      /\ UNCHANGED <<batch, copies, faults, thread>>
  BY DEF SensorWrites, upload
<1>2. /\ BufferInv'
      /\ rows' \subseteq rows \cup {e}
      /\ rows \subseteq rows' \cup evicted'
      /\ evicted \subseteq evicted'
      /\ written' = written \cup {e}
      /\ e \in rows'
  BY <1>1, WriteKeepsBuffer DEF StoreInv
<1>3. BatchInv'
  BY <1>1, <1>2 DEF StoreInv, BatchInv
<1>4. Pending' \subseteq Pending \cup {e}
  BY <1>1, <1>2 DEF Pending
<1>5. copies[e] = 0 /\ faults \in Nat
  BY <1>1 DEF StoreInv, DeliveryInv
<1>6. DeliveryInv'
  BY <1>1, <1>2, <1>4, <1>5 DEF StoreInv, DeliveryInv, BeingAcked
<1>7. QED
  BY <1>1, <1>2, <1>3, <1>6 DEF StoreInv, NoEventLost

(* A fault that clears the batch leaves at most one event whose delivery   *)
(* it has made one too many.                                               *)
LEMMA StoreDropBatch ==
  ASSUME StoreInv, UNCHANGED <<rows, evicted, written, acked, copies>>,
         batch' = <<>>, thread' = "sleeping", faults' = faults + 1
  PROVE  StoreInv'
<1>1. BufferInv'
  BY DEF StoreInv, BufferInv
<1>2. BatchInv'
  <2>1. Len(<<>>) = 0 /\ <<>> \in Seq(Event)
    OBVIOUS
  <2>2. QED
    BY <2>1 DEF BatchInv
<1>3. Pending' = rows
  BY DEF Pending
<1>4. ASSUME NEW e \in rows PROVE copies[e] <= faults + 1
  BY <1>4 DEF StoreInv, BufferInv, DeliveryInv
<1>5. DeliveryInv'
  BY <1>3, <1>4 DEF StoreInv, BufferInv, DeliveryInv
<1>6. QED
  BY <1>1, <1>2, <1>5 DEF StoreInv, NoEventLost

(* A batch is made of rows, each of them once.                             *)
LEMMA StoreReadBatch == ASSUME StoreInv, ReadBatch PROVE StoreInv'
<1>1. PICK b \in Buffer!Batches(BatchSize) :
        /\ batch' = b
        /\ thread' = IF b = <<>> THEN "drained" ELSE "posting"
  BY DEF ReadBatch
<1>2. UNCHANGED <<rows, evicted, written, acked, copies, faults>> /\ thread = "reading"
  BY DEF ReadBatch, buffer
<1>3. PICK size \in Nat :
        /\ b \in [1..size -> rows]
        /\ \A i, j \in 1..size : i < j => b[i] # b[j]
  <2>1. Buffer!Cardinality(rows) = Cardinality(rows)
    BY DEF Buffer!Cardinality, Cardinality
  <2>2. Cardinality(rows) \in Nat /\ BatchSize \in Nat
    BY FS_CardinalityType, EdgeAssumption DEF StoreInv, BufferInv
  <2>3. QED
    BY <1>1, <2>1, <2>2 DEF Buffer!Batches
<1>4. b \in Seq(Event) /\ Len(b) = size
  BY <1>3 DEF StoreInv, BufferInv
<1>5. \A i \in 1..Len(b) : b[i] \in rows
  BY <1>3, <1>4
<1>6. \A i, j \in 1..Len(b) : b[i] = b[j] => i = j
  BY <1>3, <1>4
<1>7. BufferInv'
  BY <1>2 DEF StoreInv, BufferInv
<1>8. BatchInv'
  BY <1>1, <1>2, <1>4, <1>5, <1>6 DEF StoreInv, BufferInv, BatchInv
<1>9. Pending' = rows
  BY <1>1, <1>2, <1>5 DEF Pending
<1>10. \A e \in rows : copies[e] <= faults
  BY <1>2 DEF StoreInv, DeliveryInv, Pending, BeingAcked
<1>11. DeliveryInv'
  BY <1>1, <1>2, <1>9, <1>10 DEF StoreInv, DeliveryInv
<1>12. QED
  BY <1>2, <1>7, <1>8, <1>11 DEF StoreInv, NoEventLost

(* The head had been delivered by faults only; now it is being acked.      *)
LEMMA StorePostAccepted == ASSUME StoreInv, PostAccepted PROVE StoreInv'
<1>1. /\ thread = "posting" /\ thread' = "acking"
      /\ copies' = [copies EXCEPT ![Head(batch)] = @ + 1]
      /\ UNCHANGED <<rows, evicted, written, acked, batch, faults>>
  BY DEF PostAccepted, buffer
<1>2. BatchInv /\ batch # <<>>
  BY <1>1 DEF StoreInv, BatchInv
<1>3. Head(batch) \in written \cap Event /\ Head(batch) \in Pending
  BY <1>2, TailOfBatch DEF Pending
<1>4. copies[Head(batch)] <= faults /\ copies[Head(batch)] \in Nat
  BY <1>1, <1>3 DEF StoreInv, DeliveryInv, BeingAcked
<1>5. Pending' = Pending /\ Pending \subseteq Event
  BY <1>1, <1>2 DEF Pending, StoreInv, BufferInv, BatchInv
<1>6. BufferInv' /\ BatchInv'
  BY <1>1, <1>2 DEF StoreInv, BufferInv, BatchInv
<1>7. /\ copies' \in [Event -> Nat]
      /\ copies'[Head(batch)] = copies[Head(batch)] + 1
      /\ \A e \in Event \ {Head(batch)} : copies'[e] = copies[e]
  BY <1>1, <1>3, <1>4 DEF StoreInv, DeliveryInv
<1>8. DeliveryInv'
  BY <1>1, <1>3, <1>4, <1>5, <1>7 DEF StoreInv, DeliveryInv, BeingAcked
<1>9. NoEventLost'
  BY <1>1, <1>3, <1>7 DEF StoreInv, NoEventLost, BufferInv, DeliveryInv
<1>10. QED
  BY <1>6, <1>8, <1>9 DEF StoreInv

(* Going on to the next event keeps the batch well formed and adds nothing *)
(* to what is pending.                                                     *)
LEMMA NextEventBatch ==
  ASSUME BatchInv, batch # <<>>, NextEvent, written' = written
  PROVE  /\ BatchInv'
         /\ thread' \in {"reading", "posting"}
         /\ \A i \in 1..Len(batch') : \E j \in 1..Len(batch) : batch'[i] = batch[j] /\ batch'[i] # Head(batch)
<1>1. batch' = Tail(batch) /\ thread' = IF Len(batch) = 1 THEN "reading" ELSE "posting"
  BY DEF NextEvent
<1>2. /\ Tail(batch) \in Seq(Event)
      /\ Len(Tail(batch)) = Len(batch) - 1
      /\ \A i \in 1..Len(Tail(batch)) :
           /\ Tail(batch)[i] = batch[i + 1]
           /\ i + 1 \in 1..Len(batch)
           /\ Tail(batch)[i] # Head(batch)
      /\ Len(batch) # 1 => Tail(batch) # <<>>
  BY TailOfBatch
<1>3. \A i, j \in 1..Len(Tail(batch)) : Tail(batch)[i] = Tail(batch)[j] => i = j
  <2> SUFFICES ASSUME NEW i \in 1..Len(Tail(batch)), NEW j \in 1..Len(Tail(batch)),
                      Tail(batch)[i] = Tail(batch)[j]
               PROVE  i = j
    OBVIOUS
  <2>1. i + 1 \in 1..Len(batch) /\ j + 1 \in 1..Len(batch) /\ batch[i + 1] = batch[j + 1]
    BY <1>2
  <2>2. i + 1 = j + 1
    BY <2>1 DEF BatchInv
  <2>3. QED
    BY <2>2
<1>4. \A i \in 1..Len(Tail(batch)) : Tail(batch)[i] \in written
  BY <1>2 DEF BatchInv
<1>5. BatchInv'
  BY <1>1, <1>2, <1>3, <1>4 DEF BatchInv
<1>6. QED
  BY <1>1, <1>2, <1>5

(* A failed attempt leaves what is pending pending, or drops the head.     *)
LEMMA AttemptFailedBatch ==
  ASSUME BatchInv, thread = "posting", AttemptFailed, UNCHANGED <<rows, written>>
  PROVE  /\ BatchInv'
         /\ thread' \in {"reading", "posting"}
         /\ Pending' \subseteq Pending
<1>1. batch # <<>>
  BY DEF BatchInv
<1>2. CASE attempt < MaxRetries
  <2>1. UNCHANGED <<batch, thread>>
    BY <1>2 DEF AttemptFailed
  <2>2. QED
    BY <2>1 DEF BatchInv, Pending
<1>3. CASE ~(attempt < MaxRetries)
  <2>1. NextEvent
    BY <1>3 DEF AttemptFailed
  <2>2. /\ BatchInv'
        /\ thread' \in {"reading", "posting"}
        /\ \A i \in 1..Len(batch') : \E j \in 1..Len(batch) : batch'[i] = batch[j] /\ batch'[i] # Head(batch)
    BY <1>1, <2>1, NextEventBatch
  <2>3. QED
    BY <2>2 DEF Pending
<1>4. QED
  BY <1>2, <1>3

(* A failed attempt delivers nothing.                                      *)
LEMMA StorePostFails == ASSUME StoreInv, PostFails PROVE StoreInv'
<1>1. /\ thread = "posting" /\ AttemptFailed
      /\ UNCHANGED <<rows, evicted, written, acked, copies, faults>>
  BY DEF PostFails, buffer
<1>2. BatchInv' /\ thread' \in {"reading", "posting"} /\ Pending' \subseteq Pending
  BY <1>1, AttemptFailedBatch DEF StoreInv
<1>3. BufferInv'
  BY <1>1 DEF StoreInv, BufferInv
<1>4. \A e \in Pending : copies[e] <= faults
  BY <1>1 DEF StoreInv, DeliveryInv, BeingAcked
<1>5. DeliveryInv'
  BY <1>1, <1>2, <1>4 DEF StoreInv, DeliveryInv
<1>6. QED
  BY <1>1, <1>2, <1>3, <1>5 DEF StoreInv, NoEventLost

(* A lost answer delivers the head once more and counts as a fault.        *)
LEMMA StoreAnswerLost == ASSUME StoreInv, AnswerLost PROVE StoreInv'
<1>1. /\ thread = "posting" /\ AttemptFailed /\ faults' = faults + 1
      /\ copies' = [copies EXCEPT ![Head(batch)] = @ + 1]
      /\ UNCHANGED <<rows, evicted, written, acked>>
  BY DEF AnswerLost, buffer
<1>2. BatchInv' /\ thread' \in {"reading", "posting"} /\ Pending' \subseteq Pending
  BY <1>1, AttemptFailedBatch DEF StoreInv
<1>3. BufferInv'
  BY <1>1 DEF StoreInv, BufferInv
<1>4. Head(batch) \in written \cap Event /\ Head(batch) \in Pending
  BY <1>1, TailOfBatch DEF Pending, StoreInv, BatchInv
<1>5. /\ faults \in Nat
      /\ \A e \in Pending : copies[e] <= faults
      /\ \A e \in Event : copies[e] \in Nat /\ copies[e] <= 1 + faults
      /\ \A e \in Event \ written : copies[e] = 0
      /\ Pending \subseteq Event
  BY <1>1 DEF StoreInv, DeliveryInv, BeingAcked, Pending, BufferInv, BatchInv
<1>6. /\ copies' \in [Event -> Nat]
      /\ copies'[Head(batch)] = copies[Head(batch)] + 1
      /\ \A e \in Event \ {Head(batch)} : copies'[e] = copies[e]
  BY <1>1, <1>4, <1>5 DEF StoreInv, DeliveryInv
<1>7. \A e \in Event : copies'[e] <= 1 + faults'
  BY <1>1, <1>4, <1>5, <1>6
<1>8. \A e \in Pending' : copies'[e] <= faults'
  BY <1>1, <1>2, <1>4, <1>5, <1>6
<1>9. DeliveryInv'
  BY <1>1, <1>2, <1>4, <1>5, <1>6, <1>7, <1>8 DEF DeliveryInv
<1>10. \A e \in Event : copies'[e] >= copies[e]
  BY <1>4, <1>5, <1>6
<1>11. NoEventLost'
  BY <1>1, <1>5, <1>10, <1>6 DEF StoreInv, NoEventLost, BufferInv
<1>12. QED
  BY <1>2, <1>3, <1>9, <1>11 DEF StoreInv

(* The acknowledged row had been delivered.                                *)
LEMMA StoreAckEvent == ASSUME StoreInv, AckEvent PROVE StoreInv'
<1>1. /\ thread = "acking" /\ Buffer!Ack(Head(batch)) /\ NextEvent
      /\ UNCHANGED <<copies, faults>>
  BY DEF AckEvent, AckRow
<1>2. /\ BufferInv'
      /\ rows' = rows \ {Head(batch)} /\ evicted' = evicted /\ written' = written
  BY <1>1, AckKeepsBuffer DEF StoreInv
<1>3. BatchInv /\ batch # <<>>
  BY <1>1 DEF StoreInv, BatchInv
<1>4. /\ BatchInv'
      /\ thread' \in {"reading", "posting"}
      /\ \A i \in 1..Len(batch') : \E j \in 1..Len(batch) : batch'[i] = batch[j] /\ batch'[i] # Head(batch)
  BY <1>1, <1>2, <1>3, NextEventBatch
<1>5. Pending' \subseteq Pending \ {Head(batch)}
  BY <1>2, <1>4 DEF Pending
<1>6. \A e \in Pending \ {Head(batch)} : copies[e] <= faults
  BY <1>1 DEF StoreInv, DeliveryInv, BeingAcked
<1>7. copies[Head(batch)] > 0
  BY <1>1 DEF StoreInv, DeliveryInv
<1>8. DeliveryInv'
  BY <1>1, <1>2, <1>4, <1>5, <1>6 DEF StoreInv, DeliveryInv
<1>9. NoEventLost'
  BY <1>1, <1>2, <1>7 DEF StoreInv, NoEventLost
<1>10. QED
  BY <1>2, <1>4, <1>8, <1>9 DEF StoreInv

(* Every step keeps the invariant of the store.                            *)
LEMMA StoreStep == ASSUME StoreInv, [Next]_vars PROVE StoreInv'
<1>1. ASSUME NEW e \in Event, SensorWrites(e) PROVE StoreInv'
  BY <1>1, StoreSensorWrites
<1>2. CASE LinkChanges
  BY <1>2, StoreFrame DEF LinkChanges, upload
<1>3. CASE Restart
  BY <1>3, StoreDropBatch DEF Restart, buffer
<1>4. CASE AnswerLost
  BY <1>4, StoreAnswerLost
<1>5. CASE DrainRaises
  BY <1>5, StoreDropBatch DEF DrainRaises, buffer
<1>6. CASE BeatSucceeds
  <2>1. UNCHANGED <<buffer, batch, copies, faults>> /\ thread = "sleeping" /\ thread' \in {"sleeping", "reading"}
    BY <1>6 DEF BeatSucceeds, upload
  <2>2. QED
    BY <2>1, StoreFrame
<1>7. CASE BeatRefused \/ BeatTimesOut
  BY <1>7, StoreFrame DEF BeatRefused, BeatTimesOut, BeatFails, upload
<1>8. CASE ReadBatch
  BY <1>8, StoreReadBatch
<1>9. CASE PostAccepted
  BY <1>9, StorePostAccepted
<1>10. CASE PostFails
  BY <1>10, StorePostFails
<1>11. CASE AckEvent
  BY <1>11, StoreAckEvent
<1>12. CASE CompleteDrain
  <2>1. UNCHANGED <<buffer, batch, copies, faults>> /\ thread = "drained" /\ thread' \in {"sleeping", "blocked"}
    BY <1>12 DEF CompleteDrain, upload
  <2>2. QED
    BY <2>1, StoreFrame
<1>13. CASE UNCHANGED vars
  BY <1>13, StoreFrame DEF vars, upload
<1>14. QED
  BY <1>1, <1>2, <1>3, <1>4, <1>5, <1>6, <1>7, <1>8, <1>9, <1>10, <1>11, <1>12, <1>13
  DEF Next, HeartbeatThread, Environment

LEMMA StoreInvariant == Spec => []StoreInv
<1>1. Init => StoreInv
  BY StoreInit
<1>2. StoreInv /\ [Next]_vars => StoreInv'
  BY StoreStep
<1>3. QED
  BY <1>1, <1>2, PTL DEF Spec

(* Req 2 C2, C3: an event leaves the buffer only delivered or with an      *)
(* entry in the overflow log.                                              *)
THEOREM EventsAreKept == Spec => []NoEventLost
<1>1. StoreInv => NoEventLost
  BY DEF StoreInv
<1>2. QED
  BY <1>1, StoreInvariant, PTL

(* The buffer of a running node never outgrows its limit.                  *)
THEOREM BufferIsBounded == Spec => []BufferWithinLimit
<1>1. StoreInv => BufferWithinLimit
  BY DEF StoreInv, BufferInv, BufferWithinLimit, Buffer!CapacityBound, Buffer!Cardinality, Cardinality
<1>2. QED
  BY <1>1, StoreInvariant, PTL

(* Every delivery of an event beyond the first is explained by a fault.    *)
THEOREM DuplicatesAreBounded == Spec => []DuplicatesAreExcused
<1>1. StoreInv => DuplicatesAreExcused
  BY DEF StoreInv, DeliveryInv, DuplicatesAreExcused
<1>2. QED
  BY <1>1, StoreInvariant, PTL

-----------------------------------------------------------------------------
(* HandOver.  What the pipeline never accepts it has not stored.           *)
RejectedInv == \A e \in Rejected : copies[e] = 0

LEMMA RejectedStep == ASSUME StoreInv, RejectedInv, [Next]_vars PROVE RejectedInv'
<1>1. copies \in [Event -> Nat] /\ Rejected \subseteq Event
  BY EdgeAssumption DEF StoreInv, DeliveryInv
<1>2. CASE PostAccepted \/ AnswerLost
  <2>1. Head(batch) \notin Rejected /\ copies' = [copies EXCEPT ![Head(batch)] = @ + 1]
    BY <1>2 DEF PostAccepted, AnswerLost
  <2>2. \A e \in Rejected : copies'[e] = copies[e]
    BY <1>1, <2>1
  <2>3. QED
    BY <2>2 DEF RejectedInv
<1>3. CASE UNCHANGED copies
  BY <1>3 DEF RejectedInv
<1>4. CASE BeatSucceeds \/ BeatRefused \/ BeatTimesOut \/ ReadBatch \/ PostFails \/ AckEvent \/ CompleteDrain
  BY <1>3, <1>4 DEF BeatSucceeds, BeatRefused, BeatTimesOut, BeatFails, ReadBatch, PostFails,
    AckEvent, CompleteDrain, upload
<1>5. CASE (\E e \in Event : SensorWrites(e)) \/ LinkChanges \/ Restart \/ DrainRaises \/ UNCHANGED vars
  BY <1>3, <1>5 DEF SensorWrites, LinkChanges, Restart, DrainRaises, vars, upload
<1>6. QED
  BY <1>2, <1>4, <1>5 DEF Next, HeartbeatThread, Environment

(* write() of a new event is Accept: a full table loses its oldest row, to *)
(* the log.                                                                *)
LEMMA WriteIsAccept ==
  ASSUME StoreInv, NEW e \in Event, SensorWrites(e)
  PROVE  Contract!Accept(e)
<1>1. /\ e \notin written /\ written' = written \cup {e} /\ copies' = copies
      /\ \/ ~Buffer!Full /\ rows' = rows \cup {e} /\ UNCHANGED evicted
         \/ Buffer!Full /\ \E o \in Buffer!Oldest(rows) : Buffer!Overwrite(o, e)
  BY DEF SensorWrites, upload, Buffer!Write
<1>2. Buffer!Full <=> Cardinality(rows) >= MaxRows
  BY FullMeansFull
<1>3. Contract!Cardinality(rows) = Cardinality(rows)
  BY DEF Contract!Cardinality, Cardinality
<1>4. Cardinality(rows) \in Nat /\ MaxRows \in Nat
  BY EdgeAssumption, FS_CardinalityType DEF StoreInv, BufferInv
<1>5. CASE ~Buffer!Full
  BY <1>1, <1>2, <1>3, <1>4, <1>5 DEF Contract!Accept
<1>6. CASE Buffer!Full
  <2>1. PICK o \in rows :
          /\ \A w \in rows : Timestamp[o] <= Timestamp[w]
          /\ rows' = (rows \ {o}) \cup {e}
          /\ evicted' = evicted \cup {o}
    BY <1>1, <1>6 DEF Buffer!Oldest, Buffer!Overwrite
  <2>2. QED
    BY <1>1, <1>2, <1>3, <1>4, <1>6, <2>1 DEF Contract!Accept
<1>7. QED
  BY <1>5, <1>6

(* An accepted POST is Deliver, and so is one whose answer is lost: the    *)
(* row stays for now.                                                      *)
LEMMA PostIsDeliver ==
  ASSUME StoreInv, PostAccepted \/ AnswerLost,
         NEW e \in Event, e = Head(batch)
  PROVE  Contract!Deliver(e)
<1>1. /\ thread = "posting" /\ Head(batch) \notin Rejected
      /\ copies' = [copies EXCEPT ![Head(batch)] = @ + 1]
      /\ UNCHANGED <<rows, evicted, written>>
  BY DEF PostAccepted, AnswerLost, buffer
<1>2. Head(batch) \in written \cap Event
  BY <1>1, TailOfBatch DEF StoreInv, BatchInv
<1>3. {f \in Event : copies'[f] > 0} = {f \in Event : copies[f] > 0} \cup {Head(batch)}
  <2>1. copies \in [Event -> Nat]
    BY DEF StoreInv, DeliveryInv
  <2>2. /\ copies'[Head(batch)] = copies[Head(batch)] + 1
        /\ copies[Head(batch)] \in Nat
        /\ \A f \in Event \ {Head(batch)} : copies'[f] = copies[f]
    BY <1>1, <1>2, <2>1
  <2>3. QED
    BY <1>2, <2>2
<1>4. QED
  BY <1>1, <1>2, <1>3 DEF Contract!Deliver

(* The acknowledgement is Deliver of what was delivered already, and takes *)
(* the row.                                                                *)
LEMMA AckIsDeliver ==
  ASSUME StoreInv, RejectedInv, AckEvent,
         NEW e \in Event, e = Head(batch)
  PROVE  Contract!Deliver(e)
<1>1. /\ thread = "acking" /\ copies' = copies
      /\ rows' = rows \ {Head(batch)} /\ UNCHANGED <<evicted, written>>
  BY DEF AckEvent, AckRow, Buffer!Ack
<1>2. Head(batch) \in written \cap Event
  BY <1>1, TailOfBatch DEF StoreInv, BatchInv
<1>3. copies[Head(batch)] > 0
  BY <1>1 DEF StoreInv, DeliveryInv
<1>4. Head(batch) \notin Rejected
  BY <1>3 DEF RejectedInv
<1>5. {f \in Event : copies'[f] > 0} = {f \in Event : copies[f] > 0} \cup {Head(batch)}
  BY <1>1, <1>2, <1>3
<1>6. QED
  BY <1>1, <1>2, <1>4, <1>5 DEF Contract!Deliver

(* The other steps are invisible.                                          *)
LEMMA HandsOverStep ==
  ASSUME StoreInv, RejectedInv, [Next]_vars
  PROVE  [Contract!Next]_(Contract!vars)
<1>1. ASSUME NEW e \in Event, SensorWrites(e) PROVE Contract!Next
  BY <1>1, WriteIsAccept DEF Contract!Next
<1>2. CASE PostAccepted \/ AnswerLost
  <2>1. thread \in {"posting", "acking"}
    BY <1>2 DEF PostAccepted, AnswerLost
  <2>2. PICK e \in Event : e = Head(batch)
    BY <2>1, TailOfBatch DEF StoreInv, BatchInv
  <2>3. Contract!Deliver(e)
    BY <1>2, <2>2, PostIsDeliver
  <2>4. QED
    BY <2>3 DEF Contract!Next
<1>3. CASE AckEvent
  <2>1. thread \in {"posting", "acking"}
    BY <1>3 DEF AckEvent
  <2>2. PICK e \in Event : e = Head(batch)
    BY <2>1, TailOfBatch DEF StoreInv, BatchInv
  <2>3. Contract!Deliver(e)
    BY <1>3, <2>2, AckIsDeliver
  <2>4. QED
    BY <2>3 DEF Contract!Next
<1>4. CASE UNCHANGED <<rows, evicted, written, copies>>
  BY <1>4 DEF Contract!vars
<1>5. CASE BeatSucceeds \/ BeatRefused \/ BeatTimesOut \/ ReadBatch \/ PostFails \/ CompleteDrain
  BY <1>4, <1>5 DEF BeatSucceeds, BeatRefused, BeatTimesOut, BeatFails, ReadBatch, PostFails,
    CompleteDrain, upload, buffer
<1>6. CASE LinkChanges \/ Restart \/ DrainRaises \/ UNCHANGED vars
  BY <1>4, <1>6 DEF LinkChanges, Restart, DrainRaises, vars, upload, buffer
<1>7. QED
  BY <1>1, <1>2, <1>3, <1>5, <1>6 DEF Next, HeartbeatThread, Environment

(* The node hands its events over as HandOver says, through every outage,  *)
(* overflow, power loss and lost answer (CircularBuffer,                   *)
(* upload_buffered_events).                                                *)
THEOREM NodeHandsOver == Spec => ImplementsHandOver
<1>1. Init => Contract!Init /\ RejectedInv
  BY EdgeAssumption DEF Init, Buffer!Init, Contract!Init, RejectedInv
<1>2. StoreInv /\ RejectedInv /\ [Next]_vars => RejectedInv' /\ [Contract!Next]_(Contract!vars)
  BY RejectedStep, HandsOverStep
<1>3. QED
  BY <1>1, <1>2, StoreInvariant, PTL DEF Spec, ImplementsHandOver, Contract!Spec

-----------------------------------------------------------------------------
(* A beat remembers at most one failure more than the beat before.         *)
LEMMA AgedIsNoLarger ==
  ASSUME NEW d \in Nat, IsFiniteSet(failures), failures \subseteq 0..Window
  PROVE  /\ IsFiniteSet(Aged(d) \cup {0})
         /\ Cardinality(Aged(d) \cup {0}) <= Cardinality(failures) + 1
         /\ Aged(d) \cup {0} \subseteq 0..Window
<1> DEFINE older == {age + d : age \in failures}
           f == [age \in failures |-> age + d]
<1>1. f \in Surjection(failures, older)
  BY DEF Surjection
<1>2. IsFiniteSet(older) /\ Cardinality(older) <= Cardinality(failures)
  BY <1>1, FS_Surjection
<1>3. IsFiniteSet(Aged(d)) /\ Cardinality(Aged(d)) <= Cardinality(older)
  BY <1>2, FS_Subset DEF Aged
<1>4. /\ Cardinality(failures) \in Nat /\ Cardinality(older) \in Nat
      /\ Cardinality(Aged(d)) \in Nat
  BY <1>2, <1>3, FS_CardinalityType
<1>5. IsFiniteSet(Aged(d) \cup {0}) /\ Cardinality(Aged(d) \cup {0}) <= Cardinality(Aged(d)) + 1
  <2>1. /\ IsFiniteSet(Aged(d) \cup {0})
        /\ Cardinality(Aged(d) \cup {0}) =
             IF 0 \in Aged(d) THEN Cardinality(Aged(d)) ELSE Cardinality(Aged(d)) + 1
    BY <1>3, FS_AddElement, Zenon
  <2>2. QED
    BY <1>4, <2>1
<1>6. Cardinality(Aged(d) \cup {0}) \in Nat
  BY <1>5, FS_CardinalityType
<1>7. 0 \in 0..Window
  BY EdgeAssumption
<1>8. Aged(d) \cup {0} \subseteq 0..Window
  BY <1>7 DEF Aged
<1>9. QED
  BY <1>2, <1>3, <1>4, <1>5, <1>6, <1>8

(* A failed beat lengthens the streak by as much as it remembers.          *)
LEMMA StreakBeatFails ==
  ASSUME StreakInv, NEW d \in Nat, BeatFails(d)
  PROVE  StreakInv'
<1>1. /\ failures' = Aged(d) \cup {0}
      /\ state' = IF state = "CONNECTED" /\ Cardinality(failures') >= 3 THEN "AUTONOMOUS" ELSE state
      /\ streak' = IF streak < 3 THEN streak + 1 ELSE streak
  BY DEF BeatFails, Threshold, FailureThreshold
<1>2. /\ IsFiniteSet(failures')
      /\ Cardinality(failures') <= Cardinality(failures) + 1
      /\ failures' \subseteq 0..Window
  BY <1>1, AgedIsNoLarger DEF StreakInv
<1>3. Cardinality(failures') \in Nat /\ Cardinality(failures) \in Nat
  BY <1>2, FS_CardinalityType DEF StreakInv
<1>4. streak \in 0..3 /\ (Cardinality(failures) <= streak \/ streak = 3)
  BY DEF StreakInv, FailureThreshold
<1>5. streak' \in 0..3 /\ (Cardinality(failures') <= streak' \/ streak' = 3)
  BY <1>1, <1>2, <1>3, <1>4
<1>6. state' = "AUTONOMOUS" => streak' = 3
  BY <1>1, <1>3, <1>4, <1>5 DEF StreakInv, AutonomousAfterThree, FailureThreshold
<1>7. state' \in State
  BY <1>1 DEF StreakInv, State
<1>8. QED
  BY <1>2, <1>5, <1>6, <1>7 DEF StreakInv, AutonomousAfterThree, FailureThreshold

(* The other steps leave the machine alone, or forget all failures.        *)
LEMMA StreakStep == ASSUME StreakInv, [Next]_vars PROVE StreakInv'
<1>1. {RefusedBeat, TimedOutBeat} \subseteq Nat
  BY EdgeAssumption
<1>2. CASE BeatRefused \/ BeatTimesOut
  BY <1>1, <1>2, StreakBeatFails DEF BeatRefused, BeatTimesOut
<1>3. CASE UNCHANGED <<state, failures, streak>>
  BY <1>3 DEF StreakInv, AutonomousAfterThree
<1>4. CASE failures' = {} /\ streak' = 0 /\ state' \in {"CONNECTED", "RECONNECTING"}
  BY <1>4, FS_EmptySet, EdgeAssumption DEF StreakInv, AutonomousAfterThree, FailureThreshold, State
<1>5. CASE BeatSucceeds
  <2>1. failures' = {} /\ streak' = 0
    BY <1>5 DEF BeatSucceeds, ClearedBySuccess
  <2>2. state' \in {"CONNECTED", "RECONNECTING"}
    BY <1>5 DEF BeatSucceeds, StreakInv, State
  <2>3. QED
    BY <1>4, <2>1, <2>2
<1>6. CASE CompleteDrain
  <2>1. UNCHANGED <<failures, streak>> /\ (state' = state \/ state' = "CONNECTED")
    BY <1>6 DEF CompleteDrain
  <2>2. QED
    BY <2>1 DEF StreakInv, AutonomousAfterThree, State
<1>7. CASE Restart
  BY <1>4, <1>7 DEF Restart
<1>8. CASE LinkChanges \/ AnswerLost \/ DrainRaises \/ ReadBatch \/ PostAccepted \/ PostFails \/ AckEvent
  BY <1>3, <1>8 DEF LinkChanges, AnswerLost, DrainRaises, ReadBatch, PostAccepted, PostFails, AckEvent, fsm
<1>9. CASE \E e \in Event : SensorWrites(e)
  BY <1>3, <1>9 DEF SensorWrites, fsm
<1>10. CASE UNCHANGED vars
  BY <1>3, <1>10 DEF vars, fsm
<1>11. QED
  BY <1>2, <1>5, <1>6, <1>7, <1>8, <1>9, <1>10 DEF Next, HeartbeatThread, Environment

(* Req 2 C1: the node turns autonomous only after three failed heartbeats  *)
(* in a row.                                                               *)
THEOREM AutonomyIsEarned == Spec => []AutonomousAfterThree
<1>1. Init => StreakInv
  BY FS_EmptySet DEF Init, StreakInv, AutonomousAfterThree, FailureThreshold, State
<1>2. StreakInv /\ [Next]_vars => StreakInv'
  BY StreakStep
<1>3. StreakInv => AutonomousAfterThree
  BY DEF StreakInv
<1>4. QED
  BY <1>1, <1>2, <1>3, PTL DEF Spec
=============================================================================
