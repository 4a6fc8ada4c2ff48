--------------------------- MODULE OperationsProofs ---------------------------
(***************************************************************************)
(* Proofs about the services beside the decision path: the InfluxDB        *)
(* writer, the clock monitor, the alert deduplicator, the latency monitor, *)
(* the authentication of requests, the maintenance engine and the Kavach   *)
(* advisory, for any logs, periods, windows, clients, trains and bounds.   *)
(***************************************************************************)
EXTENDS InfluxWriter, ClockMonitor, AlertDeduplicator, LatencyMonitor, Authentication,
        MaintenanceService, KavachAdvisory, FiniteSetTheorems, SequenceTheorems, WellFoundedInduction, TLAPS

-----------------------------------------------------------------------------
(* The InfluxDB writer.  Whatever the consumer handed out is kept, but for *)
(* the event the writer works on, which is not committed.                  *)
Kept(o) == topicLog[o] = "event" => o \in database \cup failed \cup skipped

WriterTypes ==
  /\ topicLog \in Seq(MessageKinds)
  /\ committed \in Nat /\ position \in Nat
  /\ writerAt \in {"poll", "write", "exhausted", "enqueue", "down"}

WriterInv ==
  /\ WriterTypes
  /\ committed <= position /\ position <= Len(topicLog)
  /\ \A o \in 1..committed : Kept(o)
  /\ writerAt = "poll" => \A o \in 1..position : Kept(o)
  /\ writerAt \in {"write", "exhausted", "enqueue"} =>
       committed < position /\ \A o \in 1..(position - 1) : Kept(o)

(* At the start nothing was handed out.                                    *)
LEMMA WriterInvInit == InfluxInit => WriterInv
PROOF BY EmptySeq DEF InfluxInit, WriterInv, WriterTypes, Uncommitted, Kept

(* Every step of the writer keeps what the consumer may commit.            *)
LEMMA WriterInvStep == WriterInv /\ [InfluxNext]_influxVars => WriterInv'
PROOF
  <1> SUFFICES ASSUME WriterInv, [InfluxNext]_influxVars
      PROVE  WriterInv'
    OBVIOUS
  <1> USE DEF WriterInv, WriterTypes
  <1>1. CASE MessageArrives
    <2>1. PICK k \in MessageKinds : topicLog' = Append(topicLog, k)
      BY <1>1 DEF MessageArrives
    <2>2. /\ topicLog' \in Seq(MessageKinds) /\ Len(topicLog') = Len(topicLog) + 1
          /\ \A o \in 1..Len(topicLog) : topicLog'[o] = topicLog[o]
      BY <2>1, AppendProperties
    <2>3. Len(topicLog) \in Nat
      BY LenProperties
    <2>4. UNCHANGED <<position, committed, writerAt, database, failed, skipped>>
      BY <1>1 DEF MessageArrives, storeOfEvents
    <2>5. \A o \in 1..position : Kept(o)' <=> Kept(o)
      BY <2>2, <2>3, <2>4 DEF Kept
    <2>6. QED
      BY <2>2, <2>3, <2>4, <2>5
  <1>2. CASE AutoCommit
    <2>1. \A o : Kept(o)' <=> Kept(o)
      BY <1>2 DEF AutoCommit, storeOfEvents, Kept
    <2>2. QED
      BY <1>2, <2>1 DEF AutoCommit, storeOfEvents
  <1>3. CASE NextMessage
    <2>1. \A o : Kept(o)' <=> Kept(o)
      BY <1>3 DEF NextMessage, storeOfEvents, Kept
    <2>2. /\ writerAt = "poll" /\ position < Len(topicLog) /\ position' = position + 1
          /\ UNCHANGED <<topicLog, committed>>
      BY <1>3 DEF NextMessage
    <2>3. topicLog[position'] \in MessageKinds
      BY <2>2, LenProperties, ElementOfSeq
    <2>4. /\ writerAt' \in {"write", "poll", "down"}
          /\ writerAt' = "poll" => topicLog[position'] # "event"
      BY <1>3, <2>3 DEF NextMessage, MessageKinds
    <2>5. writerAt' = "poll" => Kept(position')
      BY <2>4 DEF Kept
    <2>6. Len(topicLog) \in Nat
      BY LenProperties
    <2>7. QED
      BY <2>1, <2>2, <2>4, <2>5, <2>6
  <1>4. CASE WriteSucceeds \/ Enqueued
    <2>1. /\ writerAt \in {"write", "enqueue"} /\ writerAt' = "poll"
          /\ position \in database' \cup failed'
          /\ database \subseteq database' /\ failed \subseteq failed'
          /\ UNCHANGED <<topicLog, position, committed, skipped>>
      BY <1>4 DEF WriteSucceeds, Enqueued
    <2>2. \A o : Kept(o) => Kept(o)'
      BY <2>1 DEF Kept
    <2>3. Kept(position)'
      BY <2>1 DEF Kept
    <2>4. QED
      BY <2>1, <2>2, <2>3
  <1>5. CASE WriteRaises
    <2>1. /\ writerAt = "write" /\ writerAt' \in {"write", "exhausted"}
          /\ database \subseteq database'
          /\ UNCHANGED <<topicLog, position, committed, failed, skipped>>
      BY <1>5 DEF WriteRaises
    <2>2. \A o : Kept(o) => Kept(o)'
      BY <2>1 DEF Kept
    <2>3. QED
      BY <2>1, <2>2
  <1>6. CASE EmitWriteFailureAlert
    <2>1. \A o : Kept(o)' <=> Kept(o)
      BY <1>6 DEF EmitWriteFailureAlert, storeOfEvents, Kept
    <2>2. QED
      BY <1>6, <2>1 DEF EmitWriteFailureAlert
  <1>7. CASE Ends
    <2>1. \A o : Kept(o)' <=> Kept(o)
      BY <1>7 DEF Ends, storeOfEvents, Kept
    <2>2. QED
      BY <1>7, <2>1 DEF Ends
  <1>8. CASE StartAgain
    <2>1. /\ position' = IF committed = 0 THEN Len(topicLog) ELSE committed
          /\ skipped' = IF committed = 0 THEN skipped \cup 1..Len(topicLog) ELSE skipped
          /\ writerAt' = "poll" /\ UNCHANGED <<topicLog, committed, database, failed>>
      BY <1>8 DEF StartAgain, Uncommitted
    <2>2. \A o : Kept(o) => Kept(o)'
      BY <2>1 DEF Kept
    <2>3. committed = 0 => \A o \in 1..Len(topicLog) : Kept(o)'
      BY <2>1 DEF Kept
    <2>4. Len(topicLog) \in Nat
      BY LenProperties
    <2>5. QED
      BY <2>1, <2>2, <2>3, <2>4
  <1>9. CASE UNCHANGED influxVars
    <2>1. \A o : Kept(o)' <=> Kept(o)
      BY <1>9 DEF influxVars, Kept
    <2>2. QED
      BY <1>9, <2>1 DEF influxVars
  <1>10. QED
    BY <1>1, <1>2, <1>3, <1>4, <1>5, <1>6, <1>7, <1>8, <1>9 DEF InfluxNext

(* An event behind the committed offset is in the database, in the failure *)
(* queue, or was passed over by a start before the first commit, for any   *)
(* log, retries and restarts (influxdb_writer.py).                         *)
THEOREM EventsAreKept == InfluxSpec => []NothingDiscarded
PROOF
  <1>1. WriterInv => NothingDiscarded
    BY DEF WriterInv, NothingDiscarded, Kept
  <1>2. QED
    BY <1>1, WriterInvInit, WriterInvStep, PTL DEF InfluxSpec

-----------------------------------------------------------------------------
(* The clock monitor.  Where the flag was written, it says what the        *)
(* monitor knows; the cooldown runs at least until enough polls passed.    *)
FlagIsCurrent ==
  wrote = "ok" =>
    /\ monitorAt \in {"sleep", "publish"} => ReadClockStatus = prevReliable
    /\ monitorAt = "drift" => ReadClockStatus = measured.reliable

CooldownHolds ==
  lastDriftAlert # 0 =>
    cooldown >= Cooldown - (polls - lastDriftAlert) - (IF monitorAt = "sleep" THEN 1 ELSE 0)

ClockTypes ==
  /\ flagFile \in [found : BOOLEAN, reliable : BOOLEAN] /\ prevReliable \in BOOLEAN
  /\ measured \in [reliable : BOOLEAN, drifted : BOOLEAN]
  /\ {cooldown, polls, lastDriftAlert} \subseteq Nat /\ lastDriftAlert <= polls
  /\ monitorAt \in {"sleep", "publish", "open", "write", "drift"}

ClockInv == ClockTypes /\ FlagIsCurrent /\ CooldownHolds

(* At the start there is no flag and no alert.                             *)
LEMMA ClockInvInit == MonitorInit => ClockInv
PROOF BY DEF MonitorInit, ClockInv, ClockTypes, FlagIsCurrent, CooldownHolds, NoFlag

(* Every step of a poll keeps types.                                       *)
LEMMA ClockTypesStep == ClockInv /\ [MonitorNext]_monitorVars => ClockTypes'
PROOF
  <1> SUFFICES ASSUME ClockInv, [MonitorNext]_monitorVars
      PROVE  ClockTypes'
    OBVIOUS
  <1> USE ClockAssumption DEF ClockInv, ClockTypes
  <1>1. CASE Measure \/ MeasureRaises
    BY <1>1 DEF Measure, MeasureRaises
  <1>2. CASE PublishUnreliable \/ PublishRaises
    BY <1>2 DEF PublishUnreliable, PublishRaises
  <1>3. CASE OpenFlag \/ WriteFlag \/ WriteFails
    <2>1. flagFile' \in [found : BOOLEAN, reliable : BOOLEAN]
      <3>1. \A b \in BOOLEAN : Flag(b) \in [found : BOOLEAN, reliable : BOOLEAN]
        BY DEF Flag
      <3>2. NoFlag \in [found : BOOLEAN, reliable : BOOLEAN]
        BY DEF NoFlag
      <3>3. measured.reliable \in BOOLEAN
        OBVIOUS
      <3>4. QED
        BY <1>3, <3>1, <3>2, <3>3 DEF OpenFlag, WriteFlag, WriteFails
    <2>2. /\ monitorAt' \in {"write", "drift"}
          /\ UNCHANGED <<prevReliable, cooldown, measured, polls, lastDriftAlert>>
      BY <1>3 DEF OpenFlag, WriteFlag, WriteFails
    <2>3. QED
      BY <2>1, <2>2
  <1>4. CASE CheckDrift \/ DriftRaises
    <2>1. /\ monitorAt' = "sleep" /\ UNCHANGED <<flagFile, measured, polls>>
          /\ prevReliable' \in {measured.reliable, TRUE}
      BY <1>4 DEF CheckDrift, DriftRaises
    <2>2. prevReliable' \in BOOLEAN
      BY <2>1
    <2>3. cooldown' \in Nat /\ lastDriftAlert' \in {polls, lastDriftAlert}
      BY <1>4 DEF CheckDrift, DriftRaises
    <2>4. QED
      BY <2>1, <2>2, <2>3
  <1>5. CASE MonitorRestarts
    BY <1>5 DEF MonitorRestarts, MonitorStart
  <1>6. CASE UNCHANGED monitorVars
    BY <1>6 DEF monitorVars
  <1>7. QED
    BY <1>1, <1>2, <1>3, <1>4, <1>5, <1>6 DEF MonitorNext

(* Every step of a poll keeps the flag current.                            *)
LEMMA FlagIsCurrentStep == ClockInv /\ [MonitorNext]_monitorVars => FlagIsCurrent'
PROOF
  <1> SUFFICES ASSUME ClockInv, [MonitorNext]_monitorVars
      PROVE  FlagIsCurrent'
    OBVIOUS
  <1> USE DEF ClockInv, ClockTypes, FlagIsCurrent, ReadClockStatus
  <1>1. CASE Measure
    <2>1. /\ measured'.reliable \in BOOLEAN
          /\ UNCHANGED <<flagFile, prevReliable, wrote>>
          /\ monitorAt = "sleep" /\ monitorAt' \in {"publish", "open", "drift"}
          /\ monitorAt' = "drift" => (measured'.reliable <=> prevReliable)
      BY <1>1 DEF Measure
    <2>2. QED
      BY <2>1
  <1>2. CASE MeasureRaises \/ PublishUnreliable \/ PublishRaises
    BY <1>2 DEF MeasureRaises, PublishUnreliable, PublishRaises
  <1>3. CASE OpenFlag \/ WriteFails
    BY <1>3 DEF OpenFlag, WriteFails
  <1>4. CASE WriteFlag
    BY <1>4 DEF WriteFlag, Flag
  <1>5. CASE CheckDrift \/ DriftRaises
    BY <1>5 DEF CheckDrift, DriftRaises
  <1>6. CASE MonitorRestarts
    BY <1>6 DEF MonitorRestarts, MonitorStart
  <1>7. CASE UNCHANGED monitorVars
    BY <1>7 DEF monitorVars
  <1>8. QED
    BY <1>1, <1>2, <1>3, <1>4, <1>5, <1>6, <1>7 DEF MonitorNext

(* Every step of a poll keeps the cooldown running, polls that fail too.   *)
LEMMA CooldownHoldsStep == ClockInv /\ [MonitorNext]_monitorVars => CooldownHolds'
PROOF
  <1> SUFFICES ASSUME ClockInv, [MonitorNext]_monitorVars
      PROVE  CooldownHolds'
    OBVIOUS
  <1> USE ClockAssumption DEF ClockInv, ClockTypes, CooldownHolds
  <1>1. CASE Measure \/ MeasureRaises
    BY <1>1 DEF Measure, MeasureRaises
  <1>2. CASE PublishUnreliable \/ PublishRaises
    BY <1>2 DEF PublishUnreliable, PublishRaises
  <1>3. CASE OpenFlag \/ WriteFlag \/ WriteFails
    BY <1>3 DEF OpenFlag, WriteFlag, WriteFails
  <1>4. CASE CheckDrift
    BY <1>4 DEF CheckDrift
  <1>5. CASE DriftRaises
    BY <1>5 DEF DriftRaises
  <1>6. CASE MonitorRestarts
    BY <1>6 DEF MonitorRestarts, MonitorStart
  <1>7. CASE UNCHANGED monitorVars
    BY <1>7 DEF monitorVars
  <1>8. QED
    BY <1>1, <1>2, <1>3, <1>4, <1>5, <1>6, <1>7 DEF MonitorNext

(* A drift that is alerted again comes at least the cooldown later.        *)
LEMMA AlertsAreSpaced == ClockInv /\ [MonitorNext]_monitorVars => DriftAlertIsSpaced
PROOF
  <1> SUFFICES ASSUME ClockInv, [MonitorNext]_monitorVars
      PROVE  DriftAlertIsSpaced
    OBVIOUS
  <1> USE ClockAssumption DEF ClockInv, ClockTypes, CooldownHolds, DriftAlertIsSpaced
  <1>1. CASE CheckDrift
    BY <1>1 DEF CheckDrift
  <1>2. CASE MonitorRestarts
    BY <1>2 DEF MonitorRestarts, MonitorStart
  <1>3. CASE UNCHANGED lastDriftAlert
    BY <1>3
  <1>4. QED
    BY <1>1, <1>2, <1>3 DEF MonitorNext, Measure, MeasureRaises, PublishUnreliable,
       PublishRaises, OpenFlag, WriteFlag, WriteFails, DriftRaises, monitorVars

(* After every step of a poll the flag a pod reads is what the monitor     *)
(* last saw, if it could be written, and a drift that goes on is not       *)
(* alerted again within the cooldown, for any cooldown and any exceptions  *)
(* (clock_monitor.py).                                                     *)
THEOREM ClockIsTold == MonitorSpec => ClockIsReported
PROOF
  <1>1. ClockInv /\ [MonitorNext]_monitorVars => ClockInv'
    BY ClockTypesStep, FlagIsCurrentStep, CooldownHoldsStep DEF ClockInv
  <1>2. ClockInv => FlagFollowsClock
    BY DEF ClockInv, FlagIsCurrent, FlagFollowsClock
  <1>3. MonitorSpec => []ClockInv
    BY ClockInvInit, <1>1, PTL DEF MonitorSpec
  <1>4. ClockInv /\ ClockInv' /\ [MonitorNext]_monitorVars
          => [FlagFollowsClock' /\ DriftAlertIsSpaced]_monitorVars
    <2>1. ClockInv' => FlagFollowsClock'
      BY <1>2, PTL
    <2>2. QED
      BY <2>1, AlertsAreSpaced
  <1>5. QED
    BY <1>3, <1>4, PTL DEF MonitorSpec, ClockIsReported

-----------------------------------------------------------------------------
(* The alert deduplicator.  The last alert of a cell is the entry of its   *)
(* key; what an entry does not remember any more is older than the window. *)
Cell(p) == p \div CellSize

(* Places of one cell are closer than a cell is wide.                      *)
LEMMA CellIsNear ==
  ASSUME NEW p \in Nat, NEW q \in Nat, Cell(p) = Cell(q)
  PROVE  Distance(p, q) <= SuppressionRadius
PROOF
  <1>1. /\ CellSize \in Nat \ {0} /\ SuppressionRadius \in Nat
        /\ CellSize <= SuppressionRadius
    BY DedupAssumption
  <1>2. /\ CellSize * Cell(p) <= p /\ p < CellSize * Cell(p) + CellSize
        /\ CellSize * Cell(q) <= q /\ q < CellSize * Cell(q) + CellSize
        /\ CellSize * Cell(p) \in Int
    BY <1>1 DEF Cell
  <1>3. QED
    BY <1>1, <1>2 DEF Distance

ShownAlert == [category : Category, place : Place, at : Nat]
DefectEntry == [place : Place, first_seen : Nat, count : Nat] \cup {NoEntry}
KeyOf(alert) == <<alert.category, Cell(alert.place)>>

DedupTypes ==
  /\ alertTime \in Nat /\ suppressionWindow \in Nat
  /\ activeDefect \in [Key -> DefectEntry]
  /\ shown \in Seq(ShownAlert) /\ shortest \in Seq(Nat) /\ Len(shortest) = Len(shown)

(* Alert i is still the one its key stands for.                            *)
Remembered(i) ==
  LET entry == activeDefect[KeyOf(shown[i])]
  IN entry # NoEntry /\ entry.place = shown[i].place /\ entry.first_seen = shown[i].at

(* Alert i came longer ago than any window since then.                     *)
Outlived(i) == alertTime - shown[i].at > shortest[i]

DedupInv ==
  /\ DedupTypes
  /\ \A i \in DOMAIN shown : shortest[i] <= suppressionWindow /\ (Remembered(i) \/ Outlived(i))
  /\ RepeatsAreSuppressed

(* At the start nothing was shown.                                         *)
LEMMA DedupInvInit == DedupInit => DedupInv
PROOF
  <1> SUFFICES ASSUME DedupInit PROVE DedupInv
    OBVIOUS
  <1>1. Head(SuppressionWindows) \in Nat
    BY DedupAssumption, HeadTailProperties
  <1>2. shown = <<>> /\ shortest = <<>> /\ Len(shown) = 0 /\ Len(shortest) = 0
        /\ shown \in Seq(ShownAlert) /\ shortest \in Seq(Nat) /\ DOMAIN shown = {}
    BY EmptySeq DEF DedupInit
  <1>3. NoEntry \in DefectEntry
    BY DEF DefectEntry
  <1>4. activeDefect \in [Key -> DefectEntry]
    BY <1>3 DEF DedupInit
  <1>5. DedupTypes
    BY <1>1, <1>2, <1>4 DEF DedupTypes, DedupInit
  <1>6. QED
    BY <1>2, <1>5 DEF DedupInv, RepeatsAreSuppressed

(* The key of a shown alert is one.                                        *)
LEMMA KeysOfShown ==
  ASSUME DedupTypes, NEW i \in DOMAIN shown
  PROVE  /\ shown[i] \in ShownAlert /\ shortest[i] \in Nat /\ i \in DOMAIN shortest
         /\ KeyOf(shown[i]) \in Key /\ activeDefect[KeyOf(shown[i])] \in DefectEntry
PROOF
  <1>1. DOMAIN shown = 1..Len(shown) /\ DOMAIN shortest = 1..Len(shown)
    BY LenProperties DEF DedupTypes
  <1>2. shown[i] \in ShownAlert /\ shortest[i] \in Nat
    BY <1>1, ElementOfSeq DEF DedupTypes
  <1>3. shown[i].category \in Category /\ shown[i].place \in Place
    BY <1>2 DEF ShownAlert
  <1>4. KeyOf(shown[i]) \in Key
    BY <1>3 DEF KeyOf, Key, Cell
  <1>5. QED
    BY <1>1, <1>2, <1>4 DEF DedupTypes

(* An alert that is remembered and not outlived suppresses its repeats.    *)
LEMMA RememberedSuppresses ==
  ASSUME DedupInv, NEW i \in DOMAIN shown, NEW c \in Category, NEW p \in Place,
         Suppressing(c, p) = {}, shown[i].category = c,
         Distance(shown[i].place, p) <= SuppressionRadius
  PROVE  Outlived(i)
PROOF
  <1>1. CASE Remembered(i)
    <2> DEFINE k == KeyOf(shown[i])
    <2>1. /\ shown[i] \in ShownAlert /\ shortest[i] \in Nat /\ k \in Key
      BY KeysOfShown DEF DedupInv
    <2>2. /\ activeDefect[k] # NoEntry /\ activeDefect[k].place = shown[i].place
          /\ activeDefect[k].first_seen = shown[i].at
      BY <1>1 DEF Remembered
    <2>3. k[1] = c
      BY DEF KeyOf
    <2> HIDE DEF k
    <2>4. shown[i].place \in Nat /\ p \in Nat /\ shown[i].at \in Nat
      BY <2>1, DedupAssumption DEF ShownAlert
    <2>5. Distance(p, shown[i].place) <= SuppressionRadius
      BY <2>4 DEF Distance
    <2>6. ~(alertTime - shown[i].at <= suppressionWindow)
      BY <2>1, <2>2, <2>3, <2>5 DEF Suppressing
    <2>7. alertTime \in Nat /\ suppressionWindow \in Nat /\ shortest[i] <= suppressionWindow
      BY DEF DedupInv, DedupTypes
    <2>8. QED
      BY <2>1, <2>4, <2>6, <2>7 DEF Outlived
  <1>2. QED
    BY <1>1 DEF DedupInv

(* An alert that is counted is the repeat of one that stays remembered.    *)
LEMMA SuppressStep ==
  ASSUME DedupInv, NEW c \in Category, NEW p \in Place, SuppressDefect(c, p)
  PROVE  DedupInv'
PROOF
  <1>1. PICK k \in Suppressing(c, p) :
          activeDefect' = [activeDefect EXCEPT ![k].count = @ + 1]
    BY DEF SuppressDefect
  <1>2. UNCHANGED <<alertTime, suppressionWindow, shown, shortest>>
    BY DEF SuppressDefect
  <1>3. k \in Key /\ activeDefect[k] # NoEntry
    BY <1>1 DEF Suppressing
  <1>4. activeDefect \in [Key -> DefectEntry]
    BY DEF DedupInv, DedupTypes
  <1>5. activeDefect[k] \in [place : Place, first_seen : Nat, count : Nat]
    BY <1>3, <1>4 DEF DefectEntry
  <1>6. [activeDefect[k] EXCEPT !.count = @ + 1] \in [place : Place, first_seen : Nat, count : Nat]
    BY <1>5
  <1>7. activeDefect' \in [Key -> DefectEntry]
    BY <1>1, <1>3, <1>4, <1>6 DEF DefectEntry
  <1>8. \A e \in [place : Place, first_seen : Nat, count : Nat] : e # NoEntry
    BY DedupAssumption DEF NoEntry
  <1>9. \A m \in Key :
          /\ activeDefect[m] # NoEntry => activeDefect'[m] # NoEntry
          /\ activeDefect'[m].place = activeDefect[m].place
          /\ activeDefect'[m].first_seen = activeDefect[m].first_seen
    <2> SUFFICES ASSUME NEW m \in Key
        PROVE  /\ activeDefect[m] # NoEntry => activeDefect'[m] # NoEntry
               /\ activeDefect'[m].place = activeDefect[m].place
               /\ activeDefect'[m].first_seen = activeDefect[m].first_seen
      OBVIOUS
    <2>1. CASE m = k
      <3>1. activeDefect'[m] = [activeDefect[k] EXCEPT !.count = @ + 1]
        BY <2>1, <1>1, <1>3, <1>4
      <3>2. QED
        BY <3>1, <2>1, <1>5, <1>6, <1>8
    <2>2. CASE m # k
      BY <2>2, <1>1, <1>4
    <2>3. QED
      BY <2>1, <2>2
  <1>10. DedupTypes'
    BY <1>2, <1>7 DEF DedupInv, DedupTypes
  <1>11. ASSUME NEW i \in DOMAIN shown PROVE Remembered(i) => Remembered(i)'
    <2>1. KeyOf(shown[i]) \in Key
      BY KeysOfShown DEF DedupInv
    <2>2. QED
      BY <2>1, <1>2, <1>9 DEF Remembered, KeyOf, Cell
  <1>12. \A i : Outlived(i)' <=> Outlived(i)
    BY <1>2 DEF Outlived
  <1>13. QED
    BY <1>2, <1>10, <1>11, <1>12 DEF DedupInv, RepeatsAreSuppressed

(* An alert that is shown is no repeat, and forgets none that could still  *)
(* suppress.                                                               *)
LEMMA ShowStep ==
  ASSUME DedupInv, NEW c \in Category, NEW p \in Place, ShowDefect(c, p)
  PROVE  DedupInv'
PROOF
  <1>0. PICK n \in Nat : n = Len(shown)
    BY LenProperties DEF DedupInv, DedupTypes
  <1> DEFINE alert == [category |-> c, place |-> p, at |-> alertTime]
             entry == [place |-> p, first_seen |-> alertTime, count |-> 0]
             key == <<c, p \div CellSize>>
  <1>1. /\ Suppressing(c, p) = {} /\ activeDefect' = [activeDefect EXCEPT ![key] = entry]
        /\ shown' = Append(shown, alert) /\ shortest' = Append(shortest, suppressionWindow)
        /\ UNCHANGED <<alertTime, suppressionWindow>>
    BY DEF ShowDefect
  <1>2. /\ alertTime \in Nat /\ suppressionWindow \in Nat /\ activeDefect \in [Key -> DefectEntry]
        /\ shown \in Seq(ShownAlert) /\ shortest \in Seq(Nat) /\ Len(shortest) = n /\ n \in Nat
    BY <1>0 DEF DedupInv, DedupTypes
  <1>3. alert \in ShownAlert /\ entry \in DefectEntry /\ entry # NoEntry /\ key \in Key
    <2>1. p \in Nat
      BY DedupAssumption
    <2>2. entry \in [place : Place, first_seen : Nat, count : Nat]
      BY <1>2
    <2>3. entry # NoEntry
      BY <2>1 DEF NoEntry
    <2>4. QED
      BY <1>2, <2>2, <2>3 DEF ShownAlert, DefectEntry, Key
  <1>4. KeyOf(alert) = key
    BY DEF KeyOf, Cell
  <1>5. alert.category = c /\ alert.place = p /\ alert.at = alertTime
        /\ entry.place = p /\ entry.first_seen = alertTime
    OBVIOUS
  <1>6. p \in Nat /\ key = <<c, Cell(p)>>
    BY DedupAssumption DEF Cell
  <1> HIDE DEF alert, entry, key
  <1>7. /\ shown' \in Seq(ShownAlert) /\ Len(shown') = n + 1 /\ shown'[n + 1] = alert
        /\ \A i \in 1..n : shown'[i] = shown[i]
    BY <1>0, <1>1, <1>2, <1>3, AppendProperties
  <1>8. /\ shortest' \in Seq(Nat) /\ Len(shortest') = n + 1 /\ shortest'[n + 1] = suppressionWindow
        /\ \A i \in 1..n : shortest'[i] = shortest[i]
    BY <1>0, <1>1, <1>2, AppendProperties
  <1>9. DOMAIN shown = 1..n /\ DOMAIN shown' = 1..(n + 1)
    BY <1>0, <1>2, <1>7, LenProperties
  <1>10. DedupTypes'
    BY <1>1, <1>2, <1>3, <1>7, <1>8 DEF DedupTypes
  <1>11. \A m \in Key : activeDefect'[m] = IF m = key THEN entry ELSE activeDefect[m]
    BY <1>1, <1>2
  <1>12. ASSUME NEW i \in 1..n
         PROVE  /\ shown[i] \in ShownAlert /\ shortest[i] \in Nat /\ KeyOf(shown[i]) \in Key
                /\ shortest[i] <= suppressionWindow
                /\ Remembered(i)' \/ Outlived(i)'
    <2>1. /\ shown[i] \in ShownAlert /\ shortest[i] \in Nat /\ KeyOf(shown[i]) \in Key
          /\ shortest[i] <= suppressionWindow /\ (Remembered(i) \/ Outlived(i))
      BY <1>9, KeysOfShown DEF DedupInv
    <2>2. Outlived(i)' <=> Outlived(i)
      BY <1>1, <1>7, <1>8 DEF Outlived
    <2>3. CASE KeyOf(shown[i]) = key
      <3>1. shown[i].category = c /\ Cell(shown[i].place) = Cell(p)
        BY <2>3, <1>6 DEF KeyOf
      <3>2. shown[i].place \in Nat
        BY <2>1, DedupAssumption DEF ShownAlert
      <3>3. Distance(shown[i].place, p) <= SuppressionRadius
        BY <3>1, <3>2, <1>6, CellIsNear
      <3>4. Outlived(i)
        BY <3>1, <3>3, <1>1, <1>9, RememberedSuppresses
      <3>5. QED
        BY <2>1, <2>2, <3>4
    <2>4. CASE KeyOf(shown[i]) # key
      <3>1. activeDefect'[KeyOf(shown[i])] = activeDefect[KeyOf(shown[i])]
        BY <2>1, <2>4, <1>11
      <3>2. shown'[i] = shown[i]
        BY <1>7
      <3>3. Remembered(i) => Remembered(i)'
        BY <3>1, <3>2 DEF Remembered, KeyOf, Cell
      <3>4. QED
        BY <2>1, <2>2, <3>3
    <2>5. QED
      BY <2>3, <2>4
  <1>13. Remembered(n + 1)'
    <2>1. shown'[n + 1] = alert /\ activeDefect'[key] = entry
      BY <1>3, <1>7, <1>11
    <2>2. activeDefect'[KeyOf(shown'[n + 1])] = entry
      BY <2>1, <1>4
    <2>3. /\ entry # NoEntry /\ entry.place = alert.place /\ entry.first_seen = alert.at
      BY <1>3, <1>5
    <2>4. QED
      BY <2>1, <2>2, <2>3 DEF Remembered, KeyOf, Cell
  <1>14. \A i \in DOMAIN shown' :
           shortest'[i] <= suppressionWindow' /\ (Remembered(i)' \/ Outlived(i)')
    <2>1. ASSUME NEW i \in 1..n
          PROVE  shortest'[i] <= suppressionWindow' /\ (Remembered(i)' \/ Outlived(i)')
      BY <1>1, <1>8, <1>12
    <2>2. shortest'[n + 1] <= suppressionWindow'
      BY <1>1, <1>2, <1>8
    <2>3. \A i \in 1..(n + 1) : i \in 1..n \/ i = n + 1
      BY <1>2
    <2>4. QED
      BY <1>9, <1>13, <2>1, <2>2, <2>3
  <1>15. RepeatsAreSuppressed'
    <2> SUFFICES ASSUME NEW i \in 1..(n + 1), NEW j \in 1..(n + 1), i < j,
                        shown'[i].category = shown'[j].category,
                        Distance(shown'[i].place, shown'[j].place) <= SuppressionRadius
        PROVE  shown'[j].at - shown'[i].at > shortest'[i]
      BY <1>9 DEF RepeatsAreSuppressed, Distance
    <2>1. i \in 1..n /\ (j \in 1..n \/ j = n + 1)
      BY <1>2
    <2>2. shown'[i] = shown[i] /\ shortest'[i] = shortest[i]
      BY <2>1, <1>7, <1>8
    <2>3. CASE j \in 1..n
      <3>1. shown'[j] = shown[j]
        BY <2>3, <1>7
      <3>2. QED
        BY <2>1, <2>2, <2>3, <3>1, <1>9 DEF DedupInv, RepeatsAreSuppressed
    <2>4. CASE j = n + 1
      <3>1. shown[i].category = c /\ Distance(shown[i].place, p) <= SuppressionRadius
        BY <2>2, <2>4, <1>5, <1>7
      <3>2. Outlived(i)
        BY <3>1, <2>1, <1>1, <1>9, RememberedSuppresses
      <3>3. QED
        BY <3>2, <2>2, <2>4, <1>5, <1>7 DEF Outlived
    <2>5. QED
      BY <2>1, <2>3, <2>4
  <1>16. QED
    BY <1>10, <1>14, <1>15 DEF DedupInv

(* A new window shortens what is remembered of the windows.                *)
LEMMA ReloadStep == DedupInv /\ ReloadSuppressionWindow => DedupInv'
PROOF
  <1> SUFFICES ASSUME DedupInv, ReloadSuppressionWindow
      PROVE  DedupInv'
    OBVIOUS
  <1>1. PICK w \in DOMAIN SuppressionWindows :
          /\ suppressionWindow' = SuppressionWindows[w]
          /\ shortest' = [j \in DOMAIN shortest |->
                            IF suppressionWindow' < shortest[j] THEN suppressionWindow' ELSE shortest[j]]
          /\ UNCHANGED <<alertTime, activeDefect, shown>>
    BY DEF ReloadSuppressionWindow
  <1>2. suppressionWindow' \in Nat
    BY <1>1, DedupAssumption, LenProperties, ElementOfSeq
  <1>3. /\ shortest \in Seq(Nat) /\ Len(shortest) = Len(shown) /\ shown \in Seq(ShownAlert)
    BY DEF DedupInv, DedupTypes
  <1>4. /\ DOMAIN shortest = 1..Len(shown) /\ DOMAIN shown = 1..Len(shown) /\ Len(shown) \in Nat
        /\ \A j \in 1..Len(shown) : shortest[j] \in Nat
    BY <1>3, LenProperties, ElementOfSeq
  <1>5. /\ DOMAIN shortest' = 1..Len(shown)
        /\ \A j \in 1..Len(shown) : /\ shortest'[j] \in Nat /\ shortest'[j] <= shortest[j]
                                    /\ shortest'[j] <= suppressionWindow'
    BY <1>1, <1>2, <1>4
  <1>6. shortest' \in Seq(Nat) /\ Len(shortest') = Len(shown)
    <2>1. shortest' = [j \in 1..Len(shown) |-> shortest'[j]]
      BY <1>1, <1>4
    <2>2. shortest' \in [1..Len(shown) -> Nat]
      BY <1>5, <2>1
    <2>3. shortest' \in Seq(Nat)
      BY <1>4, <2>2, SeqDef
    <2>4. QED
      BY <1>4, <1>5, <2>3, LenProperties
  <1>7. DedupTypes'
    BY <1>1, <1>2, <1>3, <1>6 DEF DedupInv, DedupTypes
  <1>8. \A i \in DOMAIN shown : shown[i].at \in Nat
    BY KeysOfShown DEF DedupInv, ShownAlert
  <1>9. \A i \in DOMAIN shown : /\ Remembered(i)' <=> Remembered(i)
                                /\ Outlived(i) => Outlived(i)'
    <2>1. alertTime \in Nat
      BY DEF DedupInv, DedupTypes
    <2>2. \A i \in DOMAIN shown : Outlived(i) => Outlived(i)'
      BY <1>1, <1>4, <1>5, <1>8, <2>1 DEF Outlived
    <2>3. QED
      BY <1>1, <2>2 DEF Remembered, KeyOf, Cell
  <1>10. RepeatsAreSuppressed'
    <2> SUFFICES ASSUME NEW i \in DOMAIN shown, NEW j \in DOMAIN shown, i < j,
                        shown[i].category = shown[j].category,
                        Distance(shown[i].place, shown[j].place) <= SuppressionRadius
        PROVE  shown[j].at - shown[i].at > shortest'[i]
      BY <1>1 DEF RepeatsAreSuppressed, Distance
    <2>1. shown[j].at - shown[i].at > shortest[i]
      BY DEF DedupInv, RepeatsAreSuppressed
    <2>2. QED
      BY <2>1, <1>4, <1>5, <1>8
  <1>11. QED
    BY <1>1, <1>4, <1>5, <1>7, <1>9, <1>10 DEF DedupInv

(* Time, advisories about maintenance and nothing leave the alerts alone.  *)
LEMMA OtherDedupStep ==
  DedupInv /\ UNCHANGED <<activeDefect, suppressionWindow, shown, shortest>>
           /\ alertTime' \in {alertTime, alertTime + 1} => DedupInv'
PROOF
  <1> SUFFICES ASSUME DedupInv, UNCHANGED <<activeDefect, suppressionWindow, shown, shortest>>,
                      alertTime' \in {alertTime, alertTime + 1}
      PROVE  DedupInv'
    OBVIOUS
  <1>1. alertTime \in Nat /\ DedupTypes'
    BY DEF DedupInv, DedupTypes
  <1>2. \A i \in DOMAIN shown : shown[i].at \in Nat /\ shortest[i] \in Nat
    BY KeysOfShown DEF DedupInv, ShownAlert
  <1>3. \A i \in DOMAIN shown : /\ Remembered(i)' <=> Remembered(i)
                                /\ Outlived(i) => Outlived(i)'
    <2>1. \A i \in DOMAIN shown : Outlived(i) => Outlived(i)'
      BY <1>1, <1>2 DEF Outlived
    <2>2. QED
      BY <2>1 DEF Remembered, KeyOf, Cell
  <1>4. RepeatsAreSuppressed'
    BY DEF DedupInv, RepeatsAreSuppressed, Distance
  <1>5. QED
    BY <1>1, <1>3, <1>4 DEF DedupInv

(* Of two alerts of a category within the radius both are shown only when  *)
(* more time is between them than the shortest window since the first, for *)
(* any places, cells that are not wider than the radius, and windows that  *)
(* change (alert_deduplicator.py).                                         *)
THEOREM RepeatsStaySuppressed == DedupSpec => []RepeatsAreSuppressed
PROOF
  <1>1. DedupInv /\ [DedupNext]_dedupVars => DedupInv'
    <2> SUFFICES ASSUME DedupInv, [DedupNext]_dedupVars
        PROVE  DedupInv'
      OBVIOUS
    <2>1. ASSUME NEW c \in Category, NEW p \in Place, SuppressDefect(c, p) \/ ShowDefect(c, p)
          PROVE  DedupInv'
      BY <2>1, SuppressStep, ShowStep
    <2>2. ASSUME NEW a \in AdvisedAsset, AdviseMaintenance(a)
          PROVE  DedupInv'
      BY <2>2, OtherDedupStep DEF AdviseMaintenance, defectVars
    <2>3. CASE ReloadSuppressionWindow
      BY <2>3, ReloadStep
    <2>4. CASE AlertTimePasses
      BY <2>4, OtherDedupStep DEF AlertTimePasses, defectVars
    <2>5. CASE UNCHANGED dedupVars
      BY <2>5, OtherDedupStep DEF dedupVars
    <2>6. QED
      BY <2>1, <2>2, <2>3, <2>4, <2>5 DEF DedupNext
  <1>2. DedupInv => RepeatsAreSuppressed
    BY DEF DedupInv
  <1>3. QED
    BY <1>1, <1>2, DedupInvInit, PTL DEF DedupSpec

-----------------------------------------------------------------------------
(* Least and greatest.                                                     *)

(* A set of naturals has a least element.                                  *)
LEMMA LeastOfNaturals ==
  ASSUME NEW I, I \subseteq Nat, I # {}
  PROVE  \E i \in I : \A j \in I : i <= j
PROOF
  <1>1. IsWellFoundedOn(OpToRel(<, Nat), Nat)
    BY NatLessThanWellFounded
  <1>2. PICK i \in I : \A j \in I : ~(<<j, i>> \in OpToRel(<, Nat))
    BY <1>1, WFMin
  <1>3. \A j \in I : ~(j < i)
    BY <1>2 DEF OpToRel
  <1>4. QED
    BY <1>3

(* A set of naturals below a bound has a greatest element.                 *)
LEMMA GreatestOfNaturals ==
  ASSUME NEW b \in Nat, NEW I, I \subseteq 0..b, I # {}
  PROVE  \E i \in I : \A j \in I : j <= i
PROOF
  <1> DEFINE J == {b - i : i \in I}
  <1>1. J \subseteq Nat /\ J # {}
    <2>1. \A i \in I : i \in 0..b
      OBVIOUS
    <2>2. \A i \in 0..b : b - i \in Nat
      OBVIOUS
    <2>3. QED
      BY <2>1, <2>2
  <1>2. PICK k \in J : \A j \in J : k <= j
    BY <1>1, LeastOfNaturals
  <1>3. PICK i \in I : k = b - i
    BY <1>2
  <1>4. \A j \in I : k <= b - j
    BY <1>2
  <1>5. QED
    BY <1>3, <1>4

(* Of indices with whole numbers there is a first with the greatest.       *)
LEMMA FirstGreatest ==
  ASSUME NEW n \in Nat, NEW D \in SUBSET (1..n), D # {}, NEW f, \A i \in D : f[i] \in Int
  PROVE  \E i \in D : \A j \in D : f[j] <= f[i] /\ (j < i => f[j] < f[i])
PROOF
  <1> DEFINE UpTo(m) == {i \in D : i <= m}
             First(m) == \E i \in UpTo(m) : \A j \in UpTo(m) : f[j] <= f[i] /\ (j < i => f[j] < f[i])
             Bad == {m \in 0..n : UpTo(m) # {} /\ ~First(m)}
  <1>bad. /\ \A m \in Bad : m \in 0..n /\ UpTo(m) # {} /\ ~First(m)
        /\ \A m \in 0..n : UpTo(m) # {} /\ m \notin Bad => First(m)
    OBVIOUS
  <1>index. \A i \in D : i \in 1..n
    OBVIOUS
  <1> HIDE DEF Bad
  <1>1. ASSUME Bad # {} PROVE FALSE
    <2>0. Bad \subseteq Nat
      <3>1. \A m \in 0..n : m \in Nat
        OBVIOUS
      <3>2. QED
        BY <3>1, <1>bad
    <2>1. PICK m \in Bad : \A k \in Bad : m <= k
      BY <1>1, <2>0, LeastOfNaturals
    <2>2. m \in 1..n
      <3>1. m \in 0..n /\ UpTo(m) # {}
        BY <2>1, <1>bad
      <3>2. PICK i \in D : i <= m
        BY <3>1
      <3>3. QED
        BY <3>1, <3>2, <1>index
    <2>3. CASE UpTo(m - 1) = {}
      <3>0. UpTo(m) # {}
        BY <2>1, <1>bad
      <3>1. UpTo(m) = {m}
        <4>1. \A i \in D : i <= m => i = m
          <5>1. \A i \in D : ~(i <= m - 1)
            BY <2>3
          <5>2. QED
            BY <5>1, <2>2, <1>index
        <4>2. QED
          BY <3>0, <4>1
      <3>2. m \in D /\ f[m] \in Int
        BY <3>1
      <3>3. First(m)
        BY <3>1, <3>2
      <3>4. QED
        BY <2>1, <3>3, <1>bad
    <2>4. CASE UpTo(m - 1) # {}
      <3>1. m - 1 \in 0..n /\ m - 1 \notin Bad
        BY <2>1, <2>2
      <3>2. PICK i \in UpTo(m - 1) :
              \A j \in UpTo(m - 1) : f[j] <= f[i] /\ (j < i => f[j] < f[i])
        BY <2>4, <3>1, <1>bad
      <3>3. \A j \in UpTo(m) : j \in UpTo(m - 1) \/ j = m
        BY <2>2
      <3>4. UpTo(m - 1) \subseteq UpTo(m) /\ i < m /\ i \in D
        <4>1. \A j \in D : j <= m - 1 => j <= m /\ j < m
          BY <2>2, <1>index
        <4>2. QED
          BY <4>1, <3>2
      <3>5. CASE m \in D /\ f[i] < f[m]
        <4>1. \A j \in UpTo(m) : f[j] <= f[m] /\ (j < m => f[j] < f[m])
          BY <3>2, <3>3, <3>4, <3>5
        <4>2. m \in UpTo(m)
          BY <2>2, <3>5
        <4>3. QED
          BY <2>1, <4>1, <4>2, <1>bad
      <3>6. CASE ~(m \in D /\ f[i] < f[m])
        <4>1. \A j \in UpTo(m) : f[j] <= f[i] /\ (j < i => f[j] < f[i])
          BY <2>2, <3>2, <3>3, <3>4, <3>6
        <4>2. QED
          BY <2>1, <3>2, <3>4, <4>1, <1>bad
      <3>7. QED
        BY <3>5, <3>6
    <2>5. QED
      BY <2>3, <2>4
  <1>2. UpTo(n) = D /\ n \in 0..n
    <2>1. \A i \in D : i <= n
      BY <1>index
    <2>2. UpTo(n) = D
      BY <2>1
    <2>3. QED
      BY <2>2
  <1>3. First(n)
    <2>1. UpTo(n) # {} /\ n \notin Bad
      BY <1>1, <1>2
    <2>2. QED
      BY <1>2, <2>1, <1>bad
  <1>4. QED
    BY <1>2, <1>3

-----------------------------------------------------------------------------
(* The latency monitor.  A trace that is there has not expired for any     *)
(* request that waits, and its spans came within its life.                 *)
SpansOfTrace(t) ==
  /\ DOMAIN traceStore[t] \subseteq Span
  /\ ~Stored(t) => DOMAIN traceStore[t] = {}
  /\ \A s \in DOMAIN traceStore[t] :
       /\ traceStore[t][s].start \in Nat /\ traceStore[t][s].at \in Nat
       /\ traceStore[t][s].at <= monitorTime
       /\ traceExpiry[t] <= traceStore[t][s].at + Ttl

LifeOfTrace(t) ==
  Stored(t) => /\ traceExpiry[t] <= monitorTime + Ttl
               /\ \A r \in requests : r <= traceExpiry[t]

LatencyInv ==
  /\ monitorTime \in Nat /\ requests \subseteq Nat
  /\ \A r \in requests : r <= monitorTime /\ monitorTime <= r + BodyTime
  /\ traceStore = [t \in Trace |-> traceStore[t]]
  /\ traceExpiry \in [Trace -> {NoTime} \cup Nat]
  /\ \A t \in Trace : SpansOfTrace(t) /\ LifeOfTrace(t)
  /\ MeasuredTogether

(* At the start there is no trace.                                         *)
LEMMA LatencyInvInit == LatencyInit => LatencyInv
PROOF
  <1> SUFFICES ASSUME LatencyInit PROVE LatencyInv
    OBVIOUS
  <1>1. DOMAIN <<>> = {}
    OBVIOUS
  <1>2. \A t \in Trace : SpansOfTrace(t) /\ LifeOfTrace(t)
    BY <1>1 DEF LatencyInit, SpansOfTrace, LifeOfTrace, Stored
  <1>3. MeasuredTogether
    BY LatencyAssumption
    DEF LatencyInit, NotMeasured, MeasuredTogether, TakenTogether, BreachHasStage
  <1>4. QED
    BY <1>2, <1>3 DEF LatencyInit, LatencyInv

(* A latency that is positive has a slowest stage: some step on the way    *)
(* from the first span to the last took time, and the first of the longest *)
(* is told.                                                                *)
LEMMA SlowestIsAStage ==
  ASSUME NEW spans, FirstSpan \in DOMAIN spans, LastSpan \in DOMAIN spans,
         \A s \in DOMAIN spans : spans[s].start \in Nat,
         spans[LastSpan].start - spans[FirstSpan].start > 0
  PROVE  SlowestStage(spans) \in Span \ {FirstSpan}
PROOF
  <1> DEFINE there == StagesOf(spans)
             start(i) == spans[SpanChain[i]].start
             later == {i \in there : \E j \in there : j < i}
             slow == {i \in later :
                        /\ StepTo(i, spans) > 0
                        /\ \A j \in later : /\ StepTo(j, spans) <= StepTo(i, spans)
                                            /\ j < i => StepTo(j, spans) < StepTo(i, spans)}
  <1>1. PICK n \in Nat : n = Len(SpanChain) /\ n > 1 /\ DOMAIN SpanChain = 1..n
    BY LatencyAssumption, LenProperties
  <1>2. there \subseteq 1..n /\ 1 \in there /\ n \in there
    BY <1>1 DEF StagesOf, FirstSpan, LastSpan
  <1>3. \A i \in there : start(i) \in Nat
    BY DEF StagesOf
  <1>4. start(n) > start(1)
    BY <1>1, <1>2, <1>3 DEF FirstSpan, LastSpan
  <1>5. later = {i \in there : i > 1}
    BY <1>2
  <1>6. ASSUME NEW i \in later
        PROVE  /\ StageBefore(i, spans) \in there /\ StageBefore(i, spans) < i
               /\ StepTo(i, spans) = start(i) - start(StageBefore(i, spans))
               /\ StepTo(i, spans) \in Int
    <2> DEFINE earlier == {k \in there : k < i}
    <2>1. earlier \subseteq 0..n /\ earlier # {}
      BY <1>2
    <2>2. \E j \in earlier : \A k \in earlier : k <= j
      BY <2>1, GreatestOfNaturals
    <2>3. \E j \in there : j < i /\ \A k \in there : k < i => k <= j
      BY <2>2
    <2>4. StageBefore(i, spans) \in there /\ StageBefore(i, spans) < i
      BY <2>3 DEF StageBefore
    <2>5. QED
      BY <2>4, <1>3 DEF StepTo
  <1> HIDE DEF there
  <1>7. \E i \in later : StepTo(i, spans) > 0
    <2> DEFINE R == {i \in there : start(i) > start(1)}
    <2>1. R \subseteq Nat /\ n \in R
      <3>1. \A i \in 1..n : i \in Nat
        OBVIOUS
      <3>2. QED
        BY <1>2, <1>4, <3>1
    <2>2. PICK i \in R : \A j \in R : i <= j
      BY <2>1, LeastOfNaturals
    <2>3. i \in later
      BY <1>2, <1>3, <1>5, <2>2
    <2>4. PICK j \in there : j = StageBefore(i, spans) /\ j < i
      BY <1>6, <2>3
    <2>5. start(j) <= start(1)
      BY <2>2, <2>4, <1>2, <1>3
    <2>6. start(i) > start(1) /\ {start(i), start(j), start(1)} \subseteq Nat
      BY <1>2, <1>3, <2>2
    <2> HIDE DEF start
    <2>7. StepTo(i, spans) = start(i) - start(j)
      BY <1>6, <2>3, <2>4
    <2>8. StepTo(i, spans) > 0
      BY <2>5, <2>6, <2>7
    <2>9. QED
      BY <2>3, <2>8
  <1>8. slow # {}
    <2> DEFINE f == [i \in later |-> StepTo(i, spans)]
    <2>1. later \in SUBSET (1..n) /\ later # {}
      BY <1>2, <1>7
    <2>2. \A i \in later : f[i] = StepTo(i, spans) /\ f[i] \in Int
      BY <1>6
    <2> HIDE DEF later, f
    <2>3. PICK i \in later : \A j \in later : f[j] <= f[i] /\ (j < i => f[j] < f[i])
      BY <2>1, <2>2, FirstGreatest
    <2>4. PICK k \in later : StepTo(k, spans) > 0
      BY <1>7
    <2>5. f[i] > 0
      BY <2>2, <2>3, <2>4
    <2>6. i \in slow
      BY <2>2, <2>3, <2>5
    <2>7. QED
      BY <2>6
  <1>9. SlowestStage(spans) = IF slow = {} THEN "unknown" ELSE SpanChain[CHOOSE i \in slow : TRUE]
    BY DEF SlowestStage, there
  <1> DEFINE slowest == CHOOSE i \in slow : TRUE
  <1>10. slowest \in slow
    BY <1>8
  <1>11. slowest \in there /\ slowest > 1
    BY <1>5, <1>10
  <1> HIDE DEF slowest, slow
  <1>12. slowest \in 1..n /\ slowest # 1 /\ SlowestStage(spans) = SpanChain[slowest]
    <2>1. slowest \in 1..n /\ slowest # 1
      BY <1>2, <1>11
    <2>2. QED
      BY <2>1, <1>8, <1>9 DEF slowest
  <1>13. SpanChain[slowest] # SpanChain[1]
    BY <1>1, <1>12, LatencyAssumption
  <1>14. QED
    BY <1>1, <1>12, <1>13 DEF Span, FirstSpan

(* The body of a request that waited: what it adds belongs to its trace.   *)
LEMMA BodyStep == LatencyInv /\ BodyArrives => LatencyInv'
PROOF
  <1> SUFFICES ASSUME LatencyInv, BodyArrives
      PROVE  LatencyInv'
    OBVIOUS
  <1>1. PICK r \in requests, t \in Trace, name \in Span, time \in StartTime :
          /\ requests' = requests \ {r} /\ ProcessSpan(t, name, time) /\ UNCHANGED monitorTime
    BY DEF BodyArrives
  <1> DEFINE spans == With(traceStore[t], name, time)
             latency == spans[LastSpan].start - spans[FirstSpan].start
  <1>2. /\ Ttl \in Nat /\ BodyTime \in Nat /\ SlaThreshold \in Nat /\ time \in Nat
        /\ monitorTime \in Nat /\ r \in Nat /\ r <= monitorTime /\ monitorTime <= r + BodyTime
    BY <1>1, LatencyAssumption DEF LatencyInv
  <1>3. SpansOfTrace(t) /\ LifeOfTrace(t) /\ traceExpiry[t] \in {NoTime} \cup Nat
    BY <1>1 DEF LatencyInv
  <1>4. /\ DOMAIN spans = DOMAIN traceStore[t] \cup {name}
        /\ spans[name] = [start |-> time, at |-> monitorTime]
        /\ \A s \in DOMAIN traceStore[t] : s # name => spans[s] = traceStore[t][s]
    BY DEF With
  <1> HIDE DEF spans
  <1>5. ASSUME NEW s \in DOMAIN spans
        PROVE  /\ s \in Span /\ spans[s].start \in Nat /\ spans[s].at \in Nat
               /\ spans[s].at <= monitorTime /\ monitorTime <= spans[s].at + Ttl + BodyTime
               /\ Stored(t) => traceExpiry[t] <= spans[s].at + Ttl
    <2>1. CASE s = name
      <3>1. spans[s].start = time /\ spans[s].at = monitorTime
        BY <2>1, <1>4
      <3>2. QED
        BY <2>1, <3>1, <1>2, <1>3 DEF LifeOfTrace
    <2>2. CASE s # name
      <3>1. s \in DOMAIN traceStore[t] /\ spans[s] = traceStore[t][s]
        BY <2>2, <1>4
      <3>2. Stored(t) /\ s \in Span
        BY <3>1, <1>3 DEF SpansOfTrace
      <3>3. traceExpiry[t] \in Nat /\ r <= traceExpiry[t]
        BY <3>2, <1>3, <1>1 DEF Stored, LifeOfTrace
      <3>4. /\ spans[s].start \in Nat /\ spans[s].at \in Nat /\ spans[s].at <= monitorTime
            /\ traceExpiry[t] <= spans[s].at + Ttl
        BY <3>1, <1>3 DEF SpansOfTrace
      <3>5. QED
        BY <3>2, <3>3, <3>4, <1>2
    <2>3. QED
      BY <2>1, <2>2
  <1>6. \A q \in requests' : q \in requests
    BY <1>1
  <1>7. /\ traceStore = [u \in Trace |-> traceStore[u]]
        /\ traceExpiry \in [Trace -> {NoTime} \cup Nat]
    BY DEF LatencyInv
  <1>8. ASSUME NEW u \in Trace, traceStore'[u] = traceStore[u], traceExpiry'[u] = traceExpiry[u]
        PROVE  SpansOfTrace(u)' /\ LifeOfTrace(u)'
    <2>1. SpansOfTrace(u) /\ LifeOfTrace(u)
      BY DEF LatencyInv
    <2>2. QED
      BY <2>1, <1>1, <1>6, <1>8 DEF SpansOfTrace, LifeOfTrace, Stored
  <1>9. CASE Resolves(name, spans)
    <2>1. /\ latest'.first = spans[FirstSpan].at /\ latest'.last = spans[LastSpan].at
          /\ latest'.latency = latency
          /\ latest'.slowest = IF latency > SlaThreshold THEN SlowestStage(spans) ELSE "unknown"
          /\ traceStore' = [traceStore EXCEPT ![t] = <<>>]
          /\ traceExpiry' = [traceExpiry EXCEPT ![t] = NoTime]
      BY <1>1, <1>9 DEF ProcessSpan, spans
    <2>2. FirstSpan \in DOMAIN spans /\ LastSpan \in DOMAIN spans
      BY <1>4, <1>9 DEF Resolves
    <2>3. TakenTogether'
      <3>1. spans[FirstSpan].at \in Nat /\ monitorTime <= spans[FirstSpan].at + Ttl + BodyTime
        BY <2>2, <1>5
      <3>2. spans[LastSpan].at \in Nat /\ spans[LastSpan].at <= monitorTime
        BY <2>2, <1>5
      <3>3. spans[LastSpan].at - spans[FirstSpan].at <= Ttl + BodyTime
        BY <3>1, <3>2, <1>2
      <3>4. QED
        BY <2>1, <3>3 DEF TakenTogether
    <2>4. BreachHasStage'
      <3> SUFFICES ASSUME latest'.latency > SlaThreshold
          PROVE  latest'.slowest \in Span \ {FirstSpan}
        BY DEF BreachHasStage
      <3>1. latency > SlaThreshold /\ latest'.slowest = SlowestStage(spans)
        BY <2>1
      <3>2. spans[LastSpan].start \in Nat /\ spans[FirstSpan].start \in Nat
        BY <2>2, <1>5
      <3>3. spans[LastSpan].start - spans[FirstSpan].start > 0
        BY <3>1, <3>2, <1>2
      <3>4. QED
        BY <3>1, <3>3, <2>2, <1>5, SlowestIsAStage
    <2>5. SpansOfTrace(t)' /\ LifeOfTrace(t)'
      <3>1. traceStore'[t] = <<>> /\ traceExpiry'[t] = NoTime /\ DOMAIN <<>> = {}
        BY <2>1, <1>7
      <3>2. QED
        BY <3>1 DEF SpansOfTrace, LifeOfTrace, Stored
    <2>6. \A u \in Trace : u # t => traceStore'[u] = traceStore[u] /\ traceExpiry'[u] = traceExpiry[u]
      BY <2>1, <1>7
    <2>7. /\ traceStore' = [u \in Trace |-> traceStore'[u]]
          /\ traceExpiry' \in [Trace -> {NoTime} \cup Nat]
      BY <2>1, <1>7
    <2>8. \A u \in Trace : SpansOfTrace(u)' /\ LifeOfTrace(u)'
      BY <2>5, <2>6, <1>8
    <2>9. QED
      BY <2>3, <2>4, <2>7, <2>8, <1>1, <1>2, <1>6 DEF LatencyInv, MeasuredTogether
  <1>10. CASE ~Resolves(name, spans)
    <2>1. /\ traceStore' = [traceStore EXCEPT ![t] = spans]
          /\ traceExpiry' = [traceExpiry EXCEPT ![t] = Expiry(t)]
          /\ UNCHANGED latest
      BY <1>1, <1>10 DEF ProcessSpan, spans
    <2>2. /\ Expiry(t) \in Nat /\ Expiry(t) <= monitorTime + Ttl
          /\ Stored(t) => Expiry(t) = traceExpiry[t]
          /\ ~Stored(t) => Expiry(t) = monitorTime + Ttl
      BY <1>2, <1>3 DEF Expiry, Stored, LifeOfTrace
    <2>3. traceStore'[t] = spans /\ traceExpiry'[t] = Expiry(t)
      BY <2>1, <1>7
    <2>4. \A s \in DOMAIN spans : Expiry(t) <= spans[s].at + Ttl
      <3>1. ASSUME ~Stored(t) PROVE DOMAIN spans = {name}
        BY <3>1, <1>3, <1>4 DEF SpansOfTrace
      <3>2. ~Stored(t) => \A s \in DOMAIN spans : spans[s].at = monitorTime
        BY <3>1, <1>4
      <3>3. QED
        BY <3>2, <2>2, <1>2, <1>5
    <2>5. Expiry(t) # NoTime
      BY <2>2 DEF NoTime
    <2>6. SpansOfTrace(t)'
      BY <2>3, <2>4, <2>5, <1>1, <1>5 DEF SpansOfTrace, Stored
    <2>7. LifeOfTrace(t)'
      <3>1. \A q \in requests : q <= Expiry(t)
        <4>1. ~Stored(t) => \A q \in requests : q <= Expiry(t)
          BY <2>2, <1>2 DEF LatencyInv
        <4>2. Stored(t) => \A q \in requests : q <= Expiry(t)
          BY <2>2, <1>3 DEF LifeOfTrace
        <4>3. QED
          BY <4>1, <4>2
      <3>2. QED
        BY <3>1, <2>2, <2>3, <1>1, <1>6 DEF LifeOfTrace
    <2>8. \A u \in Trace : u # t => traceStore'[u] = traceStore[u] /\ traceExpiry'[u] = traceExpiry[u]
      BY <2>1, <1>7
    <2>9. /\ traceStore' = [u \in Trace |-> traceStore'[u]]
          /\ traceExpiry' \in [Trace -> {NoTime} \cup Nat]
      BY <2>1, <2>2, <1>7
    <2>10. \A u \in Trace : SpansOfTrace(u)' /\ LifeOfTrace(u)'
      BY <2>6, <2>7, <2>8, <1>8
    <2>11. MeasuredTogether'
      BY <2>1 DEF LatencyInv, MeasuredTogether, TakenTogether, BreachHasStage
    <2>12. QED
      BY <2>9, <2>10, <2>11, <1>1, <1>2, <1>6 DEF LatencyInv
  <1>11. QED
    BY <1>9, <1>10

(* A request that arrives evicts what has expired for it.                  *)
LEMMA RequestStep == LatencyInv /\ RequestArrives => LatencyInv'
PROOF
  <1> SUFFICES ASSUME LatencyInv, RequestArrives
      PROVE  LatencyInv'
    OBVIOUS
  <1>1. /\ requests' = requests \cup {monitorTime} /\ UNCHANGED <<monitorTime, latest>>
        /\ traceStore' = [t \in Trace |-> IF Expired(t) THEN <<>> ELSE traceStore[t]]
        /\ traceExpiry' = [t \in Trace |-> IF Expired(t) THEN NoTime ELSE traceExpiry[t]]
    BY DEF RequestArrives
  <1>2. monitorTime \in Nat /\ Ttl \in Nat /\ BodyTime \in Nat
    BY LatencyAssumption DEF LatencyInv
  <1>3. ASSUME NEW t \in Trace
        PROVE  SpansOfTrace(t)' /\ LifeOfTrace(t)'
    <2>1. SpansOfTrace(t) /\ LifeOfTrace(t) /\ traceExpiry[t] \in {NoTime} \cup Nat
      BY DEF LatencyInv
    <2>2. CASE Expired(t)
      <3>1. traceStore'[t] = <<>> /\ traceExpiry'[t] = NoTime /\ DOMAIN <<>> = {}
        BY <1>1, <2>2
      <3>2. QED
        BY <3>1 DEF SpansOfTrace, LifeOfTrace, Stored
    <2>3. CASE ~Expired(t)
      <3>1. traceStore'[t] = traceStore[t] /\ traceExpiry'[t] = traceExpiry[t]
        BY <1>1, <2>3
      <3>2. Stored(t) => traceExpiry[t] \in Nat /\ monitorTime <= traceExpiry[t]
        BY <2>1, <2>3, <1>2 DEF Expired, Stored
      <3>3. SpansOfTrace(t)'
        BY <3>1, <2>1, <1>1 DEF SpansOfTrace, Stored
      <3>4. LifeOfTrace(t)'
        BY <3>1, <3>2, <2>1, <1>1 DEF LifeOfTrace, Stored
      <3>5. QED
        BY <3>3, <3>4
    <2>4. QED
      BY <2>2, <2>3
  <1>4. traceExpiry' \in [Trace -> {NoTime} \cup Nat] /\ traceStore' = [t \in Trace |-> traceStore'[t]]
    BY <1>1 DEF LatencyInv
  <1>5. MeasuredTogether'
    BY <1>1 DEF LatencyInv, MeasuredTogether, TakenTogether, BreachHasStage
  <1>6. QED
    BY <1>1, <1>2, <1>3, <1>4, <1>5 DEF LatencyInv

(* A latency is measured between spans that came no further apart than the *)
(* life of a trace and the longest wait for a body, and a breach has a     *)
(* stage that took time, for any chain of spans, traces, requests and      *)
(* times (latency_monitor.py).                                             *)
THEOREM LatenciesAreReal == LatencySpec => []MeasuredTogether
PROOF
  <1>1. LatencyInv /\ MonitorTimePasses => LatencyInv'
    <2> SUFFICES ASSUME LatencyInv, MonitorTimePasses
        PROVE  LatencyInv'
      OBVIOUS
    <2>1. /\ monitorTime' = monitorTime + 1 /\ \A r \in requests : monitorTime < r + BodyTime
          /\ UNCHANGED <<traceStore, traceExpiry, requests, latest>>
      BY DEF MonitorTimePasses
    <2>2. monitorTime \in Nat /\ Ttl \in Nat /\ BodyTime \in Nat /\ requests \subseteq Nat
      BY LatencyAssumption DEF LatencyInv
    <2>3. ASSUME NEW t \in Trace
          PROVE  SpansOfTrace(t)' /\ LifeOfTrace(t)'
      <3>1. SpansOfTrace(t) /\ LifeOfTrace(t) /\ traceExpiry[t] \in {NoTime} \cup Nat
        BY DEF LatencyInv
      <3>2. SpansOfTrace(t)'
        BY <3>1, <2>1, <2>2 DEF SpansOfTrace, Stored
      <3>3. LifeOfTrace(t)'
        BY <3>1, <2>1, <2>2 DEF LifeOfTrace, Stored
      <3>4. QED
        BY <3>2, <3>3
    <2>4. MeasuredTogether'
      BY <2>1 DEF LatencyInv, MeasuredTogether, TakenTogether, BreachHasStage
    <2>5. \A r \in requests : r <= monitorTime' /\ monitorTime' <= r + BodyTime
      BY <2>1, <2>2 DEF LatencyInv
    <2>6. QED
      BY <2>1, <2>2, <2>3, <2>4, <2>5 DEF LatencyInv
  <1>2. LatencyInv /\ UNCHANGED latencyVars => LatencyInv'
    <2> SUFFICES ASSUME LatencyInv, UNCHANGED latencyVars
        PROVE  LatencyInv'
      OBVIOUS
    <2>1. UNCHANGED <<monitorTime, traceStore, traceExpiry, requests, latest>>
      BY DEF latencyVars
    <2>2. QED
      BY <2>1 DEF LatencyInv, SpansOfTrace, LifeOfTrace, Stored, MeasuredTogether, TakenTogether,
                  BreachHasStage
  <1>3. LatencyInv /\ [LatencyNext]_latencyVars => LatencyInv'
    BY <1>1, <1>2, BodyStep, RequestStep DEF LatencyNext
  <1>4. LatencyInv => MeasuredTogether
    BY DEF LatencyInv
  <1>5. QED
    BY <1>3, <1>4, LatencyInvInit, PTL DEF LatencySpec

-----------------------------------------------------------------------------
(* Authentication.                                                         *)

(* Each critical action is permitted by one rule of its role alone.        *)
LEMMA RulesOfOwners ==
  ASSUME NEW i \in DOMAIN Rules, NEW method, NEW path \in DOMAIN Owner,
         Matches(Rules[i], method, path)
  PROVE  Rules[i][3] = {Owner[path]}
PROOF
  <1>1. i \in 1..19
    BY DEF Rules
  <1>2. path \in {"advisories", "acknowledge", "rollback", "lineage"}
    BY DEF Owner
  <1>3. Rules[i][2] = path \/ (Rules[i][2] = "models" /\ path = "rollback")
    BY <1>2 DEF Matches
  <1>4. /\ Rules[i][2] = "advisories" => Rules[i][3] = {OC}
        /\ Rules[i][2] = "acknowledge" => Rules[i][3] = {SO}
        /\ Rules[i][2] \in {"rollback", "models"} => Rules[i][3] = {ET}
        /\ Rules[i][2] = "lineage" => Rules[i][3] = {GO}
    BY <1>1 DEF Rules
  <1>5. QED
    BY <1>2, <1>3, <1>4 DEF Owner

(* Who may take a critical action has the role that owns it.               *)
LEMMA PermittedIsOwner ==
  ASSUME NEW method, NEW path \in DOMAIN Owner, NEW roles, IsPermitted(method, path, roles)
  PROVE  Owner[path] \in roles
PROOF
  <1> DEFINE matching == {i \in DOMAIN Rules : Matches(Rules[i], method, path)}
  <1>1. matching # {} /\ roles \cap Rules[Min(matching)][3] # {}
    BY DEF IsPermitted, RequiredRoles
  <1>2. matching \subseteq Nat
    BY DEF Rules
  <1>3. \E i \in matching : \A j \in matching : i <= j
    BY <1>1, <1>2, LeastOfNaturals
  <1>4. Min(matching) \in matching
    BY <1>3 DEF Min
  <1>5. Rules[Min(matching)][3] = {Owner[path]}
    BY <1>4, RulesOfOwners
  <1>6. QED
    BY <1>1, <1>5

(* The decision about a request, and what it must be.                      *)
Decision ==
  [at : {"pool", "write", "served"}, path : AskedPath, roles : AskedRoles, permitted : BOOLEAN,
   age : Int, failed : BOOLEAN]
Asking == [at : {"quiet", "token", "refresh"}] \cup Decision

Sound(d) ==
  /\ d.failed \/ d.age <= KeysTtl + 2 * FetchTime
  /\ d.permitted /\ d.path \in DOMAIN Owner => Owner[d.path] \in d.roles
  /\ d.at = "served" => d.permitted

Refreshing ==
  [at : {"free", "sleep", "fetch", "store"}, since : Int, answer : {NoKeys} \cup Nat]

AuthTypes ==
  /\ authTime \in Nat /\ keys \in {NoKeys} \cup Nat /\ expires \in Nat
  /\ syncSince \in {NotBlocked} \cup Nat
  /\ refresher \in [Refresher -> Refreshing] /\ asked \in [Client -> Asking]

(* Keys live no longer than the cache and two fetches after their answer.  *)
CacheIsFresh ==
  IF keys = NoKeys THEN expires = 0 ELSE expires <= keys + KeysTtl + 2 * FetchTime

LoopIsPrompt == syncSince # NotBlocked => syncSince <= authTime /\ authTime <= syncSince + FetchTime

(* A fetch takes its time, and an answer waits for one refresh at most.    *)
ThreadIsPrompt(r) ==
  /\ refresher[r].at = "fetch" =>
       refresher[r].since \in Nat /\ refresher[r].since <= authTime
         /\ authTime <= refresher[r].since + FetchTime
  /\ refresher[r].at = "store" =>
       /\ refresher[r].answer \in Nat
       /\ syncSince = NotBlocked => authTime <= refresher[r].answer + 2 * FetchTime
       /\ syncSince # NotBlocked => syncSince <= refresher[r].answer + FetchTime

(* The loop is blocked for one request, and decisions are sound.           *)
RequestsAreSound ==
  /\ \A c \in Client : asked[c] \in Decision => Sound(asked[c])
  /\ \A c \in Client : asked[c].at = "refresh" => syncSince # NotBlocked
  /\ \A c, d \in Client : asked[c].at = "refresh" /\ asked[d].at = "refresh" => c = d

AuthInv ==
  /\ AuthTypes /\ CacheIsFresh /\ LoopIsPrompt
  /\ \A r \in Refresher : ThreadIsPrompt(r)
  /\ RequestsAreSound

(* At the start there are no keys and no requests.                         *)
LEMMA AuthInvInit == AuthInit => AuthInv
PROOF
  <1> SUFFICES ASSUME AuthInit PROVE AuthInv
    OBVIOUS
  <1>1. Free \in Refreshing /\ Free.at = "free"
    BY DEF Free, Refreshing
  <1>2. Quiet \in Asking /\ Quiet \notin Decision /\ Quiet.at = "quiet"
    BY DEF Quiet, Asking, Decision
  <1>3. AuthTypes
    BY <1>1, <1>2 DEF AuthInit, AuthTypes
  <1>4. \A r \in Refresher : ThreadIsPrompt(r)
    BY <1>1 DEF AuthInit, ThreadIsPrompt
  <1>5. RequestsAreSound
    BY <1>2 DEF AuthInit, RequestsAreSound
  <1>6. QED
    BY <1>3, <1>4, <1>5 DEF AuthInit, AuthInv, CacheIsFresh, LoopIsPrompt

(* The roots of what a request may become.                                 *)
LEMMA AskingKinds ==
  /\ Quiet \in Asking /\ Quiet.at = "quiet" /\ Quiet \notin Decision
  /\ \A a \in Asking : a \in Decision <=> a.at \in {"pool", "write", "served"}
PROOF
  <1>1. Quiet \in [at : {"quiet", "token", "refresh"}] /\ Quiet.at = "quiet"
    BY DEF Quiet
  <1>2. \A a \in [at : {"quiet", "token", "refresh"}] : a.at \in {"quiet", "token", "refresh"}
    OBVIOUS
  <1>3. \A a \in Decision : a.at \in {"pool", "write", "served"}
    BY DEF Decision
  <1>4. QED
    BY <1>1, <1>2, <1>3 DEF Asking

(* A request that gets a sound record leaves the others as they are.       *)
LEMMA OneRequestMoves ==
  ASSUME AuthTypes, RequestsAreSound, NEW c \in Client, NEW a \in Asking,
         asked' = [asked EXCEPT ![c] = a], a \in Decision => Sound(a),
         a.at # "refresh",
         \/ syncSince' = syncSince
         \/ syncSince' = NotBlocked /\ asked[c].at = "refresh"
  PROVE  asked' \in [Client -> Asking] /\ RequestsAreSound'
PROOF
  <1>1. asked \in [Client -> Asking]
    BY DEF AuthTypes
  <1>2. \A d \in Client : asked'[d] = IF d = c THEN a ELSE asked[d]
    BY <1>1
  <1>3. asked' \in [Client -> Asking]
    BY <1>1
  <1>4. \A d \in Client : asked'[d] \in Decision => Sound(asked'[d])
    BY <1>2 DEF RequestsAreSound
  <1>5. \A d \in Client : asked'[d].at = "refresh" => d # c /\ asked[d].at = "refresh"
    BY <1>2
  <1>6. QED
    BY <1>3, <1>4, <1>5 DEF RequestsAreSound, Decision, Sound, Owner

(* What jwt.decode and the matrix make of a request is sound, if the keys  *)
(* were fresh or their refresh failed.                                     *)
LEMMA DecodedIsSound ==
  ASSUME NEW c \in Client, NEW k \in Int, NEW missed \in BOOLEAN, authTime \in Nat,
         Decoded(c, k, missed), missed \/ authTime - k <= KeysTtl + 2 * FetchTime
  PROVE  \E a \in Asking : /\ asked' = [asked EXCEPT ![c] = a]
                           /\ a \in Decision => Sound(a)
                           /\ a.at # "refresh"
PROOF
  <1>1. CASE asked' = [asked EXCEPT ![c] = Quiet]
    BY <1>1, AskingKinds
  <1>2. ASSUME NEW m \in AskedMethod, NEW p \in AskedPath, NEW rs \in AskedRoles,
               asked' = [asked EXCEPT ![c] =
                 [at |-> "pool", path |-> p, roles |-> rs, permitted |-> IsPermitted(m, p, rs),
                  age |-> authTime - k, failed |-> missed]]
        PROVE  \E a \in Asking : /\ asked' = [asked EXCEPT ![c] = a]
                                 /\ a \in Decision => Sound(a)
                                 /\ a.at # "refresh"
    <2> DEFINE d == [at |-> "pool", path |-> p, roles |-> rs, permitted |-> IsPermitted(m, p, rs),
                     age |-> authTime - k, failed |-> missed]
    <2>1. IsPermitted(m, p, rs) \in BOOLEAN
      BY DEF IsPermitted
    <2>2. d \in Decision
      BY <2>1 DEF Decision
    <2>3. /\ d.failed = missed /\ d.age = authTime - k /\ d.path = p /\ d.roles = rs /\ d.at = "pool"
          /\ d.permitted <=> IsPermitted(m, p, rs)
      OBVIOUS
    <2> HIDE DEF d
    <2>4. d.permitted /\ d.path \in DOMAIN Owner => Owner[d.path] \in d.roles
      BY <2>3, PermittedIsOwner
    <2>5. Sound(d)
      BY <2>3, <2>4 DEF Sound
    <2>6. asked' = [asked EXCEPT ![c] = d]
      BY <1>2 DEF d
    <2>7. QED
      BY <2>2, <2>3, <2>5, <2>6 DEF Asking
  <1>3. QED
    BY <1>1, <1>2 DEF Decoded

(* The constants of the cache.                                             *)
LEMMA AuthNumbers == KeysTtl \in Nat /\ Margin \in Nat /\ FetchTime \in Nat
PROOF BY AuthAssumption

(* A request comes, finds keys, creates the pool or is answered.           *)
LEMMA RequestMoves ==
  ASSUME AuthInv, NEW c \in Client,
         RequestComes(c) \/ GetCached(c) \/ GetPool(c) \/ PoolFails(c) \/ WriteAuthAudit(c)
  PROVE  AuthInv'
PROOF
  <1>1. UNCHANGED <<authTime, keys, expires, refresher, syncSince>>
    BY DEF RequestComes, GetCached, GetPool, PoolFails, WriteAuthAudit, Answered, cacheVars
  <1>2. asked[c] \in Asking /\ (asked[c] \in Decision => Sound(asked[c]))
    BY DEF AuthInv, AuthTypes, RequestsAreSound
  <1>3. \E a \in Asking : /\ asked' = [asked EXCEPT ![c] = a]
                          /\ a \in Decision => Sound(a)
                          /\ a.at # "refresh"
    <2>1. CASE RequestComes(c)
      <3>1. [at |-> "token"] \in Asking /\ [at |-> "token"].at = "token"
        BY DEF Asking
      <3>2. [at |-> "token"] \notin Decision
        BY <3>1, AskingKinds
      <3>3. asked' = [asked EXCEPT ![c] = [at |-> "token"]]
        BY <2>1 DEF RequestComes
      <3>4. QED
        BY <3>1, <3>2, <3>3
    <2>2. CASE GetCached(c)
      <3>1. authTime < expires /\ Decoded(c, keys, FALSE)
        BY <2>2 DEF GetCached
      <3>2. /\ authTime \in Nat /\ keys \in Int /\ expires \in Nat
            /\ keys # NoKeys /\ expires <= keys + KeysTtl + 2 * FetchTime
        BY <3>1 DEF AuthInv, AuthTypes, CacheIsFresh, NoKeys
      <3>3. authTime - keys <= KeysTtl + 2 * FetchTime
        BY <3>1, <3>2, AuthNumbers
      <3>4. QED
        BY <3>1, <3>2, <3>3, DecodedIsSound
    <2>3. CASE GetPool(c)
      <3> DEFINE a == [asked[c] EXCEPT !.at = "write"]
      <3>1. asked[c].at = "pool" /\ asked[c] \in Decision
        BY <2>3, <1>2, AskingKinds DEF GetPool
      <3>2. a \in Decision /\ a.at = "write"
        BY <3>1 DEF Decision
      <3>3. /\ a.failed = asked[c].failed /\ a.age = asked[c].age /\ a.path = asked[c].path
            /\ a.roles = asked[c].roles /\ a.permitted = asked[c].permitted
        BY <3>1 DEF Decision
      <3>4. asked' = [asked EXCEPT ![c] = a]
        BY <2>3 DEF GetPool
      <3> HIDE DEF a
      <3>5. Sound(a)
        BY <3>1, <3>2, <3>3, <1>2 DEF Sound
      <3>6. QED
        BY <3>2, <3>4, <3>5 DEF Asking
    <2>4. CASE PoolFails(c) \/ WriteAuthAudit(c)
      <3> DEFINE a == [asked[c] EXCEPT !.at = "served"]
      <3>1. asked[c].at \in {"pool", "write"} /\ Answered(c)
        BY <2>4 DEF PoolFails, WriteAuthAudit
      <3>2. asked[c] \in Decision
        BY <3>1, <1>2, AskingKinds
      <3>3. asked' = [asked EXCEPT ![c] = IF asked[c].permitted THEN a ELSE Quiet]
        BY <3>1 DEF Answered
      <3>4. CASE asked[c].permitted
        <4>1. a \in Decision /\ a.at = "served"
          BY <3>2 DEF Decision
        <4>2. /\ a.failed = asked[c].failed /\ a.age = asked[c].age /\ a.path = asked[c].path
              /\ a.roles = asked[c].roles /\ a.permitted = asked[c].permitted
          BY <3>2 DEF Decision
        <4>3. asked' = [asked EXCEPT ![c] = a]
          BY <3>3, <3>4
        <4> HIDE DEF a
        <4>4. Sound(a)
          BY <3>2, <3>4, <4>1, <4>2, <1>2 DEF Sound
        <4>5. QED
          BY <4>1, <4>3, <4>4 DEF Asking
      <3>5. CASE ~asked[c].permitted
        BY <3>3, <3>5, AskingKinds
      <3>6. QED
        BY <3>4, <3>5
    <2>5. QED
      BY <2>1, <2>2, <2>3, <2>4
  <1>4. asked' \in [Client -> Asking] /\ RequestsAreSound'
    BY <1>1, <1>3, OneRequestMoves DEF AuthInv
  <1>5. QED
    BY <1>1, <1>4 DEF AuthInv, AuthTypes, CacheIsFresh, LoopIsPrompt, ThreadIsPrompt

(* The keys have expired: the loop is blocked for this request, and no     *)
(* thread waits.                                                           *)
LEMMA GetExpiredStep ==
  ASSUME AuthInv, NEW c \in Client, GetExpired(c)
  PROVE  AuthInv'
PROOF
  <1>1. /\ syncSince = NotBlocked /\ asked[c].at = "token" /\ syncSince' = authTime
        /\ \A r \in Refresher : refresher[r].at # "store"
        /\ asked' = [asked EXCEPT ![c].at = "refresh"]
        /\ UNCHANGED <<authTime, keys, expires, refresher>>
    BY DEF GetExpired, cacheVars
  <1>2. authTime \in Nat /\ asked \in [Client -> Asking]
    BY DEF AuthInv, AuthTypes
  <1>3. asked[c] \in [at : {"quiet", "token", "refresh"}]
    <2>1. asked[c] \in Asking
      BY <1>2
    <2>2. asked[c] \notin Decision
      BY <2>1, <1>1, AskingKinds
    <2>3. QED
      BY <2>1, <2>2 DEF Asking
  <1>4. [asked[c] EXCEPT !.at = "refresh"] \in Asking
    BY <1>3 DEF Asking
  <1>5. PICK a \in Asking : a = [asked[c] EXCEPT !.at = "refresh"] /\ a.at = "refresh"
    BY <1>3, <1>4
  <1>6. a \notin Decision
    BY <1>5, AskingKinds
  <1>7. asked' \in [Client -> Asking] /\ \A d \in Client : asked'[d] = IF d = c THEN a ELSE asked[d]
    BY <1>1, <1>2, <1>5
  <1>8. RequestsAreSound'
    <2>1. \A d \in Client : asked[d].at # "refresh"
      BY <1>1 DEF AuthInv, RequestsAreSound
    <2>2. \A d \in Client : asked'[d] \in Decision => d # c /\ asked[d] \in Decision
      BY <1>6, <1>7
    <2>3. \A d \in Client : asked'[d] \in Decision => Sound(asked'[d])
      BY <2>2, <1>7 DEF AuthInv, RequestsAreSound
    <2>4. syncSince' # NotBlocked
      BY <1>1, <1>2 DEF NotBlocked
    <2>5. \A d \in Client : asked'[d].at = "refresh" => d = c
      BY <2>1, <1>7
    <2>6. QED
      BY <2>3, <2>4, <2>5 DEF RequestsAreSound, Decision, Sound, Owner
  <1>9. LoopIsPrompt'
    BY <1>1, <1>2, AuthNumbers DEF LoopIsPrompt
  <1>10. \A r \in Refresher : ThreadIsPrompt(r)'
    BY <1>1 DEF AuthInv, ThreadIsPrompt
  <1>11. QED
    BY <1>1, <1>2, <1>7, <1>8, <1>9, <1>10 DEF AuthInv, AuthTypes, CacheIsFresh

(* An answer that is at most two fetches old, or none, leaves fresh keys.  *)
LEMMA RefreshedIsFresh ==
  ASSUME AuthTypes, CacheIsFresh, NEW answer \in {NoKeys} \cup Nat, Refreshed(answer),
         answer # NoKeys => authTime <= answer + 2 * FetchTime
  PROVE  keys' \in {NoKeys} \cup Nat /\ expires' \in Nat /\ CacheIsFresh'
PROOF
  <1>1. CASE answer = NoKeys
    BY <1>1 DEF Refreshed, ExpiryAfter, AuthTypes, CacheIsFresh
  <1>2. CASE answer # NoKeys
    <2>1. keys' = answer /\ expires' = authTime + KeysTtl /\ authTime \in Nat /\ answer \in Nat
      BY <1>2 DEF Refreshed, ExpiryAfter, AuthTypes
    <2>2. QED
      BY <2>1, <1>2, AuthNumbers DEF CacheIsFresh
  <1>3. QED
    BY <1>1, <1>2

(* The refresh returns: the request is decided on, the loop goes on, and a *)
(* thread is scheduled.                                                    *)
LEMMA RefreshReturnsStep ==
  ASSUME AuthInv, NEW c \in Client, RefreshReturns(c)
  PROVE  AuthInv'
PROOF
  <1>1. /\ asked[c].at = "refresh" /\ syncSince' = NotBlocked /\ UNCHANGED authTime
        /\ syncSince \in Nat /\ syncSince <= authTime /\ authTime <= syncSince + FetchTime
        /\ authTime \in Nat /\ syncSince # NotBlocked
    BY DEF RefreshReturns, AuthInv, AuthTypes, RequestsAreSound, LoopIsPrompt
  <1>2. PICK answer \in {NoKeys} \cup (syncSince .. authTime), r \in Refresher :
          /\ Refreshed(answer) /\ Scheduled(r)
          /\ IF keys' = NoKeys THEN asked' = [asked EXCEPT ![c] = Quiet]
             ELSE Decoded(c, keys', answer = NoKeys)
    BY DEF RefreshReturns
  <1>3. /\ answer \in {NoKeys} \cup Nat
        /\ answer # NoKeys => syncSince <= answer /\ authTime <= answer + FetchTime
    BY <1>1, <1>2, AuthNumbers
  <1>4. keys' \in {NoKeys} \cup Nat /\ expires' \in Nat /\ CacheIsFresh'
    <2>1. answer # NoKeys => authTime <= answer + 2 * FetchTime
      BY <1>1, <1>3, AuthNumbers DEF NoKeys
    <2>2. QED
      BY <2>1, <1>2, <1>3, RefreshedIsFresh DEF AuthInv
  <1>5. \E a \in Asking : /\ asked' = [asked EXCEPT ![c] = a]
                          /\ a \in Decision => Sound(a)
                          /\ a.at # "refresh"
    <2>1. CASE keys' = NoKeys
      BY <2>1, <1>2, AskingKinds
    <2>2. CASE keys' # NoKeys
      <3> DEFINE missed == answer = NoKeys
      <3>1. Decoded(c, keys', missed) /\ keys' \in Int /\ missed \in BOOLEAN
        BY <2>2, <1>2, <1>4
      <3>2. ~missed => keys' = answer
        BY <1>2 DEF Refreshed
      <3>3. ~missed => authTime - keys' <= KeysTtl + 2 * FetchTime
        BY <3>2, <1>1, <1>3, AuthNumbers DEF NoKeys
      <3> HIDE DEF missed
      <3>4. QED
        BY <3>1, <3>3, <1>1, DecodedIsSound
    <2>3. QED
      BY <2>1, <2>2
  <1>6. asked' \in [Client -> Asking] /\ RequestsAreSound'
    BY <1>1, <1>5, OneRequestMoves DEF AuthInv
  <1>7. PICK s \in Int : refresher' = [refresher EXCEPT ![r] =
                           [at |-> "sleep", since |-> s, answer |-> NoKeys]]
    <2>1. authTime \in Int /\ expires' - Margin \in Int
      BY <1>1, <1>4, AuthNumbers
    <2>2. Max({authTime, expires' - Margin}) \in Int
      BY <2>1 DEF Max
    <2>3. QED
      BY <2>2, <1>2 DEF Scheduled
  <1>8. refresher \in [Refresher -> Refreshing]
    BY DEF AuthInv, AuthTypes
  <1>9. refresher' \in [Refresher -> Refreshing]
    BY <1>7, <1>8 DEF Refreshing
  <1>10. ASSUME NEW q \in Refresher PROVE ThreadIsPrompt(q)'
    <2>1. CASE q = r
      BY <2>1, <1>7, <1>8 DEF ThreadIsPrompt
    <2>2. CASE q # r
      <3>1. refresher'[q] = refresher[q] /\ ThreadIsPrompt(q) /\ refresher[q] \in Refreshing
        BY <2>2, <1>7, <1>8 DEF AuthInv
      <3>2. refresher[q].at = "store" =>
              refresher[q].answer \in Nat /\ authTime <= refresher[q].answer + 2 * FetchTime
        BY <3>1, <1>1, AuthNumbers DEF ThreadIsPrompt
      <3>3. QED
        BY <3>1, <3>2, <1>1 DEF ThreadIsPrompt
    <2>3. QED
      BY <2>1, <2>2
  <1>11. AuthTypes' /\ LoopIsPrompt'
    BY <1>1, <1>4, <1>6, <1>9 DEF AuthTypes, LoopIsPrompt
  <1>12. QED
    BY <1>4, <1>6, <1>10, <1>11 DEF AuthInv

(* A background thread wakes, fetches and stores.                          *)
LEMMA ThreadStep ==
  ASSUME AuthInv, NEW r \in Refresher, Wakes(r) \/ Fetched(r) \/ Stores(r)
  PROVE  AuthInv'
PROOF
  <1>1. UNCHANGED <<authTime, syncSince, asked>> /\ authTime \in Nat
    BY DEF Wakes, Fetched, Stores, AuthInv, AuthTypes
  <1>2. refresher \in [Refresher -> Refreshing] /\ refresher[r] \in Refreshing
    BY DEF AuthInv, AuthTypes
  <1>3. ThreadIsPrompt(r)
    BY DEF AuthInv
  <1>4. keys' \in {NoKeys} \cup Nat /\ expires' \in Nat /\ CacheIsFresh'
    <2>1. CASE Wakes(r) \/ Fetched(r)
      BY <2>1 DEF Wakes, Fetched, AuthInv, AuthTypes, CacheIsFresh
    <2>2. CASE Stores(r)
      <3>1. /\ refresher[r].at = "store" /\ syncSince = NotBlocked
            /\ Refreshed(refresher[r].answer)
        BY <2>2 DEF Stores
      <3>2. /\ refresher[r].answer \in Nat
            /\ authTime <= refresher[r].answer + 2 * FetchTime
        BY <3>1, <1>3 DEF ThreadIsPrompt
      <3>3. QED
        BY <3>1, <3>2, RefreshedIsFresh DEF AuthInv
    <2>3. QED
      BY <2>1, <2>2
  <1>5. \E f \in Refreshing :
          /\ refresher' = [refresher EXCEPT ![r] = f]
          /\ f.at = "fetch" => f.since = authTime
          /\ f.at = "store" => /\ f.answer \in Nat
                               /\ authTime <= f.answer + FetchTime
    <2>1. CASE Wakes(r)
      <3> DEFINE woken == [refresher[r] EXCEPT !.at = "fetch"]
                 f == [woken EXCEPT !.since = authTime]
      <3>0. woken \in Refreshing
        BY <1>2 DEF Refreshing
      <3>1. f \in Refreshing /\ f.at = "fetch" /\ f.since = authTime
        <4>1. woken.at = "fetch"
          BY <1>2 DEF Refreshing
        <4> HIDE DEF woken
        <4>2. QED
          BY <1>1, <3>0, <4>1 DEF Refreshing
      <3>2. refresher' = [refresher EXCEPT ![r] = f]
        <4>1. refresher' = [refresher EXCEPT ![r].at = "fetch", ![r].since = authTime]
          BY <2>1 DEF Wakes
        <4>2. QED
          BY <4>1, <1>2
      <3> HIDE DEF f
      <3>3. QED
        BY <3>1, <3>2
    <2>2. CASE Fetched(r)
      <3>1. PICK answer \in {NoKeys} \cup (refresher[r].since .. authTime) :
              refresher' = [refresher EXCEPT ![r] =
                IF answer = NoKeys THEN Free
                ELSE [at |-> "store", since |-> refresher[r].since, answer |-> answer]]
        BY <2>2 DEF Fetched
      <3>2. /\ refresher[r].since \in Nat /\ authTime <= refresher[r].since + FetchTime
        BY <2>2, <1>3 DEF Fetched, ThreadIsPrompt
      <3>3. CASE answer = NoKeys
        <4>1. Free \in Refreshing /\ Free.at = "free"
          BY DEF Free, Refreshing
        <4>2. QED
          BY <3>1, <3>3, <4>1
      <3>4. CASE answer # NoKeys
        <4> DEFINE f == [at |-> "store", since |-> refresher[r].since, answer |-> answer]
        <4>1. answer \in Nat /\ authTime <= answer + FetchTime
          BY <3>1, <3>2, <3>4, <1>1, AuthNumbers
        <4>2. f \in Refreshing /\ f.at = "store" /\ f.answer = answer
          BY <4>1, <3>2 DEF Refreshing
        <4>3. refresher' = [refresher EXCEPT ![r] = f]
          BY <3>1, <3>4
        <4> HIDE DEF f
        <4>4. QED
          BY <4>1, <4>2, <4>3
      <3>5. QED
        BY <3>3, <3>4
    <2>3. CASE Stores(r)
      <3>1. Free \in Refreshing /\ Free.at = "free"
        BY DEF Free, Refreshing
      <3>2. refresher' = [refresher EXCEPT ![r] = Free]
        BY <2>3 DEF Stores
      <3>3. QED
        BY <3>1, <3>2
    <2>4. QED
      BY <2>1, <2>2, <2>3
  <1>6. PICK f \in Refreshing :
          /\ refresher' = [refresher EXCEPT ![r] = f]
          /\ f.at = "fetch" => f.since = authTime
          /\ f.at = "store" => f.answer \in Nat /\ authTime <= f.answer + FetchTime
    BY <1>5
  <1>7. /\ refresher' \in [Refresher -> Refreshing] /\ refresher'[r] = f
        /\ \A q \in Refresher : q # r => refresher'[q] = refresher[q]
    BY <1>2, <1>6
  <1>8. ASSUME NEW q \in Refresher PROVE ThreadIsPrompt(q)'
    <2>1. CASE q = r
      <3>1. f.at = "store" => authTime <= f.answer + 2 * FetchTime
        BY <1>1, <1>6, AuthNumbers
      <3>2. f.at = "store" /\ syncSince # NotBlocked => syncSince <= f.answer + FetchTime
        <4>1. syncSince # NotBlocked => syncSince \in Nat /\ syncSince <= authTime
          BY DEF AuthInv, AuthTypes, LoopIsPrompt
        <4>2. QED
          BY <4>1, <1>1, <1>6, AuthNumbers
      <3>3. f.at = "fetch" => f.since \in Nat /\ f.since <= authTime /\ authTime <= f.since + FetchTime
        BY <1>1, <1>6, AuthNumbers
      <3>4. QED
        BY <2>1, <3>1, <3>2, <3>3, <1>1, <1>6, <1>7 DEF ThreadIsPrompt
    <2>2. CASE q # r
      BY <2>2, <1>1, <1>7 DEF AuthInv, ThreadIsPrompt
    <2>3. QED
      BY <2>1, <2>2
  <1>9. AuthTypes' /\ LoopIsPrompt' /\ RequestsAreSound'
    BY <1>1, <1>4, <1>7 DEF AuthInv, AuthTypes, LoopIsPrompt, RequestsAreSound, Decision, Sound, Owner
  <1>10. QED
    BY <1>4, <1>8, <1>9 DEF AuthInv

(* Time passes within the limits of the fetches.                           *)
LEMMA AuthTimeStep == AuthInv /\ AuthTimePasses => AuthInv'
PROOF
  <1> SUFFICES ASSUME AuthInv, AuthTimePasses
      PROVE  AuthInv'
    OBVIOUS
  <1>1. /\ authTime' = authTime + 1 /\ UNCHANGED <<keys, expires, refresher, syncSince, asked>>
        /\ syncSince # NotBlocked => authTime - syncSince < FetchTime
        /\ \A r \in Refresher :
             /\ refresher[r].at = "fetch" => authTime - refresher[r].since < FetchTime
             /\ refresher[r].at = "store" => syncSince # NotBlocked
    BY DEF AuthTimePasses, cacheVars
  <1>2. authTime \in Nat /\ syncSince \in {NotBlocked} \cup Nat
    BY DEF AuthInv, AuthTypes
  <1>3. AuthTypes' /\ CacheIsFresh'
    BY <1>1, <1>2 DEF AuthInv, AuthTypes, CacheIsFresh
  <1>4. LoopIsPrompt'
    BY <1>1, <1>2, AuthNumbers DEF AuthInv, LoopIsPrompt
  <1>5. ASSUME NEW r \in Refresher PROVE ThreadIsPrompt(r)'
    BY <1>1, <1>2, AuthNumbers DEF AuthInv, ThreadIsPrompt
  <1>6. RequestsAreSound'
    BY <1>1 DEF AuthInv, RequestsAreSound, Decision, Sound, Owner
  <1>7. QED
    BY <1>3, <1>4, <1>5, <1>6 DEF AuthInv

(* A request that is let through was decided with keys not older than the  *)
(* cache's life and two fetches, or its own refresh failed, and a critical *)
(* action is taken by its owner only, for any clients, threads and times   *)
(* (keycloak_jwks.py, role_permissions.py, auth_middleware.py).            *)
THEOREM KeysStayFresh == AuthSpec => []ServedWithFreshKeys
PROOF
  <1>1. AuthInv /\ [AuthNext]_authVars => AuthInv'
    <2> SUFFICES ASSUME AuthInv, [AuthNext]_authVars
        PROVE  AuthInv'
      OBVIOUS
    <2>1. CASE AuthTimePasses
      BY <2>1, AuthTimeStep
    <2>2. ASSUME NEW c \in Client,
                 \/ RequestComes(c) \/ GetCached(c) \/ GetExpired(c) \/ RefreshReturns(c)
                 \/ GetPool(c) \/ PoolFails(c) \/ WriteAuthAudit(c)
          PROVE  AuthInv'
      BY <2>2, RequestMoves, GetExpiredStep, RefreshReturnsStep
    <2>3. ASSUME NEW r \in Refresher, Wakes(r) \/ Fetched(r) \/ Stores(r)
          PROVE  AuthInv'
      BY <2>3, ThreadStep
    <2>4. CASE UNCHANGED authVars
      <3>1. UNCHANGED <<authTime, keys, expires, refresher, syncSince, asked>>
        BY <2>4 DEF authVars
      <3>2. RequestsAreSound'
        BY <3>1 DEF AuthInv, RequestsAreSound, Decision, Sound, Owner
      <3>3. \A r \in Refresher : ThreadIsPrompt(r)'
        BY <3>1 DEF AuthInv, ThreadIsPrompt
      <3>4. QED
        BY <3>1, <3>2, <3>3 DEF AuthInv, AuthTypes, CacheIsFresh, LoopIsPrompt
    <2>5. QED
      BY <2>1, <2>2, <2>3, <2>4 DEF AuthNext
  <1>2. AuthInv => ServedWithFreshKeys
    <2> SUFFICES ASSUME AuthInv, NEW c \in Client, asked[c].at = "served"
        PROVE  /\ asked[c].failed \/ asked[c].age <= KeysTtl + 2 * FetchTime
               /\ asked[c].path \in DOMAIN Owner => Owner[asked[c].path] \in asked[c].roles
      BY DEF ServedWithFreshKeys
    <2>1. asked[c] \in Decision
      BY AskingKinds DEF AuthInv, AuthTypes
    <2>2. QED
      BY <2>1 DEF AuthInv, RequestsAreSound, Sound
  <1>3. QED
    BY <1>1, <1>2, AuthInvInit, PTL DEF AuthSpec

-----------------------------------------------------------------------------
(* The maintenance engine.                                                 *)
Row == Telemetry \cup {Filled}
FilledPlaces(rows) == {i \in DOMAIN rows : rows[i] = Filled}
Fills(rows) == Cardinality(FilledPlaces(rows))

(* The places that were filled in are finitely many.                       *)
LEMMA FillsType ==
  ASSUME NEW rows \in Seq(Row)
  PROVE  IsFiniteSet(FilledPlaces(rows)) /\ Fills(rows) \in Nat
PROOF
  <1>1. DOMAIN rows = 1..Len(rows) /\ Len(rows) \in Nat
    BY LenProperties
  <1>2. IsFiniteSet(1..Len(rows))
    BY <1>1, FS_Interval
  <1>3. FilledPlaces(rows) \in SUBSET (1..Len(rows))
    BY <1>1 DEF FilledPlaces
  <1>4. QED
    BY <1>2, <1>3, FS_Subset, FS_CardinalityType DEF Fills

(* What is cut off a window takes its filled rows along, and adds none.    *)
LEMMA CutFillsNoMore ==
  ASSUME NEW s \in Seq(Row), NEW t \in Seq(Row), NEW off \in Nat, Len(t) = off + Len(s),
         \A i \in 1..Len(s) : s[i] = t[i + off]
  PROVE  Fills(s) <= Fills(t)
PROOF
  <1>1. /\ DOMAIN s = 1..Len(s) /\ DOMAIN t = 1..Len(t) /\ Len(s) \in Nat /\ Len(t) \in Nat
    BY LenProperties
  <1> DEFINE f == [i \in FilledPlaces(s) |-> i + off]
  <1>2. \A i \in FilledPlaces(s) : i \in Nat /\ i + off \in FilledPlaces(t)
    <2> SUFFICES ASSUME NEW i \in FilledPlaces(s)
        PROVE  i \in Nat /\ i + off \in FilledPlaces(t)
      OBVIOUS
    <2>1. i \in 1..Len(s) /\ s[i] = Filled
      BY <1>1 DEF FilledPlaces
    <2>2. i + off \in 1..Len(t)
      BY <2>1, <1>1
    <2>3. QED
      BY <2>1, <2>2, <1>1 DEF FilledPlaces
  <1>3. f \in Injection(FilledPlaces(s), FilledPlaces(t))
    <2>1. f \in [FilledPlaces(s) -> FilledPlaces(t)]
      BY <1>2
    <2>2. \A i, j \in FilledPlaces(s) : f[i] = f[j] => i = j
      BY <1>2
    <2>3. QED
      BY <2>1, <2>2 DEF Injection, IsInjective
  <1>4. IsFiniteSet(FilledPlaces(t))
    BY FillsType
  <1>5. QED
    BY <1>3, <1>4, FS_Injection DEF Fills

(* Filled rows that are put before a reading add to those of a window.     *)
LEMMA AddedFills ==
  ASSUME NEW s \in Seq(Row), NEW missing \in Nat, NEW topic \in Telemetry
  PROVE  LET t == s \o [i \in 1..missing |-> Filled] \o <<topic>>
         IN /\ t \in Seq(Row) /\ Len(t) = Len(s) + missing + 1 /\ t[Len(t)] = topic
            /\ Fills(t) <= Fills(s) + missing
PROOF
  <1> DEFINE g == [i \in 1..missing |-> Filled]
             u == s \o g
             e == <<topic>>
             t == u \o e
  <1>1. g \in Seq(Row) /\ Len(g) = missing
    <2>1. g \in [1..missing -> Row]
      BY DEF Row
    <2>2. g \in Seq(Row) /\ DOMAIN g = 1..missing
      BY <2>1, SeqDef
    <2> HIDE DEF g
    <2>3. QED
      BY <2>2, LenProperties
  <1>2. e \in Seq(Row) /\ Len(e) = 1 /\ e[1] = topic
    BY DEF Row
  <1>3. \A x, y \in Seq(Row) :
          /\ x \o y \in Seq(Row) /\ Len(x \o y) = Len(x) + Len(y)
          /\ \A i \in 1..(Len(x) + Len(y)) :
               (x \o y)[i] = IF i <= Len(x) THEN x[i] ELSE y[i - Len(x)]
    BY ConcatProperties
  <1> HIDE DEF g, e
  <1>4. /\ u \in Seq(Row) /\ Len(u) = Len(s) + missing
        /\ \A i \in 1..(Len(s) + missing) : i <= Len(s) => u[i] = s[i]
    BY <1>1, <1>3
  <1> HIDE DEF u
  <1>5. Len(s) \in Nat
    BY LenProperties
  <1>6. /\ t \in Seq(Row) /\ Len(t) = Len(s) + missing + 1
        /\ \A i \in 1..(Len(s) + missing + 1) :
             t[i] = IF i <= Len(s) + missing THEN u[i] ELSE e[i - (Len(s) + missing)]
    <2>1. /\ t \in Seq(Row) /\ Len(t) = Len(u) + Len(e)
          /\ \A i \in 1..(Len(u) + Len(e)) : t[i] = IF i <= Len(u) THEN u[i] ELSE e[i - Len(u)]
      BY <1>2, <1>3, <1>4
    <2>2. Len(u) = Len(s) + missing /\ Len(e) = 1
      BY <1>2, <1>4
    <2> HIDE DEF t
    <2>3. QED
      BY <2>1, <2>2
  <1> HIDE DEF t
  <1>7. t[Len(t)] = topic
    BY <1>2, <1>5, <1>6
  <1>8. FilledPlaces(t) \subseteq FilledPlaces(s) \cup ((Len(s) + 1)..(Len(s) + missing))
    <2> SUFFICES ASSUME NEW i \in FilledPlaces(t)
        PROVE  i \in FilledPlaces(s) \/ i \in (Len(s) + 1)..(Len(s) + missing)
      OBVIOUS
    <2>1. i \in 1..(Len(s) + missing + 1) /\ t[i] = Filled
      BY <1>5, <1>6, LenProperties DEF FilledPlaces
    <2>2. t[Len(s) + missing + 1] # Filled
      BY <1>6, <1>7, FeatureAssumption
    <2>3. i \in 1..(Len(s) + missing)
      BY <2>1, <2>2, <1>5
    <2>4. CASE i <= Len(s)
      <3>1. s[i] = Filled
        BY <2>1, <2>3, <2>4, <1>4, <1>5, <1>6
      <3>2. i \in DOMAIN s
        BY <2>3, <2>4, <1>5, LenProperties
      <3>3. QED
        BY <3>1, <3>2 DEF FilledPlaces
    <2>5. CASE ~(i <= Len(s))
      BY <2>3, <2>5, <1>5
    <2>6. QED
      BY <2>4, <2>5
  <1>9. Fills(t) <= Fills(s) + missing
    <2> DEFINE A == FilledPlaces(s)
               B == (Len(s) + 1)..(Len(s) + missing)
    <2>1. IsFiniteSet(A) /\ Cardinality(A) \in Nat
      BY FillsType DEF Fills
    <2>2. IsFiniteSet(B) /\ Cardinality(B) = missing
      <3> DEFINE from == Len(s) + 1
                 to == Len(s) + missing
      <3>1. from \in Int /\ to \in Int /\ to - from + 1 = missing /\ (from > to <=> missing = 0)
        BY <1>5
      <3> HIDE DEF from, to
      <3>2. IsFiniteSet(from..to) /\ Cardinality(from..to) = IF from > to THEN 0 ELSE to - from + 1
        BY <3>1, FS_Interval
      <3>3. Cardinality(from..to) = missing
        BY <3>1, <3>2
      <3>4. QED
        BY <3>2, <3>3 DEF from, to
    <2> HIDE DEF A, B
    <2>3. IsFiniteSet(A \cup B) /\ IsFiniteSet(A \cap B)
      BY <2>1, <2>2, FS_Union, FS_Intersection
    <2>4. Cardinality(A \cup B) = Cardinality(A) + Cardinality(B) - Cardinality(A \cap B)
      BY <2>1, <2>2, FS_Union
    <2>5. Cardinality(A \cap B) \in Nat /\ Cardinality(A \cup B) \in Nat
      BY <2>3, FS_CardinalityType
    <2>6. Cardinality(FilledPlaces(t)) <= Cardinality(A \cup B)
      BY <1>8, <2>3, FS_Subset DEF A, B
    <2>7. Cardinality(FilledPlaces(t)) \in Nat
      BY <1>6, FillsType DEF Fills
    <2>8. Cardinality(FilledPlaces(t)) <= Cardinality(A) + missing
      BY <2>1, <2>2, <2>4, <2>5, <2>6, <2>7
    <2>9. QED
      BY <2>8 DEF Fills, A
  <1>10. t = s \o [i \in 1..missing |-> Filled] \o <<topic>>
    BY DEF t, u, g, e
  <1>11. QED
    BY <1>6, <1>7, <1>9, <1>10

(* The window keeps the latest rows.                                       *)
LEMMA LatestRows ==
  ASSUME NEW t \in Seq(Row), t # <<>>
  PROVE  /\ Latest(t) \in Seq(Row)
         /\ Len(Latest(t)) = IF Len(t) > WindowSize THEN WindowSize ELSE Len(t)
         /\ Latest(t)[Len(Latest(t))] = t[Len(t)]
         /\ Fills(Latest(t)) <= Fills(t)
PROOF
  <1>1. PICK n \in Nat : n = Len(t) /\ n > 0 /\ \A i \in 1..n : t[i] \in Row
    BY LenProperties, EmptySeq, ElementOfSeq
  <1>2. WindowSize \in Nat /\ WindowSize > 1
    BY FeatureAssumption
  <1> DEFINE m == 1 + (IF n > WindowSize THEN n - WindowSize ELSE 0)
  <1>3. m \in 1..n
    BY <1>1, <1>2
  <1>4. Latest(t) = SubSeq(t, m, n)
    BY <1>1 DEF Latest
  <1>5. n - m + 1 = IF n > WindowSize THEN WindowSize ELSE n
    BY <1>1, <1>2
  <1> HIDE DEF m
  <1>6. /\ SubSeq(t, m, n) \in Seq(Row) /\ Len(SubSeq(t, m, n)) = n - m + 1
        /\ \A i \in 1..(n - m + 1) : SubSeq(t, m, n)[i] = t[m + i - 1]
    <2>1. m \in Int /\ n \in Int /\ m <= n /\ \A i \in m..n : t[i] \in Row
      BY <1>1, <1>3
    <2>2. QED
      BY <2>1, SubSeqProperties
  <1> DEFINE s == SubSeq(t, m, n)
  <1> HIDE DEF s
  <1>7. s \in Seq(Row) /\ Len(s) = n - m + 1 /\ \A i \in 1..(n - m + 1) : s[i] = t[m + i - 1]
    BY <1>6 DEF s
  <1>8. s[Len(s)] = t[n]
    <2>1. n - m + 1 \in 1..(n - m + 1) /\ m + (n - m + 1) - 1 = n
      BY <1>1, <1>3
    <2>2. QED
      BY <2>1, <1>7
  <1>9. Fills(s) <= Fills(t)
    <2>1. m - 1 \in Nat /\ Len(t) = (m - 1) + Len(s)
      BY <1>1, <1>3, <1>7
    <2>2. \A i \in 1..Len(s) : s[i] = t[i + (m - 1)]
      <3>1. \A i \in 1..Len(s) : m + i - 1 = i + (m - 1)
        BY <1>3
      <3>2. QED
        BY <3>1, <1>7
    <2>3. QED
      BY <2>1, <2>2, <1>7, CutFillsNoMore
  <1>10. QED
    BY <1>1, <1>4, <1>5, <1>7, <1>8, <1>9 DEF s

(* A percentage grows with its count.                                      *)
LEMMA PctIsMonotone ==
  ASSUME NEW a \in Nat, NEW b \in Nat, a <= b
  PROVE  /\ InterpolationPct(a) \in Nat /\ InterpolationPct(b) \in Nat
         /\ InterpolationPct(a) <= InterpolationPct(b)
PROOF
  <1>1. WindowSize \in Nat \ {0}
    BY FeatureAssumption
  <1>2. ASSUME NEW p \in Nat, NEW q \in Nat, p <= q
        PROVE  /\ p \div WindowSize \in Nat /\ q \div WindowSize \in Nat
               /\ p \div WindowSize <= q \div WindowSize
    <2>1. /\ p \div WindowSize \in Int /\ q \div WindowSize \in Int
          /\ WindowSize * (p \div WindowSize) <= p /\ p < WindowSize * (p \div WindowSize) + WindowSize
          /\ WindowSize * (q \div WindowSize) <= q /\ q < WindowSize * (q \div WindowSize) + WindowSize
      BY <1>1
    <2>2. \A x \in Int : x < 0 => WindowSize * x + WindowSize <= 0
      BY <1>1
    <2>3. p \div WindowSize \in Nat /\ q \div WindowSize \in Nat
      BY <2>1, <2>2, <1>1
    <2>4. \A x, y \in Int : x < y => WindowSize * x + WindowSize <= WindowSize * y
      BY <1>1
    <2>5. p \div WindowSize <= q \div WindowSize
      BY <2>1, <2>4, <1>1, <1>2
    <2>6. QED
      BY <2>3, <2>5
  <1>3. QED
    BY <1>2 DEF InterpolationPct

(* What must be true of a window that goes to the model.                   *)
Measured(window) ==
  /\ window.rows \in Seq(Row) /\ Len(window.rows) = WindowSize /\ window.pct \in Nat
  /\ Fills(window.rows) * 100 <= InsufficientThreshold * WindowSize
  /\ Last(window.rows) \in Telemetry
  /\ InterpolationPct(Fills(window.rows)) <= window.pct

(* The buffers hold their windows and count at least what was filled in.   *)
ExtractorInv ==
  /\ buffer \in [Asset -> Seq(Row)] /\ interpolatedCount \in [Asset -> Nat]
  /\ \A a \in Asset : Fills(buffer[a]) <= interpolatedCount[a]
  /\ featureWindows \in Seq({w \in [asset : Asset, rows : Seq(Row), pct : Nat] : Measured(w)})

(* An empty window has no filled rows.                                     *)
LEMMA EmptyFillsNone == <<>> \in Seq(Row) /\ Fills(<<>>) = 0
PROOF
  <1>1. <<>> \in Seq(Row) /\ FilledPlaces(<<>>) = {}
    BY DEF FilledPlaces
  <1>2. QED
    BY <1>1, FS_EmptySet DEF Fills

(* A reading, with what is filled in before it, keeps the count.           *)
LEMMA ReadingStep ==
  ASSUME ExtractorInv, NEW a \in Asset, NEW topic \in Telemetry, NEW gap \in Gap,
         ProcessReading(a, topic, gap)
  PROVE  ExtractorInv'
PROOF
  <1> DEFINE missing == IF buffer[a] = <<>> THEN 0 ELSE Missing(gap)
             t == buffer[a] \o [i \in 1..missing |-> Filled] \o <<topic>>
             rows == Latest(t)
             count == interpolatedCount[a] + CountOf(missing)
             Windows == {w \in [asset : Asset, rows : Seq(Row), pct : Nat] : Measured(w)}
  <1>1. WindowSize \in Nat \ {0, 1} /\ gap \in Nat \ {0} /\ MaxGap \in Nat
    BY FeatureAssumption
  <1>2. missing \in Nat
    BY <1>1 DEF Missing
  <1>3. /\ buffer \in [Asset -> Seq(Row)] /\ interpolatedCount \in [Asset -> Nat]
        /\ buffer[a] \in Seq(Row) /\ interpolatedCount[a] \in Nat
        /\ Fills(buffer[a]) <= interpolatedCount[a] /\ featureWindows \in Seq(Windows)
    BY DEF ExtractorInv
  <1>4. IF Len(rows) = WindowSize THEN EmitWindow(a, rows, count)
        ELSE /\ buffer' = [buffer EXCEPT ![a] = rows]
             /\ interpolatedCount' = [interpolatedCount EXCEPT ![a] = count]
             /\ UNCHANGED <<featureWindows, insufficient>>
    BY DEF ProcessReading
  <1>5. count \in Nat /\ count = interpolatedCount[a] + missing
    BY <1>2, <1>3 DEF CountOf
  <1> HIDE DEF missing, count, Windows
  <1>6. /\ t \in Seq(Row) /\ Len(t) = Len(buffer[a]) + missing + 1 /\ t[Len(t)] = topic
        /\ Fills(t) <= Fills(buffer[a]) + missing
    BY <1>2, <1>3, AddedFills
  <1> HIDE DEF t
  <1>7. t # <<>> /\ Fills(buffer[a]) \in Nat /\ Fills(t) \in Nat
    <2>1. Len(buffer[a]) \in Nat
      BY <1>3, LenProperties
    <2>2. Len(t) > 0
      BY <2>1, <1>2, <1>6
    <2>3. QED
      BY <2>2, <1>3, <1>6, FillsType
  <1>8. /\ rows \in Seq(Row) /\ rows[Len(rows)] = topic /\ Fills(rows) <= Fills(t)
    BY <1>6, <1>7, LatestRows
  <1> HIDE DEF rows
  <1>9. Fills(rows) \in Nat /\ Fills(rows) <= count
    <2>1. Fills(rows) \in Nat
      BY <1>8, FillsType
    <2>2. QED
      BY <2>1, <1>2, <1>3, <1>5, <1>6, <1>7, <1>8
  <1>10. CASE Len(rows) = WindowSize
    <2> DEFINE window == [asset |-> a, rows |-> rows, pct |-> InterpolationPct(count)]
    <2>1. /\ buffer' = [buffer EXCEPT ![a] = <<>>]
          /\ interpolatedCount' = [interpolatedCount EXCEPT ![a] = 0]
          /\ \/ UNCHANGED featureWindows
             \/ /\ count * 100 <= InsufficientThreshold * WindowSize
                /\ featureWindows' = Append(featureWindows, window)
      BY <1>4, <1>10 DEF EmitWindow
    <2>2. /\ buffer' \in [Asset -> Seq(Row)] /\ interpolatedCount' \in [Asset -> Nat]
      BY <2>1, <1>3, EmptyFillsNone
    <2>3. \A b \in Asset : Fills(buffer'[b]) <= interpolatedCount'[b]
      <3>1. \A b \in Asset : Fills(buffer[b]) <= interpolatedCount[b]
        BY DEF ExtractorInv
      <3>2. buffer'[a] = <<>> /\ interpolatedCount'[a] = 0
        BY <2>1, <1>3
      <3>3. \A b \in Asset : b # a => /\ buffer'[b] = buffer[b]
                                      /\ interpolatedCount'[b] = interpolatedCount[b]
        BY <2>1, <1>3
      <3>4. QED
        BY <3>1, <3>2, <3>3, EmptyFillsNone
    <2>4. /\ InterpolationPct(count) \in Nat
          /\ InterpolationPct(Fills(rows)) <= InterpolationPct(count)
      BY <1>5, <1>9, PctIsMonotone
    <2>5. window \in [asset : Asset, rows : Seq(Row), pct : Nat]
      BY <2>4, <1>8
    <2>6. count * 100 <= InsufficientThreshold * WindowSize => window \in Windows
      <3> SUFFICES ASSUME count * 100 <= InsufficientThreshold * WindowSize
          PROVE  Measured(window)
        BY <2>5 DEF Windows
      <3>1. Fills(rows) * 100 <= count * 100 /\ InsufficientThreshold * WindowSize \in Int
        BY <1>5, <1>9, FeatureAssumption
      <3>2. Fills(rows) * 100 <= InsufficientThreshold * WindowSize
        BY <3>1, <1>5, <1>9
      <3>3. window.rows = rows /\ window.pct = InterpolationPct(count)
        OBVIOUS
      <3> HIDE DEF window
      <3>4. QED
        BY <3>2, <3>3, <2>4, <1>8, <1>10 DEF Measured, Last
    <2> HIDE DEF window
    <2>7. featureWindows' \in Seq(Windows)
      <3>1. CASE UNCHANGED featureWindows
        BY <3>1, <1>3
      <3>2. CASE window \in Windows /\ featureWindows' = Append(featureWindows, window)
        BY <3>2, <1>3, AppendProperties
      <3>3. QED
        BY <2>1, <2>6, <3>1, <3>2
    <2>8. QED
      BY <2>2, <2>3, <2>7 DEF ExtractorInv, Windows
  <1>11. CASE Len(rows) # WindowSize
    <2>1. /\ buffer' = [buffer EXCEPT ![a] = rows]
          /\ interpolatedCount' = [interpolatedCount EXCEPT ![a] = count]
          /\ UNCHANGED featureWindows
      BY <1>4, <1>11
    <2>2. /\ buffer' \in [Asset -> Seq(Row)] /\ interpolatedCount' \in [Asset -> Nat]
      BY <2>1, <1>3, <1>5, <1>8
    <2>3. \A b \in Asset : Fills(buffer'[b]) <= interpolatedCount'[b]
      <3>1. \A b \in Asset : Fills(buffer[b]) <= interpolatedCount[b]
        BY DEF ExtractorInv
      <3>2. buffer'[a] = rows /\ interpolatedCount'[a] = count
        BY <2>1, <1>3
      <3>3. \A b \in Asset : b # a => /\ buffer'[b] = buffer[b]
                                      /\ interpolatedCount'[b] = interpolatedCount[b]
        BY <2>1, <1>3
      <3>4. QED
        BY <3>1, <3>2, <3>3, <1>9
    <2>4. QED
      BY <2>1, <2>2, <2>3, <1>3 DEF ExtractorInv, Windows
  <1>12. QED
    BY <1>10, <1>11

(* Of two numbers.                                                         *)
LEMMA MaxOfTwo == \A a, b \in Int : Max({a, b}) = IF a >= b THEN a ELSE b
PROOF BY DEF Max

(* Of two numbers.                                                         *)
LEMMA MinOfTwo == \A a, b \in Int : Min({a, b}) = IF a <= b THEN a ELSE b
PROOF BY DEF Min

(* An interval is wide enough for a partly interpolated window, beside the *)
(* one that its probability has by itself, or it is everything.            *)
WideEnough(interval, plain, base, pct) ==
  pct > 0 /\ base # Unset =>
    \/ Width(interval) * 40 >= Width(plain) * 20 + base * (20 + pct)
    \/ Width(interval) = 10000

(* What a probability may be, in units of 0.0001.                          *)
Chance == 0..10000

(* The interval that is made for a window is wide enough.                  *)
LEMMA IntervalIsWide ==
  ASSUME NEW prob \in Chance, NEW pct \in Nat, baseline \in Int
  PROVE  /\ Width(Interval(prob, 0)) \in Int
         /\ WideEnough(Interval(prob, Extra(prob, pct)), Interval(prob, 0), baseline, pct)
PROOF
  <1>1. Quantile \in Int /\ prob \in Int /\ prob >= 0 /\ prob <= 10000
    BY MaintenanceAssumption DEF Chance
  <1> DEFINE low == IF 0 >= prob - Quantile THEN 0 ELSE prob - Quantile
             high == IF 10000 <= prob + Quantile THEN 10000 ELSE prob + Quantile
  <1>2. /\ low \in Int /\ high \in Int /\ low >= 0 /\ high <= 10000
        /\ Max({0, prob - Quantile}) = low /\ Min({10000, prob + Quantile}) = high
    BY <1>1, MaxOfTwo, MinOfTwo
  <1> HIDE DEF low, high
  <1>3. ASSUME NEW extra \in Int
        PROVE  /\ Interval(prob, extra).lower = (IF 0 >= low - extra THEN 0 ELSE low - extra)
               /\ Interval(prob, extra).upper =
                    (IF 10000 <= high + extra THEN 10000 ELSE high + extra)
    <2>1. low - extra \in Int /\ high + extra \in Int
      BY <1>2
    <2>2. Max({0, low - extra}) = IF 0 >= low - extra THEN 0 ELSE low - extra
      BY <2>1, MaxOfTwo
    <2>3. Min({10000, high + extra}) = IF 10000 <= high + extra THEN 10000 ELSE high + extra
      BY <2>1, MinOfTwo
    <2>4. /\ Interval(prob, extra).lower = Max({0, low - extra})
          /\ Interval(prob, extra).upper = Min({10000, high + extra})
      <3>1. Max({0, prob - Quantile}) = low /\ Min({10000, prob + Quantile}) = high
        BY <1>2
      <3>2. /\ Interval(prob, extra).lower = Max({0, Max({0, prob - Quantile}) - extra})
            /\ Interval(prob, extra).upper = Min({10000, Min({10000, prob + Quantile}) + extra})
        BY DEF Interval
      <3>3. QED
        BY <3>1, <3>2
    <2>5. QED
      BY <2>2, <2>3, <2>4
  <1>4. Width(Interval(prob, 0)) = high - low
    BY <1>2, <1>3 DEF Width
  <1> DEFINE scaled == baseline * (20 + pct)
             target == TargetWidth(pct)
             short == target - (high - low)
             extra == Extra(prob, pct)
  <1>5. scaled \in Int
    OBVIOUS
  <1>6. target = scaled \div 20 + 2
    BY DEF TargetWidth
  <1> HIDE DEF scaled
  <1>7. target \in Int /\ target * 20 >= scaled
    BY <1>5, <1>6
  <1>8. extra = IF pct > 0 /\ baseline # Unset /\ short > 0 THEN (short + 1) \div 2 ELSE 0
    BY <1>4 DEF Extra
  <1> HIDE DEF target, extra
  <1>9. short \in Int /\ extra \in Int
    BY <1>2, <1>7, <1>8
  <1>10. extra >= 0 /\ (pct > 0 /\ baseline # Unset => 2 * extra >= short)
    BY <1>8, <1>9
  <1> DEFINE i == Interval(prob, extra)
  <1>11. /\ i.lower = (IF 0 >= low - extra THEN 0 ELSE low - extra)
         /\ i.upper = (IF 10000 <= high + extra THEN 10000 ELSE high + extra)
    BY <1>3, <1>9
  <1>12. Width(i) = 10000 \/ Width(i) >= (high - low) + extra
    BY <1>2, <1>9, <1>10, <1>11 DEF Width
  <1>13. Width(i) \in Int
    BY <1>2, <1>9, <1>11 DEF Width
  <1> HIDE DEF i
  <1>14. pct > 0 /\ baseline # Unset =>
           Width(i) * 40 >= (high - low) * 20 + scaled \/ Width(i) = 10000
    BY <1>2, <1>5, <1>7, <1>9, <1>10, <1>12, <1>13
  <1>15. QED
    BY <1>2, <1>4, <1>14 DEF i, extra, scaled, WideEnough

(* What must be true of an advisory.                                       *)
Advised(m) ==
  Measured(m.window) /\ WideEnough(m.interval, Interval(m.prob, 0), m.baseline, m.window.pct)

MeasuredWindow == {w \in [asset : Asset, rows : Seq(Row), pct : Nat] : Measured(w)}
Advice ==
  {m \in [window : MeasuredWindow, interval : [lower : Int, upper : Int], prob : Chance,
          baseline : Int, tier : {1, 2, 3}] : Advised(m)}

AdviceInv ==
  /\ ExtractorInv
  /\ windowsRead \in Nat /\ windowsCommitted \in Nat /\ baseline \in Int
  /\ maintenance \in Seq(Advice)

(* At the start there are no rows, no windows and no advisories.           *)
LEMMA AdviceInvInit == MaintenanceInit => AdviceInv
PROOF
  <1> SUFFICES ASSUME MaintenanceInit PROVE AdviceInv
    OBVIOUS
  <1>1. /\ buffer = [a \in Asset |-> <<>>] /\ interpolatedCount = [a \in Asset |-> 0]
        /\ featureWindows = <<>>
    BY DEF MaintenanceInit, ExtractorInit
  <1>2. buffer \in [Asset -> Seq(Row)] /\ interpolatedCount \in [Asset -> Nat]
    BY <1>1, EmptyFillsNone
  <1>3. \A a \in Asset : Fills(buffer[a]) <= interpolatedCount[a]
    BY <1>1, EmptyFillsNone
  <1>4. ExtractorInv
    BY <1>1, <1>2, <1>3 DEF ExtractorInv
  <1>5. QED
    BY <1>4 DEF AdviceInv, MaintenanceInit, ServiceInit, Unset

(* A window that is processed yields an advisory that rests on it.         *)
LEMMA WindowStep ==
  ASSUME AdviceInv, NEW prob \in Probability, ProcessFeatureWindow(prob),
         UNCHANGED featureVars
  PROVE  AdviceInv'
PROOF
  <1> DEFINE window == featureWindows[windowsRead + 1]
             interval == Interval(prob, Extra(prob, window.pct))
             advice == [window |-> window, interval |-> interval,
                          prob |-> prob, baseline |-> baseline, tier |-> RiskTier(prob)]
  <1>1. /\ windowsRead < Len(featureWindows) /\ windowsRead' = windowsRead + 1
        /\ baseline' = NextBaseline(prob, window.pct) /\ UNCHANGED windowsCommitted
        /\ maintenance' \in {maintenance, Append(maintenance, advice)}
    BY DEF ProcessFeatureWindow, Publish
  <1>2. /\ featureWindows \in Seq(MeasuredWindow) /\ windowsRead \in Nat /\ baseline \in Int
        /\ windowsCommitted \in Nat /\ maintenance \in Seq(Advice)
    BY DEF AdviceInv, ExtractorInv, MeasuredWindow
  <1>3. window \in MeasuredWindow
    <2>1. windowsRead + 1 \in 1..Len(featureWindows)
      BY <1>1, <1>2, LenProperties
    <2>2. QED
      BY <2>1, <1>2, ElementOfSeq
  <1>4. prob \in Chance
    BY MaintenanceAssumption DEF Chance
  <1> HIDE DEF window
  <1>5. window.pct \in Nat /\ Measured(window)
    BY <1>3 DEF MeasuredWindow
  <1>6. /\ Width(Interval(prob, 0)) \in Int
        /\ WideEnough(interval, Interval(prob, 0), baseline, window.pct)
    <2>1. PICK pct \in Nat : pct = window.pct
      BY <1>5
    <2>2. baseline \in Int
      BY <1>2
    <2>3. /\ Width(Interval(prob, 0)) \in Int
          /\ WideEnough(Interval(prob, Extra(prob, pct)), Interval(prob, 0), baseline, pct)
      BY <2>1, <2>2, <1>4, IntervalIsWide
    <2>4. QED
      BY <2>1, <2>3
  <1>7. baseline' \in Int
    BY <1>1, <1>2, <1>6 DEF NextBaseline
  <1>8. interval \in [lower : Int, upper : Int]
    <2>1. prob \in Int /\ Quantile \in Int
      BY <1>4, MaintenanceAssumption DEF Chance
    <2>2. Extra(prob, window.pct) \in Int
      <3>1. TargetWidth(window.pct) \in Int
        BY <1>2, <1>5 DEF TargetWidth
      <3> DEFINE short == TargetWidth(window.pct) - Width(Interval(prob, 0))
      <3>2. short \in Int
        BY <3>1, <1>6
      <3>3. Extra(prob, window.pct) =
              IF window.pct > 0 /\ baseline # Unset /\ short > 0 THEN (short + 1) \div 2 ELSE 0
        BY DEF Extra
      <3> HIDE DEF short
      <3>4. QED
        BY <3>2, <3>3
    <2>3. \A x, y \in Int : Max({x, y}) \in Int /\ Min({x, y}) \in Int
      BY MaxOfTwo, MinOfTwo
    <2>4. /\ Max({0, prob - Quantile}) - Extra(prob, window.pct) \in Int
          /\ Min({10000, prob + Quantile}) + Extra(prob, window.pct) \in Int
      <3>1. Max({0, prob - Quantile}) \in Int /\ Min({10000, prob + Quantile}) \in Int
        <4>1. /\ Max({0, prob - Quantile}) = IF 0 >= prob - Quantile THEN 0 ELSE prob - Quantile
              /\ Min({10000, prob + Quantile}) =
                   IF 10000 <= prob + Quantile THEN 10000 ELSE prob + Quantile
          BY <2>1, MaxOfTwo, MinOfTwo
        <4>2. QED
          BY <2>1, <4>1
      <3>2. QED
        BY <2>2, <3>1
    <2>5. Interval(prob, Extra(prob, window.pct)) \in [lower : Int, upper : Int]
      <3>1. /\ Max({0, Max({0, prob - Quantile}) - Extra(prob, window.pct)}) \in Int
            /\ Min({10000, Min({10000, prob + Quantile}) + Extra(prob, window.pct)}) \in Int
        <4> DEFINE x == Max({0, prob - Quantile}) - Extra(prob, window.pct)
                   y == Min({10000, prob + Quantile}) + Extra(prob, window.pct)
        <4>1. x \in Int /\ y \in Int
          BY <2>4
        <4> HIDE DEF x, y
        <4>2. Max({0, x}) \in Int /\ Min({10000, y}) \in Int
          BY <4>1, MaxOfTwo, MinOfTwo
        <4>3. QED
          BY <4>2 DEF x, y
      <3>2. QED
        BY <3>1 DEF Interval
    <2>6. QED
      BY <2>5
  <1>9. RiskTier(prob) \in {1, 2, 3}
    BY DEF RiskTier
  <1> HIDE DEF interval
  <1>10. advice \in Advice
    <2>1. advice \in [window : MeasuredWindow, interval : [lower : Int, upper : Int],
                        prob : Chance, baseline : Int, tier : {1, 2, 3}]
      BY <1>2, <1>3, <1>4, <1>8, <1>9
    <2>2. /\ advice.window = window /\ advice.interval = interval /\ advice.baseline = baseline
          /\ advice.prob = prob
      OBVIOUS
    <2> HIDE DEF advice
    <2>3. Advised(advice)
      BY <2>2, <1>5, <1>6 DEF Advised
    <2>4. QED
      BY <2>1, <2>3 DEF Advice
  <1> HIDE DEF advice
  <1>11. maintenance' \in Seq(Advice)
    BY <1>1, <1>2, <1>10, AppendProperties
  <1>12. ExtractorInv'
    BY DEF AdviceInv, ExtractorInv, featureVars
  <1>13. QED
    BY <1>1, <1>2, <1>7, <1>11, <1>12 DEF AdviceInv

(* A MAINTENANCE_ADVISORY rests on a full window that ends with a reading  *)
(* and has no more filled in than the threshold and no more than it says,  *)
(* and its interval has at least half of the width that the rule adds for  *)
(* that, for any assets, gaps, windows, probabilities and restarts         *)
(* (feature_extractor.py, maintenance_service.py, conformal_wrapper.py).   *)
THEOREM AdviceRestsOnMeasurements == MaintenanceSpec => []AdvisedOnMeasurements
PROOF
  <1>1. AdviceInv /\ [MaintenanceNext]_maintenanceVars => AdviceInv'
    <2> SUFFICES ASSUME AdviceInv, [MaintenanceNext]_maintenanceVars
        PROVE  AdviceInv'
      OBVIOUS
    <2>1. ASSUME NEW a \in Asset, NEW topic \in Telemetry, NEW gap \in Gap,
                 ProcessReading(a, topic, gap), UNCHANGED serviceVars
          PROVE  AdviceInv'
      BY <2>1, ReadingStep DEF AdviceInv, serviceVars
    <2>2. CASE ExtractorRestarts /\ UNCHANGED serviceVars
      <3>1. /\ buffer' = [a \in Asset |-> <<>>] /\ interpolatedCount' = [a \in Asset |-> 0]
            /\ UNCHANGED featureWindows
        BY <2>2 DEF ExtractorRestarts
      <3>2. buffer' \in [Asset -> Seq(Row)] /\ interpolatedCount' \in [Asset -> Nat]
        BY <3>1, EmptyFillsNone
      <3>3. \A a \in Asset : Fills(buffer'[a]) <= interpolatedCount'[a]
        BY <3>1, EmptyFillsNone
      <3>4. ExtractorInv'
        BY <3>1, <3>2, <3>3 DEF AdviceInv, ExtractorInv
      <3>5. QED
        BY <2>2, <3>4 DEF AdviceInv, serviceVars
    <2>3. ASSUME NEW prob \in Probability, ProcessFeatureWindow(prob), UNCHANGED featureVars
          PROVE  AdviceInv'
      BY <2>3, WindowStep
    <2>4. ASSUME UNCHANGED featureVars PROVE ExtractorInv'
      BY <2>4 DEF AdviceInv, ExtractorInv, featureVars
    <2>5. CASE CommitWindows /\ UNCHANGED featureVars
      BY <2>4, <2>5 DEF AdviceInv, CommitWindows
    <2>6. CASE ServiceRestarts /\ UNCHANGED featureVars
      BY <2>4, <2>6 DEF AdviceInv, ServiceRestarts, Unset
    <2>7. CASE UNCHANGED maintenanceVars
      BY <2>4, <2>7 DEF AdviceInv, maintenanceVars, serviceVars
    <2>8. QED
      BY <2>1, <2>2, <2>3, <2>5, <2>6, <2>7 DEF MaintenanceNext, ExtractorNext, ServiceNext
  <1>2. AdviceInv => AdvisedOnMeasurements
    <2> SUFFICES ASSUME AdviceInv
        PROVE  AdvisedOnMeasurements
      OBVIOUS
    <2>1. \A i \in DOMAIN maintenance : Advised(maintenance[i])
      <3>1. maintenance \in Seq(Advice)
        BY DEF AdviceInv
      <3>2. \A i \in DOMAIN maintenance : maintenance[i] \in Advice
        BY <3>1, LenProperties, ElementOfSeq
      <3>3. QED
        BY <3>2 DEF Advice
    <2>2. HalfOfTheRule
      BY <2>1 DEF Advised, WideEnough, HalfOfTheRule
    <2>3. \A window : FilledRows(window) = Fills(window.rows)
      BY DEF FilledRows, Fills, FilledPlaces
    <2>4. QED
      BY <2>1, <2>2, <2>3 DEF AdvisedOnMeasurements, Advised, Measured
  <1>3. QED
    BY <1>1, <1>2, AdviceInvInit, PTL DEF MaintenanceSpec

-----------------------------------------------------------------------------
(* The Kavach advisory.  Brakes take off at least Rate in each step, so    *)
(* either the train stands or Rate times the steps was taken off.          *)
LEMMA DivisionKeepsOrder ==
  ASSUME NEW a \in Nat, NEW b \in Nat, NEW n \in Nat, n > 0, a <= b
  PROVE  a \div n \in Nat /\ b \div n \in Nat /\ a \div n <= b \div n
PROOF OBVIOUS

LEMMA TenthsAreNatural == \A s \in Nat : s \div 10 \in Nat
PROOF OBVIOUS

LEMMA ProductKeepsOrder ==
  ASSUME NEW a \in Nat, NEW b \in Nat, NEW n \in Nat, a <= b
  PROVE  a * n \in Nat /\ b * n \in Nat /\ a * n <= b * n /\ n * a <= n * b
PROOF OBVIOUS

LEMMA DragIsNatural ==
  ASSUME NEW v \in Nat, NEW config \in TrainConfig
  PROVE  Davis(v, config) \in Nat /\ AerodynamicDrag(v, config) \in Nat
PROOF
  <1>1. config.davisC \in Nat /\ config.aero \in Nat
    BY DEF TrainConfig
  <1>2. Davis(v, config) \in Nat
    <2> DEFINE kmh == (v * 36) \div 10000
               sum == 150000 + 750 * kmh + config.davisC * kmh * kmh
    <2>1. kmh \in Nat
      OBVIOUS
    <2>2. sum \in Nat
      <3> HIDE DEF kmh
      <3> QED BY <1>1, <2>1
    <2>3. Davis(v, config) = sum \div 100000
      BY DEF Davis
    <2> HIDE DEF sum
    <2>4. QED
      BY <2>2, <2>3
  <1>3. AerodynamicDrag(v, config) \in Nat
    <2> DEFINE ms == v \div 1000
               sum == ms * ms * config.aero
    <2>1. ms \in Nat
      OBVIOUS
    <2>2. sum \in Nat
      <3> HIDE DEF ms
      <3> QED BY <1>1, <2>1
    <2>3. AerodynamicDrag(v, config) = sum \div 100000
      BY DEF AerodynamicDrag
    <2> HIDE DEF sum
    <2>4. QED
      BY <2>2, <2>3
  <1>4. QED
    BY <1>2, <1>3

LEMMA DecelerationIsInt ==
  ASSUME NEW v \in Nat, NEW config \in TrainConfig, config.inertia > 0, NEW gradient \in Int,
         NEW mu \in Nat
  PROVE  Deceleration(v, mu, gradient, config) \in Int
PROOF
  <1> DEFINE b == config.brakeWeight
             n == config.inertia
             grip == (mu * 981) \div 1000
             press == (grip * b) \div 100
             slope == (981 * gradient) \div 100
             force == press + AerodynamicDrag(v, config) + Davis(v, config) + slope
  <1>1. b \in Nat /\ n \in Nat /\ n > 0
    BY DEF TrainConfig
  <1>2. grip \in Nat /\ slope \in Int
    OBVIOUS
  <1>3. Deceleration(v, mu, gradient, config) = Least((force * 100) \div n, grip)
    BY DEF Deceleration
  <1> HIDE DEF b, n, grip, slope
  <1>4. grip * b \in Nat
    BY <1>1, <1>2, ProductKeepsOrder
  <1>5. press \in Nat
    BY <1>4, DivisionKeepsOrder
  <1> HIDE DEF press
  <1>6. force \in Int
    BY <1>2, <1>5, DragIsNatural
  <1> HIDE DEF force
  <1>7. (force * 100) \div n \in Int
    BY <1>1, <1>6
  <1>8. QED
    BY <1>2, <1>3, <1>7 DEF Least

(* The brakes are the least of it, on every better rail.                   *)
LEMMA BrakesAreTheLeast ==
  ASSUME NEW v \in Nat, NEW config \in TrainConfig, config.inertia > 0, NEW gradient \in Nat,
         NEW low \in Nat, NEW mu \in Nat, low <= mu
  PROVE  /\ Braking(low, config) \in Nat /\ Deceleration(v, mu, gradient, config) \in Nat
         /\ Braking(low, config) <= Deceleration(v, mu, gradient, config)
PROOF
  <1> DEFINE b == config.brakeWeight
             n == config.inertia
             gripL == (low * 981) \div 1000
             grip == (mu * 981) \div 1000
             pressL == (gripL * b) \div 100
             press == (grip * b) \div 100
             more == AerodynamicDrag(v, config) + Davis(v, config) + (981 * gradient) \div 100
             force == press + AerodynamicDrag(v, config) + Davis(v, config) + (981 * gradient) \div 100
  <1>1. b \in Nat /\ n \in Nat /\ n > 0
    BY DEF TrainConfig
  <1>2. gripL \in Nat /\ grip \in Nat /\ gripL <= grip
    OBVIOUS
  <1>3. Braking(low, config) = Least((pressL * 100) \div n, gripL)
    BY DEF Braking
  <1>4. Deceleration(v, mu, gradient, config) = Least((force * 100) \div n, grip)
    BY DEF Deceleration
  <1> HIDE DEF b, n, gripL, grip
  <1>5. gripL * b \in Nat /\ grip * b \in Nat /\ gripL * b <= grip * b
    BY <1>1, <1>2, ProductKeepsOrder
  <1>6. pressL \in Nat /\ press \in Nat /\ pressL <= press
    BY <1>5, DivisionKeepsOrder
  <1> HIDE DEF pressL, press
  <1>7. force \in Nat /\ pressL <= force
    <2>1. (981 * gradient) \div 100 \in Nat
      OBVIOUS
    <2>2. QED
      BY <1>6, <2>1, DragIsNatural
  <1> HIDE DEF force
  <1>8. /\ (pressL * 100) \div n \in Nat /\ (force * 100) \div n \in Nat
        /\ (pressL * 100) \div n <= (force * 100) \div n
    BY <1>1, <1>6, <1>7, DivisionKeepsOrder
  <1>9. QED
    BY <1>2, <1>3, <1>4, <1>8 DEF Least

LEMMA BrakingIsNatural ==
  ASSUME NEW config \in TrainConfig, config.inertia > 0, NEW mu \in Nat
  PROVE  Braking(mu, config) \in Nat
PROOF
  <1>1. 0 \in Nat /\ mu <= mu
    OBVIOUS
  <1>2. QED
    BY <1>1, BrakesAreTheLeast

LEMMA AdhesionIsNatural ==
  ASSUME NEW vibration \in Nat, NEW humidity \in Nat
  PROVE  Adhesions(vibration, humidity) \subseteq Nat
PROOF
  <1>1. Rail(vibration, humidity).mu \in Nat /\ Rail(vibration, humidity).ks \in Nat
    BY DEF Rail
  <1> DEFINE penalty == Most(0, 1000 - 3 * Most(0, vibration - 10))
  <1>2. penalty \in Int
    BY DEF Most
  <1> DEFINE A(loss) == (((Rail(vibration, humidity).mu * (100 - loss)) \div 100) * penalty) \div 1000
  <1>3. \A loss \in Nat : A(loss) \in Int
    <2> HIDE DEF penalty
    <2> TAKE loss \in Nat
    <2>1. Rail(vibration, humidity).mu * (100 - loss) \in Int
      BY <1>1
    <2>2. (Rail(vibration, humidity).mu * (100 - loss)) \div 100 \in Int
      BY <2>1
    <2>3. QED
      BY <1>2, <2>2
  <1>4. Adhesions(vibration, humidity) =
          {Most(200, Least(4000, A(loss))) : loss \in {0, Rail(vibration, humidity).ks}}
    BY DEF Adhesions
  <1> HIDE DEF A
  <1>5. \A loss \in Nat : Most(200, Least(4000, A(loss))) \in Nat
    BY <1>3 DEF Most, Least
  <1>6. QED
    BY <1>1, <1>4, <1>5

LEMMA FadeIsNatural == \A temp \in Int : Fades(temp) \subseteq Nat
PROOF BY DEF Fades, Most

(* What a request was asked with, once its braking is computed.            *)
Asked(r) ==
  /\ r.speed \in Nat /\ r.train \in TrainConfig /\ r.train.inertia > 0 /\ r.train.reaction \in Nat
  /\ r.mu \in Nat /\ r.fade \in Nat /\ r.gradient \in Int
  /\ Rate(r.mu, r.fade, r.train) \in Nat

(* The train that brakes has lost at least what the brakes take off.       *)
Slowing(r, v, steps) == v = 0 \/ v + Rate(r.mu, r.fade, r.train) * steps <= r.speed

KavachInv ==
  /\ kavachAt \in {"idle", "propagate", "brake", "answer"}
  /\ speed \in Nat /\ braked \in Nat /\ distance \in Nat
  /\ kavachAt \in {"propagate", "brake"} =>
       Asked(request) /\ (Suffices(request) => speed <= request.speed)
  /\ kavachAt = "brake" /\ Suffices(request) => Slowing(request, speed, braked)
  /\ kavachAt = "answer" /\ Suffices(request) => speed <= 10
  /\ CapSparesGoodBrakes

LEMMA SpeedsFall ==
  ASSUME NEW v \in Nat, NEW a \in Int
  PROVE  /\ Most(0, v - a \div 10) \in Nat /\ (a >= 0 => Most(0, v - a \div 10) <= v)
         /\ Most(0, v - a \div 10) = 0 \/ Most(0, v - a \div 10) = v - a \div 10
PROOF BY DEF Most

LEMMA AskStep ==
  ASSUME KavachInv, Ask
  PROVE  KavachInv'
PROOF
  <1> USE KavachAssumption DEF KavachInv
  <1>1. advisory' = NoAdvisory
    BY DEF Ask
  <1>2. PICK v \in Speed, config \in Train, vibration \in Vibration, humidity \in Humidity :
          IF vibration = NoVibration
          THEN UNCHANGED <<kavachAt, request, speed, braked, distance>>
          ELSE \E mu \in Adhesions(vibration, humidity), gradient \in Gradient, temp \in AmbientTemp :
                 \E fade \in Fades(temp) :
                   /\ request' = [speed |-> v, train |-> config, mu |-> mu,
                                  fade |-> fade, gradient |-> gradient]
                   /\ speed' = v /\ braked' = 0
                   /\ distance' = (v * config.reaction) \div 10
                   /\ kavachAt' = IF v <= 0 THEN "answer" ELSE "propagate"
    BY DEF Ask
  <1>3. CASE vibration = NoVibration
    BY <1>1, <1>2, <1>3 DEF Ask, CapSparesGoodBrakes
  <1>4. CASE vibration # NoVibration
    <2>1. PICK mu \in Adhesions(vibration, humidity), gradient \in Gradient, temp \in AmbientTemp :
             \E fade \in Fades(temp) :
                   /\ request' = [speed |-> v, train |-> config, mu |-> mu,
                                  fade |-> fade, gradient |-> gradient]
                   /\ speed' = v /\ braked' = 0
                   /\ distance' = (v * config.reaction) \div 10
                   /\ kavachAt' = IF v <= 0 THEN "answer" ELSE "propagate"
      BY <1>2, <1>4
    <2>2. PICK fade \in Fades(temp) :
                   /\ request' = [speed |-> v, train |-> config, mu |-> mu,
                                  fade |-> fade, gradient |-> gradient]
                   /\ speed' = v /\ braked' = 0
                   /\ distance' = (v * config.reaction) \div 10
                   /\ kavachAt' = IF v <= 0 THEN "answer" ELSE "propagate"
      BY <2>1
    <2>3. mu \in Nat /\ fade \in Nat /\ gradient \in Int
      BY <1>4, AdhesionIsNatural, FadeIsNatural
    <2>4. config \in TrainConfig /\ config.inertia > 0 /\ config.reaction \in Nat /\ v \in Nat
      BY DEF TrainConfig
    <2>5. v * config.reaction \in Nat
      BY <2>4, ProductKeepsOrder
    <2>6. (v * config.reaction) \div 10 \in Nat
      BY <2>5, DivisionKeepsOrder
    <2>7. Rate(mu, fade, config) \in Nat
      <3> DEFINE low == (mu * fade) \div 100
      <3>1. mu * fade \in Nat
        BY <2>3, ProductKeepsOrder
      <3>2. low \in Nat
        BY <3>1, DivisionKeepsOrder
      <3> HIDE DEF low
      <3>3. Braking(low, config) \in Nat
        BY <2>3, <2>4, <3>2, BrakingIsNatural
      <3>4. Braking(low, config) \div 10 \in Nat
        BY <3>3, DivisionKeepsOrder
      <3>5. QED
        BY <3>4 DEF Rate, low
    <2>8. request'.speed = v
      BY <2>2
    <2>9. Asked(request')
      BY <2>2, <2>3, <2>4, <2>7 DEF Asked
    <2>10. QED
      BY <1>1, <2>2, <2>4, <2>6, <2>8, <2>9 DEF CapSparesGoodBrakes
  <1>5. QED
    BY <1>3, <1>4

LEMMA PropagateStep ==
  ASSUME KavachInv, Propagate
  PROVE  KavachInv'
PROOF
  <1> USE KavachAssumption DEF KavachInv
  <1>1. Asked(request) /\ request' = request /\ advisory' = advisory
    BY DEF Propagate
  <1>2. CASE braked < request.train.propagation /\ speed > 0
    <2> DEFINE ramped == (request.mu * braked) \div Most(request.train.propagation, 1)
               a == Deceleration(speed, ramped, request.gradient, request.train)
    <2>1. request.train.propagation \in Nat
      BY <1>1 DEF Asked, TrainConfig
    <2>2. request.mu * braked \in Nat
      BY <1>1, ProductKeepsOrder DEF Asked
    <2>3. Most(request.train.propagation, 1) \in Nat /\ Most(request.train.propagation, 1) > 0
      BY <2>1 DEF Most
    <2>4. ramped \in Nat
      BY <2>2, <2>3, DivisionKeepsOrder
    <2>5. a \in Int /\ (Suffices(request) => a >= 0)
      <3> HIDE DEF ramped
      <3>1. ramped <= ramped
        BY <2>4
      <3>2. a \in Int
        BY <1>1, <2>4, DecelerationIsInt DEF Asked
      <3>3. ASSUME Suffices(request) PROVE a \in Nat
        <4>1. request.gradient \in Nat
          BY <1>1, <3>3 DEF Suffices, Asked
        <4>2. QED
          BY <1>1, <2>4, <3>1, <4>1, BrakesAreTheLeast DEF Asked
      <3> HIDE DEF a
      <3> QED BY <3>2, <3>3
    <2>6. speed' = Most(0, speed - a \div 10) /\ distance' = distance + speed' \div 10 /\ braked' = braked + 1
          /\ kavachAt' = kavachAt
      BY <1>2 DEF Propagate, Slowed
    <2> HIDE DEF a
    <2>7. speed' \in Nat /\ (Suffices(request) => speed' <= speed)
      BY <2>5, <2>6, SpeedsFall
    <2>8. speed' \div 10 \in Nat
      BY <2>7, TenthsAreNatural
    <2>9. kavachAt' = "propagate" /\ kavachAt = "propagate"
      BY <2>6 DEF Propagate
    <2>10. request.speed \in Nat
      BY <1>1 DEF Asked
    <2>11. QED
      BY <1>1, <2>6, <2>7, <2>8, <2>9, <2>10 DEF CapSparesGoodBrakes
  <1>3. CASE ~(braked < request.train.propagation /\ speed > 0)
    <2>1. kavachAt' = "brake" /\ braked' = 0 /\ speed' = speed /\ distance' = distance
          /\ kavachAt = "propagate"
      BY <1>3 DEF Propagate
    <2>2. Rate(request.mu, request.fade, request.train) * 0 = 0
      BY <1>1 DEF Asked
    <2>3. Suffices(request) => Slowing(request, speed, 0)
      BY <1>1, <2>1, <2>2 DEF Slowing, Asked
    <2>4. QED
      BY <1>1, <2>1, <2>3 DEF CapSparesGoodBrakes
  <1>4. QED
    BY <1>2, <1>3

LEMMA BrakeStep ==
  ASSUME KavachInv, Brake
  PROVE  KavachInv'
PROOF
  <1> USE KavachAssumption DEF KavachInv
  <1> DEFINE rate == Rate(request.mu, request.fade, request.train)
  <1>1. /\ Asked(request) /\ request' = request /\ advisory' = advisory /\ kavachAt = "brake"
        /\ request.speed \in Nat
    BY DEF Brake, Asked
  <1>2. rate \in Nat /\ (Suffices(request) => Slowing(request, speed, braked))
    BY <1>1 DEF Asked
  <1>3. CASE Stands \/ TimeIsUp
    <2>1. kavachAt' = "answer" /\ speed' = speed /\ distance' = distance /\ braked' = braked
      BY <1>3 DEF Brake
    <2>2. ASSUME TimeIsUp, Suffices(request) PROVE speed = 0
      <3>1. MaxBrakingTime * 10 \in Nat /\ MaxBrakingTime * 10 <= braked
        BY <2>2 DEF TimeIsUp
      <3>2. rate * (MaxBrakingTime * 10) <= rate * braked
        BY <1>2, <3>1, ProductKeepsOrder
      <3>3. request.speed <= rate * (MaxBrakingTime * 10)
        BY <2>2 DEF Suffices
      <3>4. speed = 0 \/ speed + rate * braked <= request.speed
        BY <1>2, <2>2 DEF Slowing
      <3>5. rate * braked \in Nat /\ rate * (MaxBrakingTime * 10) \in Nat
        BY <1>2, <3>1, ProductKeepsOrder
      <3> DEFINE p == rate * braked
                 q == rate * (MaxBrakingTime * 10)
      <3> HIDE DEF p, q
      <3>6. p \in Nat /\ q \in Nat /\ q <= p /\ request.speed <= q /\ (speed = 0 \/ speed + p <= request.speed)
        BY <3>2, <3>3, <3>4, <3>5 DEF p, q
      <3>7. QED
        BY <1>1, <3>6
    <2>3. Suffices(request) => speed <= 10
      BY <1>3, <2>2 DEF Stands
    <2>4. QED
      BY <1>1, <2>1, <2>3 DEF CapSparesGoodBrakes
  <1>4. CASE ~(Stands \/ TimeIsUp)
    <2> DEFINE faded == (request.mu * request.fade) \div 100
               a == Deceleration(speed, EffectiveMu, request.gradient, request.train)
    <2>1. request.mu * request.fade \in Nat
      BY <1>1, ProductKeepsOrder DEF Asked
    <2>2. faded \in Nat
      BY <2>1, DivisionKeepsOrder
    <2>3. EffectiveMu \in Nat /\ faded <= EffectiveMu
      <3>1. EffectiveMu = IF speed < 5000 THEN faded + (faded * (5000 - speed)) \div 100000 ELSE faded
        BY DEF EffectiveMu
      <3> HIDE DEF faded
      <3>2. CASE speed < 5000
        <4>1. 5000 - speed \in Nat
          BY <3>2
        <4>2. faded * (5000 - speed) \in Nat
          BY <2>2, <4>1, ProductKeepsOrder
        <4>3. (faded * (5000 - speed)) \div 100000 \in Nat
          BY <4>2, DivisionKeepsOrder
        <4>4. QED
          BY <2>2, <3>1, <3>2, <4>3
      <3>3. CASE ~(speed < 5000)
        BY <2>2, <3>1, <3>3
      <3>4. QED
        BY <3>2, <3>3
    <2>4. /\ Braking(faded, request.train) \in Nat /\ a \in Int
          /\ Suffices(request) => a \in Nat /\ Braking(faded, request.train) <= a
      <3> HIDE DEF faded
      <3>1. Braking(faded, request.train) \in Nat /\ a \in Int
        BY <1>1, <2>2, <2>3, BrakingIsNatural, DecelerationIsInt DEF Asked
      <3>2. ASSUME Suffices(request)
            PROVE  a \in Nat /\ Braking(faded, request.train) <= a
        <4>1. request.gradient \in Nat
          BY <1>1, <3>2 DEF Suffices, Asked
        <4>2. QED
          BY <1>1, <2>2, <2>3, <4>1, BrakesAreTheLeast DEF Asked
      <3>3. QED
        BY <3>1, <3>2
    <2>5. rate = Braking(faded, request.train) \div 10
      BY DEF Rate
    <2>6. Suffices(request) => a >= 0 /\ a \div 10 \in Nat /\ rate <= a \div 10
      <3> HIDE DEF a, faded, rate
      <3> QED BY <2>4, <2>5, DivisionKeepsOrder
    <2>7. speed' = Most(0, speed - a \div 10) /\ distance' = distance + speed' \div 10 /\ braked' = braked + 1
          /\ kavachAt' = kavachAt
      BY <1>4 DEF Brake, Slowed
    <2> HIDE DEF a, rate
    <2>8. /\ speed' \in Nat /\ (a >= 0 => speed' <= speed)
          /\ speed' = 0 \/ speed' = speed - a \div 10
      BY <2>4, <2>7, SpeedsFall
    <2>9. speed' \div 10 \in Nat
      BY <2>8, TenthsAreNatural
    <2>10. ASSUME Suffices(request) PROVE Slowing(request, speed', braked + 1)
      <3>1. rate * (braked + 1) = rate * braked + rate /\ rate * braked \in Nat
        BY <1>2, ProductKeepsOrder
      <3>2. speed = 0 \/ speed + rate * braked <= request.speed
        BY <1>2, <2>10 DEF Slowing, rate
      <3> DEFINE p == rate * braked
      <3>3. p \in Nat /\ (speed = 0 \/ speed + p <= request.speed) /\ rate * (braked + 1) = p + rate
        BY <3>1, <3>2
      <3> HIDE DEF p
      <3>4. speed' = 0 \/ speed' + rate * (braked + 1) <= request.speed
        <4>1. CASE speed' = 0
          BY <4>1
        <4>2. CASE speed' # 0
          <5>1. speed' = speed - a \div 10 /\ speed # 0
            BY <2>6, <2>8, <2>10, <4>2
          <5>2. speed + p <= request.speed
            BY <3>3, <5>1
          <5>3. speed' + (p + rate) <= request.speed
            BY <1>1, <1>2, <2>6, <2>10, <3>3, <5>1, <5>2
          <5>4. QED
            BY <3>3, <5>3
        <4>3. QED
          BY <4>1, <4>2
      <3>5. QED
        BY <3>4 DEF Slowing, rate
    <2>11. QED
      BY <1>1, <2>6, <2>7, <2>8, <2>9, <2>10 DEF CapSparesGoodBrakes
  <1>5. QED
    BY <1>3, <1>4

(* The cap of five minutes is met by no train that its brakes can stop in  *)
(* that time on a track that does not fall, whatever its load of drag,     *)
(* resistance and fade: the distance handed out for it is that of a train  *)
(* that stands (kavach_advisory.py, compute_braking_distance).             *)
THEOREM GoodBrakesStop == KavachSpec => []CapSparesGoodBrakes
PROOF
  <1>1. KavachInit => KavachInv
    BY DEF KavachInit, KavachInv, CapSparesGoodBrakes
  <1>2. KavachInv /\ [KavachNext]_kavachVars => KavachInv'
    <2> SUFFICES ASSUME KavachInv, [KavachNext]_kavachVars PROVE KavachInv'
      OBVIOUS
    <2>1. CASE Ask
      BY <2>1, AskStep
    <2>2. CASE Propagate
      BY <2>2, PropagateStep
    <2>3. CASE Brake
      BY <2>3, BrakeStep
    <2>4. CASE Answer
      <3>1. /\ advisory'.asked = request /\ advisory'.left = speed
            /\ kavachAt = "answer" /\ kavachAt' = "idle" /\ speed' = 0 /\ braked' = 0 /\ distance' = 0
        BY <2>4 DEF Answer
      <3>2. Suffices(advisory'.asked) => advisory'.left <= 10
        BY <3>1 DEF KavachInv
      <3>3. QED
        BY <3>1, <3>2 DEF KavachInv, CapSparesGoodBrakes
    <2>5. CASE UNCHANGED kavachVars
      BY <2>5 DEF kavachVars, KavachInv, CapSparesGoodBrakes
    <2>6. QED
      BY <2>1, <2>2, <2>3, <2>4, <2>5 DEF KavachNext
  <1>3. KavachInv => CapSparesGoodBrakes
    BY DEF KavachInv
  <1>4. QED
    BY <1>1, <1>2, <1>3, PTL DEF KavachSpec
=============================================================================
