---------------------------- MODULE PipelineProofs ----------------------------
(***************************************************************************)
(* Proofs about the services around the event pipeline: the zone isolator, *)
(* the conflict detector of the digital twin, the feed watchdog, the NTES  *)
(* and the stream adapters and the validator of records, for any zones,    *)
(* trains, topics, capacities, thresholds, frames and records.             *)
(***************************************************************************)
EXTENDS NtesAdapter, StreamAdapter, SchemaValidator, ConflictDetector, ZoneIsolator,
        HeartbeatWatchdog, Corridor, FiniteSetTheorems, SequenceTheorems, TLAPS

-----------------------------------------------------------------------------
(* The zone isolator.  Isolation is earned because the counter the code    *)
(* decides by is, at every moment, the number of alerts since the last     *)
(* restore.                                                                *)
IsolatorInv ==
  /\ IsolatorTypeOK
  /\ \A z \in Zone : count[z] = alertsSince[z]
  /\ IsolationIsEarned

(* A zone is isolated exactly while it has had enough alerts since it was  *)
(* last restored (record_zone_alert, restore_zone).                        *)
THEOREM IsolationAlwaysEarned == IsolatorSpec => []IsolationIsEarned
<1>1. IsolatorInit => IsolatorInv
  BY IsolatorAssumption
     DEF IsolatorInit, IsolatorInv, IsolatorTypeOK, IsolationIsEarned, Limit
<1>2. IsolatorInv /\ [IsolatorNext]_isolatorVars => IsolatorInv'
  <2> SUFFICES ASSUME IsolatorInv, [IsolatorNext]_isolatorVars PROVE IsolatorInv'
    OBVIOUS
  <2> USE IsolatorAssumption DEF IsolatorInv, IsolatorTypeOK, Limit
  <2>1. ASSUME NEW z \in Zone, RecordAlert(z)
        PROVE  IsolatorInv'
    <3>1. IsolatorTypeOK'
      <4>1. count' \in [Zone -> 0..Limit] /\ alertsSince' \in [Zone -> 0..Limit]
        BY <2>1 DEF RecordAlert
      <4>2. /\ degraded' \in [Zone -> BOOLEAN] /\ flink' \in [Zone -> BOOLEAN]
            /\ reported' \in [Zone -> {"RESTORED", "ISOLATED"}]
        BY <2>1 DEF RecordAlert, Reported, Stopped
      <4>3. QED
        BY <2>1, <4>1, <4>2 DEF RecordAlert
    <3>2. \A y \in Zone : count'[y] = alertsSince'[y]
      BY <2>1 DEF RecordAlert
    <3>3. IsolationIsEarned'
      BY <2>1 DEF RecordAlert, Enters, IsolationIsEarned
    <3>4. QED
      BY <3>1, <3>2, <3>3
  <2>2. ASSUME NEW r \in Restorer, NEW z \in Zone, Restore(r, z)
        PROVE  IsolatorInv'
    BY <2>2 DEF Restore, CountAfterRestore, IsolationIsEarned
  <2>3. ASSUME NEW r \in Restorer, ReportRestored(r)
        PROVE  IsolatorInv'
    BY <2>3 DEF ReportRestored, Reported, IsolationIsEarned
  <2>4. CASE UNCHANGED isolatorVars
    BY <2>4 DEF isolatorVars, IsolationIsEarned
  <2>5. QED
    BY <2>1, <2>2, <2>3, <2>4 DEF IsolatorNext
<1>3. QED
  BY <1>1, <1>2, PTL DEF IsolatorSpec, IsolatorInv

-----------------------------------------------------------------------------
(* The conflict detector.  A position is written a step after it was       *)
(* accepted, and the occupants of a segment are never forgotten but for    *)
(* cleared trains: so whoever is in a segment, or about to be written      *)
(* there, is among its occupants, who are within its capacity.             *)
TwinInv ==
  /\ TwinTypeOK
  /\ \A s \in Segment : Cardinality(occupants[s]) <= Capacity[s]
  /\ \A t \in TwinTrain \ Cleared : \A s \in Segment :
       position[t] = s \/ accepted = <<t, s>> => t \in occupants[s]

(* Sets of trains are finite.                                              *)
LEMMA TrainSets ==
  ASSUME NEW S \in SUBSET TwinTrain
  PROVE  IsFiniteSet(S) /\ Cardinality(S) \in Nat
BY DetectorAssumption, FS_Subset, FS_CardinalityType

(* A train that may enter keeps the segment within its capacity.           *)
LEMMA EnteringFits ==
  ASSUME TwinTypeOK, NEW t \in TwinTrain, NEW s \in Segment, MayEnter(t, s),
         Cardinality(occupants[s]) <= Capacity[s]
  PROVE  Cardinality(occupants[s] \cup {t}) <= Capacity[s]
<1>1. occupants[s] \in SUBSET TwinTrain
  BY DEF TwinTypeOK
<1>2. Capacity[s] \in Nat /\ Cardinality(occupants[s]) \in Nat /\ IsFiniteSet(occupants[s])
  BY <1>1, TrainSets, DetectorAssumption
<1>3. CASE t \in occupants[s]
  <2>1. occupants[s] \cup {t} = occupants[s]
    BY <1>3
  <2>2. QED
    BY <2>1
<1>4. CASE t \notin occupants[s]
  <2>1. Cardinality(occupants[s] \cup {t}) = Cardinality(occupants[s]) + 1
    BY <1>2, <1>4, FS_AddElement
  <2>2. Cardinality(occupants[s]) < Capacity[s]
    BY <1>4 DEF MayEnter
  <2>3. QED
    BY <1>2, <2>1, <2>2
<1>5. QED
  BY <1>3, <1>4

(* The state shows no more trains in a segment than it holds, whatever     *)
(* order positions and clearings come in (process_event, clear_train).     *)
THEOREM CapacityIsKept == TwinSpec => []WithinCapacity
<1>1. TwinInit => TwinInv
  <2> SUFFICES ASSUME TwinInit PROVE TwinInv
    OBVIOUS
  <2>1. TwinTypeOK
    BY DEF TwinInit, TwinTypeOK, Place
  <2>2. \A s \in Segment : Cardinality(occupants[s]) <= Capacity[s]
    BY DetectorAssumption, FS_EmptySet DEF TwinInit
  <2>3. \A t \in TwinTrain, s \in Segment : position[t] # s /\ accepted # <<t, s>>
    BY DetectorAssumption DEF TwinInit, Idle
  <2>4. QED
    BY <2>1, <2>2, <2>3 DEF TwinInv
<1>2. TwinInv /\ [TwinNext]_twinVars => TwinInv'
  <2> SUFFICES ASSUME TwinInv, [TwinNext]_twinVars PROVE TwinInv'
    OBVIOUS
  <2>1. ASSUME NEW t \in TwinTrain, NEW s \in Segment, Validate(t, s)
        PROVE  TwinInv'
    <3>1. TwinTypeOK'
      BY <2>1 DEF TwinInv, TwinTypeOK, Validate, Entered, Place
    <3>2. Cardinality(occupants[s] \cup {t}) <= Capacity[s]
      BY <2>1, EnteringFits DEF TwinInv, Validate
    <3>3. occupants' = [occupants EXCEPT ![s] = occupants[s] \cup {t}]
      BY <2>1 DEF Validate, Entered
    <3>4. \A x \in Segment : Cardinality(occupants'[x]) <= Capacity[x]
      BY <3>2, <3>3 DEF TwinInv, TwinTypeOK
    <3>5. ASSUME NEW u \in TwinTrain \ Cleared, NEW x \in Segment,
                 position'[u] = x \/ accepted' = <<u, x>>
          PROVE  u \in occupants'[x]
      <4>1. position' = position /\ accepted' = <<t, s>>
        BY <2>1 DEF Validate
      <4>2. CASE position[u] = x
        BY <3>3, <4>2 DEF TwinInv, TwinTypeOK
      <4>3. CASE <<t, s>> = <<u, x>>
        BY <3>3, <4>3 DEF TwinInv, TwinTypeOK
      <4>4. QED
        BY <3>5, <4>1, <4>2, <4>3
    <3>6. QED
      BY <3>1, <3>4, <3>5 DEF TwinInv
  <2>2. ASSUME NEW t \in TwinTrain, Unlocated(t)
        PROVE  TwinInv'
    <3>1. TwinTypeOK'
      BY <2>2 DEF TwinInv, TwinTypeOK, Unlocated, Place
    <3>2. \A u \in TwinTrain, x \in Segment : accepted' # <<u, x>>
      BY <2>2, DetectorAssumption DEF Unlocated
    <3>3. QED
      BY <2>2, <3>1, <3>2 DEF TwinInv, Unlocated
  <2>3. ASSUME NEW t \in TwinTrain, ClearTrain(t)
        PROVE  TwinInv'
    <3>1. TwinTypeOK'
      BY <2>3 DEF TwinInv, TwinTypeOK, ClearTrain
    <3>2. ASSUME NEW s \in Segment
          PROVE  Cardinality(occupants'[s]) <= Capacity[s]
      <4>1. occupants'[s] = occupants[s] \ {t} /\ occupants[s] \in SUBSET TwinTrain
        BY <2>3 DEF ClearTrain, TwinInv, TwinTypeOK
      <4>2. IsFiniteSet(occupants[s])
        BY <4>1, TrainSets
      <4>3. Cardinality(occupants'[s]) <= Cardinality(occupants[s])
        BY <4>1, <4>2, FS_Subset
      <4>4. QED
        BY <4>1, <4>3, TrainSets, DetectorAssumption DEF TwinInv
    <3>3. ASSUME NEW u \in TwinTrain \ Cleared, NEW x \in Segment,
                 position'[u] = x \/ accepted' = <<u, x>>
          PROVE  u \in occupants'[x]
      BY <2>3, <3>3 DEF ClearTrain, TwinInv
    <3>4. QED
      BY <3>1, <3>2, <3>3 DEF TwinInv
  <2>4. CASE WritePosition
    <3>1. accepted \in TwinTrain \X Place
      BY <2>4 DEF WritePosition, TwinInv, TwinTypeOK
    <3>2. PICK t \in TwinTrain, s \in Place : accepted = <<t, s>>
      BY <3>1
    <3>3. position' = [position EXCEPT ![t] = s] /\ occupants' = occupants
      BY <2>4, <3>2 DEF WritePosition
    <3>4. TwinTypeOK'
      BY <2>4, <3>3 DEF WritePosition, TwinInv, TwinTypeOK
    <3>5. ASSUME NEW u \in TwinTrain \ Cleared, NEW x \in Segment,
                 position'[u] = x \/ accepted' = <<u, x>>
          PROVE  u \in occupants'[x]
      <4>1. position'[u] = x
        BY <2>4, <3>5 DEF WritePosition, Idle
      <4>2. position[u] = x \/ accepted = <<u, x>>
        BY <3>2, <3>3, <4>1 DEF TwinInv, TwinTypeOK
      <4>3. QED
        BY <3>3, <4>2 DEF TwinInv
    <3>6. QED
      BY <3>3, <3>4, <3>5 DEF TwinInv
  <2>5. CASE UNCHANGED twinVars
    BY <2>5 DEF twinVars, TwinInv, TwinTypeOK
  <2>6. QED
    BY <2>1, <2>2, <2>3, <2>4, <2>5 DEF TwinNext
<1>3. TwinInv => WithinCapacity
  <2> SUFFICES ASSUME TwinInv, NEW s \in Segment
               PROVE  Cardinality(At(s) \ Cleared) <= Capacity[s]
    BY DEF WithinCapacity
  <2>1. At(s) \ Cleared \subseteq occupants[s] /\ occupants[s] \in SUBSET TwinTrain
    BY DEF At, TwinInv, TwinTypeOK
  <2>2. /\ Cardinality(At(s) \ Cleared) <= Cardinality(occupants[s])
        /\ Cardinality(At(s) \ Cleared) \in Nat /\ Cardinality(occupants[s]) \in Nat
    BY <2>1, TrainSets, FS_Subset
  <2>3. QED
    BY <2>2, DetectorAssumption DEF TwinInv
<1>4. QED
  BY <1>1, <1>2, <1>3, PTL DEF TwinSpec

-----------------------------------------------------------------------------
(* The feed watchdog.  A topic that was reported since its last message is *)
(* marked as alerted, which only a message takes back.                     *)
WatchdogInv ==
  /\ WatchdogTypeOK
  /\ ReportsAreTrue
  /\ \A t \in Topic : alertsSent[t] > 0 => alerted[t]

(* A feed is reported at most once for each time it falls silent and never *)
(* before it was silent for the whole timeout (record_message, check_all). *)
THEOREM ReportsStayTrue == WatchdogSpec => []ReportsAreTrue
<1>1. WatchdogInit => WatchdogInv
  BY WatchdogAssumption DEF WatchdogInit, WatchdogInv, WatchdogTypeOK, ReportsAreTrue
<1>2. WatchdogInv /\ [WatchdogNext]_watchdogVars => WatchdogInv'
  <2> SUFFICES ASSUME WatchdogInv, [WatchdogNext]_watchdogVars PROVE WatchdogInv'
    OBVIOUS
  <2> USE WatchdogAssumption DEF WatchdogInv, WatchdogTypeOK
  <2>1. CASE TimePasses
    <3>1. \A t \in Topic : age'[t] \in 0..MaxAge /\ age'[t] >= age[t]
      BY <2>1 DEF TimePasses, Older
    <3>2. WatchdogTypeOK'
      BY <2>1, <3>1 DEF TimePasses
    <3>3. ReportsAreTrue'
      BY <2>1, <3>1 DEF TimePasses, ReportsAreTrue
    <3>4. QED
      BY <2>1, <3>2, <3>3 DEF TimePasses
  <2>2. ASSUME NEW t \in Topic, RecordMessage(t)
        PROVE  WatchdogInv'
    BY <2>2 DEF RecordMessage, AlertedAfterMessage, ReportsAreTrue
  <2>3. ASSUME NEW t \in Topic, CheckTopic(t)
        PROVE  WatchdogInv'
    <3>1. CASE MustAlert(t)
      <4>1. age[t] >= Timeout /\ alertsSent[t] = 0
        BY <3>1 DEF MustAlert, Silent
      <4>2. WatchdogTypeOK'
        <5>1. alertsSent' \in [Topic -> 0..2]
          BY <2>3, <3>1, <4>1 DEF CheckTopic
        <5>2. alerted' \in [Topic -> BOOLEAN]
          BY <2>3, <3>1 DEF CheckTopic
        <5>3. QED
          BY <2>3, <5>1, <5>2 DEF CheckTopic
      <4>3. ReportsAreTrue'
        BY <2>3, <3>1, <4>1 DEF CheckTopic, ReportsAreTrue
      <4>4. \A u \in Topic : alertsSent'[u] > 0 => alerted'[u]
        BY <2>3, <3>1 DEF CheckTopic
      <4>5. QED
        BY <4>2, <4>3, <4>4
    <3>2. CASE ~MustAlert(t)
      BY <2>3, <3>2 DEF CheckTopic, ReportsAreTrue
    <3>3. QED
      BY <3>1, <3>2
  <2>4. CASE \/ KafkaFails \/ KafkaRecovers \/ ReadClock \/ TakeLock \/ EndCheck
             \/ UNCHANGED watchdogVars
    <3>1. age' = age /\ alerted' = alerted /\ alertsSent' = alertsSent
      BY <2>4 DEF KafkaFails, KafkaRecovers, ReadClock, TakeLock, EndCheck, watchdogVars
    <3>2. /\ kafka' \in BOOLEAN /\ outages' \in 0..MaxOutages /\ late' \in 0..MaxLate
      <4>1. MaxLate \in Nat /\ MaxOutages \in Nat
        OBVIOUS
      <4>2. late' \in {0, late} /\ (outages' = outages \/ KafkaFails)
        BY <2>4 DEF KafkaFails, KafkaRecovers, ReadClock, TakeLock, EndCheck, watchdogVars
      <4>3. kafka' \in BOOLEAN
        BY <2>4 DEF KafkaFails, KafkaRecovers, ReadClock, TakeLock, EndCheck, watchdogVars
      <4>4. QED
        BY <4>1, <4>2, <4>3 DEF KafkaFails
    <3>3. /\ pass' \in {"sleeps", "waits", "checks"}
          /\ todo' \subseteq Topic /\ (todo' # {} => pass' = "checks")
      BY <2>4 DEF KafkaFails, KafkaRecovers, ReadClock, TakeLock, EndCheck, watchdogVars
    <3>4. QED
      BY <3>1, <3>2, <3>3 DEF ReportsAreTrue
  <2>5. QED
    BY <2>1, <2>2, <2>3, <2>4 DEF WatchdogNext, Watch
<1>3. QED
  BY <1>1, <1>2, PTL DEF WatchdogSpec, WatchdogInv

-----------------------------------------------------------------------------
(* The NTES adapter with its dead-letter router.                           *)
NtesInv == RouterTypeOK /\ records \in Seq(Feed) /\ ReportedAfterThree

(* An answer is a sequence of records of the feed.                         *)
LEMMA AnswersAreSequences == Answers \subseteq Seq(Feed)
<1> SUFFICES ASSUME NEW q \in Answers PROVE q \in Seq(Feed)
  OBVIOUS
<1>1. PICK k \in 0..2 : q \in [1..k -> Feed]
  BY DEF Answers
<1>2. QED
  BY <1>1

(* A failure of a source keeps the books of every source of the feed: the  *)
(* source is reported exactly when the row has reached the threshold.      *)
LEMMA FailureIsCounted ==
  ASSUME RouterTypeOK, ReportedAfterThree, NEW s \in Source, RecordFailure(s)
  PROVE  /\ RouterTypeOK'
         /\ s \in Feed \/ s = Api => ReportedAfterThree'
<1> USE RouterAssumption, NtesAssumption DEF Feed
<1>1. /\ failures[s] \in 0..Threshold - 1 /\ inARow[s] \in 0..Threshold
      /\ inARow'[s] = IF inARow[s] < Threshold THEN inARow[s] + 1 ELSE inARow[s]
  BY DEF RouterTypeOK, RecordFailure
<1>2. \A x \in Source \ {s} : inARow'[x] = inARow[x] /\ failures'[x] = failures[x]
  BY DEF RouterTypeOK, RecordFailure
<1>3. sent' \subseteq Kind \X {s}
  BY DEF RecordFailure
<1>4. RouterTypeOK'
  <2>1. inARow' \in [Source -> 0..Threshold]
    BY DEF RouterTypeOK, RecordFailure
  <2>2. failures' \in [Source -> 0..Threshold - 1]
    BY DEF RouterTypeOK, RecordFailure, AtThreshold
  <2>3. QED
    BY <1>3, <2>1, <2>2 DEF RouterTypeOK
<1>5. ASSUME NEW t \in Feed, t # s
      PROVE  Earned(t)' /\ Counted(t)'
  <2>1. \A k \in Kind : <<k, t>> \notin sent'
    BY <1>3, <1>5
  <2>2. t \in Source \ {s}
    BY <1>5
  <2>3. QED
    BY <1>2, <2>1, <2>2 DEF Earned, Counted, ReportedAfterThree
<1>6. ASSUME s \in Feed
      PROVE  Earned(s)' /\ Counted(s)'
  <2>1. inARow[s] < Threshold => failures[s] = inARow[s]
    BY <1>6 DEF ReportedAfterThree, Counted
  <2>2. CASE AtThreshold(s)
    <3>1. inARow'[s] = Threshold
      BY <1>1, <2>1, <2>2 DEF AtThreshold
    <3>2. QED
      BY <3>1 DEF Earned, Counted
  <2>3. CASE ~AtThreshold(s)
    <3>1. sent' = {} /\ failures'[s] = failures[s] + 1
      BY <2>3 DEF RecordFailure, RouterTypeOK
    <3>2. QED
      BY <1>1, <2>1, <2>3, <3>1 DEF Earned, Counted, AtThreshold
  <2>4. QED
    BY <2>2, <2>3
<1>7. QED
  BY <1>4, <1>5, <1>6 DEF ReportedAfterThree

(* Good data of the sources in G, with or without a reset of all of them.  *)
LEMMA GoodDataIsCounted ==
  ASSUME RouterTypeOK, ReportedAfterThree, NEW G \in SUBSET Source,
         sent' = {},
         inARow' = [x \in Source |-> IF x \in G THEN 0 ELSE inARow[x]],
         \/ G \cap Feed = {} /\ failures' = failures
         \/ \E s \in Source : G = {s} /\ failures' = [failures EXCEPT ![s] = 0]
  PROVE  RouterTypeOK' /\ ReportedAfterThree'
<1> USE RouterAssumption, NtesAssumption DEF RouterTypeOK
<1>1. RouterTypeOK'
  OBVIOUS
<1>2. ASSUME NEW t \in Feed
      PROVE  Earned(t)' /\ Counted(t)'
  <2>1. t \in Source /\ (inARow[t] < Threshold => failures[t] = inARow[t])
    BY DEF Feed, ReportedAfterThree, Counted
  <2>2. inARow'[t] < Threshold => failures'[t] = inARow'[t]
    BY <2>1
  <2>3. QED
    BY <2>2 DEF Earned, Counted
<1>3. QED
  BY <1>1, <1>2 DEF ReportedAfterThree

(* A train is reported exactly after Threshold unusable records of its own *)
(* in a row (record_failure and reset as poll_once of the adapter calls    *)
(* them).                                                                  *)
THEOREM TrainsAreReported == NtesSpec => []ReportedAfterThree
<1>1. NtesInit => NtesInv
  BY RouterAssumption, NtesAssumption
     DEF NtesInit, NtesInv, RouterInit, RouterTypeOK, ReportedAfterThree, Earned, Counted, Feed
<1>2. NtesInv /\ [NtesNext]_ntesVars => NtesInv'
  <2> SUFFICES ASSUME NtesInv, [NtesNext]_ntesVars PROVE NtesInv'
    OBVIOUS
  <2>1. RouterTypeOK /\ ReportedAfterThree /\ records \in Seq(Feed)
    BY DEF NtesInv
  <2>2. CASE AnswerIsBad
    <3>1. RecordFailure(Api) /\ Api \in Source /\ records' = <<>>
      BY <2>2, NtesAssumption DEF AnswerIsBad
    <3>2. QED
      BY <2>1, <3>1, FailureIsCounted DEF NtesInv
  <2>3. CASE RecordIsBad
    <3>1. records' \in Seq(Feed) /\ Head(records) \in Feed
      BY <2>1, <2>3 DEF RecordIsBad, NextRecord
    <3>2. RecordFailure(Head(records)) /\ Head(records) \in Source
      BY <2>3, <3>1, NtesAssumption DEF RecordIsBad, Feed
    <3>3. QED
      BY <2>1, <3>1, <3>2, FailureIsCounted DEF NtesInv
  <2>4. CASE AnswerIsGood
    <3>1. records' \in Seq(Feed)
      BY <2>4, AnswersAreSequences DEF AnswerIsGood
    <3>2. {Api} \in SUBSET Source /\ {Api} \cap Feed = {}
      BY NtesAssumption DEF Feed
    <3>3. RouterTypeOK' /\ ReportedAfterThree'
      BY <2>1, <2>4, <3>2, GoodDataIsCounted DEF AnswerIsGood, NoReset
    <3>4. QED
      BY <3>1, <3>3 DEF NtesInv
  <2>5. CASE RecordParses
    <3> DEFINE t == Head(records)
    <3>1. records' \in Seq(Feed) /\ t \in Source
      BY <2>1, <2>5, NtesAssumption DEF RecordParses, NextRecord
    <3>2. RouterTypeOK' /\ ReportedAfterThree'
      <4>1. Reset(t, {t}) /\ {t} \in SUBSET Source
        BY <2>5, <3>1 DEF RecordParses, ResetAfterParse
      <4> HIDE DEF t
      <4>2. QED
        BY <2>1, <3>1, <4>1, GoodDataIsCounted DEF Reset
    <3>3. QED
      BY <3>1, <3>2 DEF NtesInv
  <2>6. CASE PollFails \/ RecordIsNoObject \/ PollEnds
    <3>1. /\ records' \in {records, <<>>}
          /\ sent' = {} /\ failures' = failures /\ inARow' = inARow
      BY <2>6 DEF PollFails, RecordIsNoObject, PollEnds
    <3>2. records' \in Seq(Feed)
      BY <2>1, <3>1, EmptySeq
    <3>3. RouterTypeOK'
      BY <2>1, <3>1 DEF RouterTypeOK
    <3>4. ReportedAfterThree'
      BY <2>1, <3>1 DEF ReportedAfterThree, Earned, Counted
    <3>5. QED
      BY <3>2, <3>3, <3>4 DEF NtesInv
  <2>7. CASE UNCHANGED ntesVars
    BY <2>7 DEF ntesVars, routerVars, NtesInv, RouterTypeOK, ReportedAfterThree, Earned, Counted
  <2>8. QED
    BY <2>2, <2>3, <2>4, <2>5, <2>6, <2>7 DEF NtesNext
<1>3. QED
  BY <1>1, <1>2, PTL DEF NtesSpec, NtesInv
-----------------------------------------------------------------------------
(* The schema validator.  Outputs of neighbouring stretches of records add *)
(* up, so it is enough to know which stretch each list of messages is the  *)
(* output of: what was committed, that up to the last checkpoint but one,  *)
(* without what expired; what is to be committed, that up to the last      *)
(* checkpoint; and the open transaction that from there on.                *)
Message ==
  [topic : {"dead-letter.schema-failures", "monitoring.alerts", "track.sensor.unknown_validated"},
   record : Nat]

Committed(c) ==
  /\ started <= c /\ c <= Checkpointed /\ expired \subseteq started + 1..c
  /\ IsOutput(routedOut, Yields, (started + 1..c) \ expired)
  /\ IsOutput(prepared, Yields, c + 1..Checkpointed)

ValidatorInv ==
  /\ sensorLog \in Seq(RecordKind) /\ started \in Nat
  /\ consumed \in Nat /\ consumed <= Len(sensorLog)
  /\ checkpoint \in Nat \cup {-1}
  /\ started <= Checkpointed /\ Checkpointed <= consumed
  /\ {routedOut, prepared, transaction} \subseteq Seq(Message)
  /\ IsOutput(transaction, Yields, Checkpointed + 1..consumed)
  /\ \E c \in Nat : Committed(c)

LEMMA OneOrTwo ==
  ASSUME NEW i \in Nat
  PROVE  /\ FlatMap(i) \in Seq(Message) /\ Len(FlatMap(i)) \in {1, 2}
         /\ \A j \in 1..Len(FlatMap(i)) : FlatMap(i)[j].record = i
PROOF
  <1>1. DeadLetter(i) \in Message /\ Alert(i) \in Message /\ DeadLetter(i).record = i /\ Alert(i).record = i
    BY DEF DeadLetter, Alert, Message
  <1>2. CASE sensorLog[i] = "valid"
    <2> DEFINE m == [topic |-> "track.sensor.unknown_validated", record |-> i]
    <2>1. m \in Message /\ m.record = i
      BY DEF Message
    <2> HIDE DEF m
    <2>2. FlatMap(i) = <<m>>
      BY <1>2 DEF FlatMap, m
    <2>3. QED
      BY <2>1, <2>2
  <1>3. CASE sensorLog[i] # "valid"
    <2>1. FlatMap(i) = <<DeadLetter(i), Alert(i)>>
      BY <1>3 DEF FlatMap
    <2>2. QED
      BY <1>1, <2>1
  <1>4. QED
    BY <1>2, <1>3

(* Of no records there is no output, and of others there is one.           *)
LEMMA OutputOfNothing ==
  ASSUME NEW y
  PROVE  IsOutput(<<>>, y, {})
BY DEF IsOutput

LEMMA NothingIsOutput ==
  ASSUME NEW messages \in Seq(Message), NEW y, IsOutput(messages, y, {})
  PROVE  messages = <<>>
PROOF
  <1>1. DOMAIN messages = {}
    BY DEF IsOutput
  <1>2. QED
    BY <1>1

LEMMA OutputCovers ==
  ASSUME NEW R \in SUBSET Nat, NEW m \in Seq(Message), NEW y, IsOutput(m, y, R),
         \A i \in R : Len(y[i]) \in {1, 2}
  PROVE  RecordsOf(m) = R
PROOF
  <1>1. RecordsOf(m) \subseteq R
    BY DEF RecordsOf, IsOutput
  <1>2. ASSUME NEW i \in R PROVE i \in RecordsOf(m)
    <2>1. PICK k \in 0..Len(m) :
            {l \in DOMAIN m : m[l].record = i} = k + 1..k + Len(y[i])
      BY DEF IsOutput
    <2> DEFINE f == Len(y[i])
    <2>2. k + 1 \in k + 1..k + f
      <3>1. f \in {1, 2}
        BY Zenon
      <3> HIDE DEF f
      <3>2. QED
        BY <3>1
    <2>3. QED
      BY <2>1, <2>2 DEF RecordsOf
  <1>3. QED
    BY <1>1, <1>2

LEMMA OutputOfOne ==
  ASSUME NEW i \in Nat \ {0}, NEW y, y[i] = FlatMap(i)
  PROVE  IsOutput(FlatMap(i), y, {i})
PROOF
  <1>1. /\ FlatMap(i) \in Seq(Message) /\ Len(FlatMap(i)) \in Nat
        /\ \A j \in 1..Len(FlatMap(i)) : FlatMap(i)[j].record = i
        /\ DOMAIN FlatMap(i) = 1..Len(FlatMap(i))
    <2>1. /\ FlatMap(i) \in Seq(Message) /\ Len(FlatMap(i)) \in {1, 2}
          /\ \A j \in 1..Len(FlatMap(i)) : FlatMap(i)[j].record = i
      BY OneOrTwo
    <2> DEFINE f == FlatMap(i)
    <2>2. f \in Seq(Message)
      BY <2>1
    <2> HIDE DEF f
    <2>3. Len(f) \in Nat /\ DOMAIN f = 1..Len(f)
      BY <2>2
    <2>4. QED
      BY <2>1, <2>3 DEF f
  <1>2. ASSUME NEW r \in {i}
        PROVE  \E k \in 0..Len(FlatMap(i)) :
                 /\ {l \in DOMAIN FlatMap(i) : FlatMap(i)[l].record = r} = k + 1..k + Len(y[r])
                 /\ \A j \in 1..Len(y[r]) : FlatMap(i)[k + j] = y[r][j]
    <2>1. r = i /\ y[r] = FlatMap(i)
      OBVIOUS
    <2>2. {l \in DOMAIN FlatMap(i) : FlatMap(i)[l].record = i} = 0 + 1..0 + Len(FlatMap(i))
      BY <1>1
    <2>3. \A j \in 1..Len(FlatMap(i)) : FlatMap(i)[0 + j] = FlatMap(i)[j]
      OBVIOUS
    <2>4. 0 \in 0..Len(FlatMap(i))
      BY <1>1
    <2>5. QED
      BY <2>1, <2>2, <2>3, <2>4
  <1>3. \A k \in DOMAIN FlatMap(i) : FlatMap(i)[k].record = i
    BY <1>1
  <1>4. QED
    BY <1>1, <1>2, <1>3 DEF IsOutput

(* Outputs of neighbouring stretches add up.                               *)
LEMMA OutputsAddUp ==
  ASSUME NEW R \in SUBSET Nat, NEW S \in SUBSET Nat, \A i \in R, j \in S : i < j,
         NEW y, \A i \in R \cup S : Len(y[i]) \in {1, 2},
         NEW m \in Seq(Message), NEW n \in Seq(Message), IsOutput(m, y, R), IsOutput(n, y, S)
  PROVE  IsOutput(m \o n, y, R \cup S) /\ m \o n \in Seq(Message)
PROOF
  <1> DEFINE mn == m \o n
  <1>1. /\ mn \in Seq(Message) /\ Len(mn) = Len(m) + Len(n) /\ Len(m) \in Nat /\ Len(n) \in Nat
        /\ \A k \in 1..Len(m) : mn[k] = m[k]
        /\ \A k \in 1..Len(n) : mn[Len(m) + k] = n[k]
        /\ DOMAIN mn = 1..Len(m) + Len(n) /\ DOMAIN m = 1..Len(m) /\ DOMAIN n = 1..Len(n)
    OBVIOUS
  <1>2. /\ \A k \in 1..Len(m) : m[k].record \in R
        /\ \A k \in 1..Len(n) : n[k].record \in S
        /\ \A k, l \in 1..Len(m) : k <= l => m[k].record <= m[l].record
        /\ \A k, l \in 1..Len(n) : k <= l => n[k].record <= n[l].record
    BY <1>1 DEF IsOutput
  <1> HIDE DEF mn
  <1>3. \A k \in DOMAIN mn : k \in 1..Len(m) \/ (k - Len(m) \in 1..Len(n) /\ k = Len(m) + (k - Len(m)))
    BY <1>1
  <1>4. \A k \in DOMAIN mn : /\ k \in 1..Len(m) => mn[k] = m[k] /\ mn[k].record \in R
                             /\ k \notin 1..Len(m) => mn[k] = n[k - Len(m)] /\ mn[k].record \in S
    BY <1>1, <1>2, <1>3
  <1>5. \A k \in DOMAIN mn : mn[k].record \in R \cup S
    BY <1>4
  <1>6. ASSUME NEW k \in DOMAIN mn, NEW l \in DOMAIN mn, k <= l
        PROVE  mn[k].record <= mn[l].record
    <2>1. CASE l \in 1..Len(m)
      <3>1. k \in 1..Len(m)
        BY <1>1, <1>6, <2>1
      <3>2. QED
        BY <1>2, <1>4, <1>6, <2>1, <3>1
    <2>2. CASE l \notin 1..Len(m) /\ k \in 1..Len(m)
      <3>1. mn[k].record \in R /\ mn[l].record \in S
        BY <1>4, <2>2
      <3>2. \A i \in R, j \in S : i <= j
        <4>1. \A i \in R, j \in S : i \in Nat /\ j \in Nat /\ i < j
          OBVIOUS
        <4>2. \A i, j \in Nat : i < j => i <= j
          OBVIOUS
        <4>3. QED
          BY <4>1, <4>2
      <3>3. QED
        BY <3>1, <3>2
    <2>3. CASE l \notin 1..Len(m) /\ k \notin 1..Len(m)
      <3>1. k - Len(m) \in 1..Len(n) /\ l - Len(m) \in 1..Len(n) /\ k - Len(m) <= l - Len(m)
        BY <1>1, <1>3, <1>6, <2>3
      <3>2. QED
        BY <1>2, <1>4, <2>3, <3>1
    <2>4. QED
      BY <2>1, <2>2, <2>3
  <1>7. ASSUME NEW i \in R \cup S
        PROVE  \E k \in 0..Len(mn) :
                 /\ {l \in DOMAIN mn : mn[l].record = i} = k + 1..k + Len(y[i])
                 /\ \A j \in 1..Len(y[i]) : mn[k + j] = y[i][j]
    <2> DEFINE f == Len(y[i])
    <2>1. f \in Nat \ {0}
      <3>1. f \in {1, 2}
        BY Zenon
      <3> HIDE DEF f
      <3>2. QED
        BY <3>1
    <2> HIDE DEF f
    <2>2. CASE i \in R
      <3>1. PICK k \in 0..Len(m) :
              /\ {l \in DOMAIN m : m[l].record = i} = k + 1..k + f
              /\ \A j \in 1..f : m[k + j] = y[i][j]
        BY <2>2 DEF IsOutput, f
      <3>2. \A l \in DOMAIN mn : mn[l].record = i => l \in 1..Len(m)
        <4>1. i \notin S
          BY <2>2
        <4>2. QED
          BY <1>4, <4>1
      <3>3. {l \in DOMAIN mn : mn[l].record = i} = {l \in DOMAIN m : m[l].record = i}
        BY <1>1, <1>4, <3>2
      <3>4. \A j \in 1..f : k + j \in k + 1..k + f
        BY <2>1
      <3>5. \A j \in 1..f : k + j \in 1..Len(m)
        BY <1>1, <3>1, <3>4
      <3>6. \A j \in 1..f : mn[k + j] = y[i][j]
        BY <1>1, <3>1, <3>5
      <3>7. k \in 0..Len(mn)
        BY <1>1
      <3>8. QED
        BY <3>1, <3>3, <3>6, <3>7 DEF f
    <2>3. CASE i \in S
      <3>1. PICK k \in 0..Len(n) :
              /\ {l \in DOMAIN n : n[l].record = i} = k + 1..k + f
              /\ \A j \in 1..f : n[k + j] = y[i][j]
        BY <2>3 DEF IsOutput, f
      <3> DEFINE p == Len(m) + k
      <3>2. \A l \in DOMAIN mn : mn[l].record = i <=> l - Len(m) \in 1..Len(n) /\ n[l - Len(m)].record = i
        BY <1>1, <1>3, <1>4, <2>3
      <3>3. \A l \in DOMAIN mn : mn[l].record = i <=> l - Len(m) \in k + 1..k + f
        BY <1>1, <3>1, <3>2
      <3>4. \A l \in Int : l - Len(m) \in k + 1..k + f <=> l \in p + 1..p + f
        BY <1>1, <2>1
      <3>5. \A l \in p + 1..p + f : l \in DOMAIN mn
        <4>1. ASSUME NEW l \in p + 1..p + f PROVE l \in 1..Len(m) + Len(n)
          <5>1. l - Len(m) \in k + 1..k + f
            BY <1>1, <2>1, <4>1, <3>4
          <5>2. l - Len(m) \in 1..Len(n)
            BY <1>1, <3>1, <5>1
          <5>3. QED
            BY <1>1, <2>1, <4>1, <5>2
        <4>2. QED
          BY <1>1, <4>1
      <3>6. {l \in DOMAIN mn : mn[l].record = i} = p + 1..p + f
        <4>1. \A l \in DOMAIN mn : mn[l].record = i <=> l \in p + 1..p + f
          <5> HIDE DEF p
          <5>1. \A l \in DOMAIN mn : l \in Int
            BY <1>1
          <5>2. QED
            BY <3>3, <3>4, <5>1
        <4> HIDE DEF p
        <4>2. QED
          BY <3>5, <4>1
      <3>7. \A j \in 1..f : mn[p + j] = y[i][j]
        <4>1. ASSUME NEW j \in 1..f PROVE mn[p + j] = y[i][j]
          <5>1. k + j \in k + 1..k + f /\ p + j = Len(m) + (k + j)
            BY <1>1, <2>1
          <5>2. k + j \in 1..Len(n)
            BY <1>1, <3>1, <5>1
          <5>3. QED
            BY <1>1, <3>1, <5>1, <5>2
        <4>2. QED
          BY <4>1
      <3>8. p \in 0..Len(mn)
        BY <1>1
      <3> HIDE DEF p
      <3>9. QED
        BY <3>6, <3>7, <3>8 DEF f
    <2>4. QED
      BY <2>2, <2>3
  <1>8. IsOutput(mn, y, R \cup S)
    BY <1>5, <1>6, <1>7 DEF IsOutput
  <1>9. QED
    BY <1>1, <1>8 DEF mn

(* An output stays one when more records arrive.                           *)
LEMMA OutputStays ==
  ASSUME NEW R, NEW m, NEW y, NEW z, IsOutput(m, y, R), \A i \in R : y[i] = z[i]
  PROVE  IsOutput(m, z, R)
PROOF
  <1>1. ASSUME NEW i \in R
        PROVE  \E k \in 0..Len(m) :
                 /\ {l \in DOMAIN m : m[l].record = i} = k + 1..k + Len(z[i])
                 /\ \A j \in 1..Len(z[i]) : m[k + j] = z[i][j]
    <2>1. PICK k \in 0..Len(m) :
            /\ {l \in DOMAIN m : m[l].record = i} = k + 1..k + Len(y[i])
            /\ \A j \in 1..Len(y[i]) : m[k + j] = y[i][j]
      BY DEF IsOutput
    <2>2. y[i] = z[i]
      OBVIOUS
    <2>3. QED
      BY <2>1, <2>2
  <1>2. QED
    BY <1>1 DEF IsOutput

LEMMA MappedAsBefore ==
  ASSUME ValidatorInv, ValidatorNext
  PROVE  /\ \A i \in 1..Len(sensorLog) : Yields[i] = FlatMap(i) /\ Yields'[i] = Yields[i]
         /\ sensorLog' = sensorLog \/ RecordArrives
PROOF
  <1>1. /\ DOMAIN sensorLog = 1..Len(sensorLog)
        /\ \A i \in 1..Len(sensorLog) : Yields[i] = FlatMap(i)
    BY DEF ValidatorInv, Yields
  <1>2. CASE RecordArrives
    <2>1. PICK kind \in RecordKind : sensorLog' = Append(sensorLog, kind)
      BY <1>2 DEF RecordArrives
    <2>2. /\ \A i \in 1..Len(sensorLog) : i \in DOMAIN sensorLog' /\ sensorLog'[i] = sensorLog[i]
      BY <2>1 DEF ValidatorInv
    <2>3. ASSUME NEW i \in 1..Len(sensorLog) PROVE Yields'[i] = Yields[i]
      <3>1. Yields'[i] = FlatMap(i)' /\ Yields[i] = FlatMap(i)
        BY <1>1, <2>2 DEF Yields
      <3>2. FlatMap(i)' = FlatMap(i)
        BY <2>2 DEF FlatMap, DeadLetter, Alert
      <3>3. QED
        BY <3>1, <3>2
    <2>4. QED
      BY <1>1, <1>2, <2>3
  <1>3. CASE sensorLog' = sensorLog
    <2>1. Yields' = Yields
      BY <1>3 DEF Yields, FlatMap, DeadLetter, Alert
    <2>2. QED
      BY <1>1, <1>3, <2>1
  <1>4. QED
    BY <1>2, <1>3 DEF ValidatorNext, ValidateRecord, TakeCheckpoint, CommitTransaction, TransactionExpires,
         JobRestarts

(* What consumers see, by the stretches.                                   *)
LEMMA StretchesAddUp ==
  ASSUME ValidatorInv
  PROVE  ValidatedOnce
PROOF
  <1>1. /\ started \in Nat /\ Checkpointed \in Nat /\ Checkpointed <= Len(sensorLog)
        /\ Len(sensorLog) \in Nat /\ routedOut \in Seq(Message) /\ prepared \in Seq(Message)
    BY DEF ValidatorInv, Checkpointed
  <1>2. PICK c \in Nat :
          /\ started <= c /\ c <= Checkpointed /\ expired \subseteq started + 1..c
          /\ IsOutput(routedOut, Yields, (started + 1..c) \ expired)
          /\ IsOutput(prepared, Yields, c + 1..Checkpointed)
    BY DEF ValidatorInv, Committed
  <1> DEFINE R == (started + 1..c) \ expired
             S == c + 1..Checkpointed
  <1>3. R \in SUBSET Nat /\ S \in SUBSET Nat /\ \A i \in R, j \in S : i < j
    BY <1>1, <1>2
  <1>4. R \cup S = (started + 1..Checkpointed) \ expired
    BY <1>1, <1>2
  <1>5. \A i \in R \cup S : Len(Yields[i]) \in {1, 2}
    <2>1. \A i \in 1..Len(sensorLog) : Yields[i] = FlatMap(i) /\ i \in Nat
      BY <1>1 DEF Yields, ValidatorInv
    <2>2. \A i \in R \cup S : i \in 1..Len(sensorLog)
      BY <1>1, <1>4
    <2>3. QED
      BY <2>1, <2>2, OneOrTwo
  <1>6. IsOutput(routedOut, Yields, R) /\ IsOutput(prepared, Yields, S)
    BY <1>2
  <1> HIDE DEF R, S
  <1>7. IsOutput(routedOut \o prepared, Yields, R \cup S)
    BY <1>1, <1>3, <1>5, <1>6, OutputsAddUp
  <1>8. QED
    BY <1>4, <1>7 DEF ValidatedOnce, Answerable

(* Consumers see each record since the job's start once and in order, a    *)
(* bad one as a dead letter with its alert, whatever records come and      *)
(* however often the job fails, but for the whole of what the broker       *)
(* aborted after a checkpoint (schema_validator_job.py, exactly-once).     *)
THEOREM RecordsAreValidatedOnce == ValidatorSpec => []ValidatedOnce
PROOF
  <1>1. ValidatorInit => ValidatorInv
    <2> SUFFICES ASSUME ValidatorInit PROVE ValidatorInv
      OBVIOUS
    <2>1. /\ started = Len(sensorLog) /\ consumed = started
          /\ transaction = <<>> /\ prepared = <<>> /\ routedOut = <<>> /\ checkpoint = -1
      BY DEF ValidatorInit
    <2>2. sensorLog \in Seq(RecordKind) /\ Len(sensorLog) \in Nat
      <3>1. "valid" \in RecordKind
        BY DEF RecordKind
      <3>2. <<>> \in Seq(RecordKind) /\ <<"valid">> \in Seq(RecordKind)
        BY <3>1
      <3>3. sensorLog \in Seq(RecordKind)
        BY <3>2 DEF ValidatorInit
      <3>4. QED
        BY <3>3
    <2>3. started \in Nat /\ Checkpointed = started
      BY <2>1, <2>2 DEF Checkpointed
    <2>4. IsOutput(<<>>, Yields, {}) /\ started + 1..started = {}
      BY <2>3, OutputOfNothing
    <2>5. expired = {}
      BY DEF ValidatorInit
    <2>6. Committed(started)
      BY <2>1, <2>3, <2>4, <2>5 DEF Committed
    <2>7. QED
      BY <2>1, <2>2, <2>3, <2>4, <2>6 DEF ValidatorInv
  <1>2. ValidatorInv /\ [ValidatorNext]_validatorVars => ValidatorInv'
    <2> SUFFICES ASSUME ValidatorInv, [ValidatorNext]_validatorVars PROVE ValidatorInv'
      OBVIOUS
    <2>1. CASE UNCHANGED validatorVars
      <3>1. UNCHANGED <<sensorLog, consumed, transaction, prepared, checkpoint, started, routedOut, expired>>
        BY <2>1 DEF validatorVars, sinkVars
      <3>2. Yields' = Yields /\ Checkpointed' = Checkpointed
        BY <3>1 DEF Yields, FlatMap, DeadLetter, Alert, Checkpointed
      <3>3. \A c \in Nat : Committed(c)' <=> Committed(c)
        BY <3>1, <3>2 DEF Committed
      <3>4. QED
        BY <3>1, <3>2, <3>3 DEF ValidatorInv
    <2>2. ASSUME ValidatorNext PROVE ValidatorInv'
      <3>1. /\ sensorLog \in Seq(RecordKind) /\ started \in Nat /\ consumed \in Nat
            /\ Checkpointed \in Nat /\ checkpoint \in Nat \cup {-1} /\ Len(sensorLog) \in Nat
            /\ started <= Checkpointed /\ Checkpointed <= consumed /\ consumed <= Len(sensorLog)
            /\ routedOut \in Seq(Message) /\ prepared \in Seq(Message) /\ transaction \in Seq(Message)
            /\ IsOutput(transaction, Yields, Checkpointed + 1..consumed)
        BY DEF ValidatorInv, Checkpointed
      <3>2. PICK c \in Nat :
              /\ started <= c /\ c <= Checkpointed /\ expired \subseteq started + 1..c
              /\ IsOutput(routedOut, Yields, (started + 1..c) \ expired)
              /\ IsOutput(prepared, Yields, c + 1..Checkpointed)
        BY DEF ValidatorInv, Committed
      <3>3. /\ \A i \in 1..Len(sensorLog) : Yields[i] = FlatMap(i) /\ Yields'[i] = Yields[i]
            /\ sensorLog' = sensorLog \/ RecordArrives
        BY <2>2, MappedAsBefore
      <3>4. \A i \in 1..Len(sensorLog) : Len(Yields[i]) \in {1, 2}
        BY <3>3, OneOrTwo
      <3>5. CASE RecordArrives
        <4>1. /\ UNCHANGED <<consumed, transaction, prepared, checkpoint, started, routedOut, expired>>
              /\ sensorLog' \in Seq(RecordKind) /\ Len(sensorLog') >= Len(sensorLog) /\ Len(sensorLog') \in Nat
          BY <3>1, <3>5 DEF RecordArrives, sinkVars
        <4>2. Checkpointed' = Checkpointed
          BY <4>1 DEF Checkpointed
        <4>3. /\ \A i \in Checkpointed + 1..consumed : Yields[i] = Yields'[i]
              /\ \A i \in (started + 1..c) \ expired : Yields[i] = Yields'[i]
              /\ \A i \in c + 1..Checkpointed : Yields[i] = Yields'[i]
          <5>1. /\ Checkpointed + 1..consumed \subseteq 1..Len(sensorLog)
                /\ (started + 1..c) \ expired \subseteq 1..Len(sensorLog)
                /\ c + 1..Checkpointed \subseteq 1..Len(sensorLog)
            BY <3>1, <3>2
          <5>2. QED
            BY <3>3, <5>1
        <4>4. IsOutput(transaction, Yields', Checkpointed + 1..consumed)
          BY <3>1, <4>3, OutputStays
        <4>5. /\ IsOutput(routedOut, Yields', (started + 1..c) \ expired)
              /\ IsOutput(prepared, Yields', c + 1..Checkpointed)
          BY <3>2, <4>3, OutputStays
        <4>6. consumed' <= Len(sensorLog')
          BY <3>1, <4>1
        <4>7. Committed(c)'
          BY <3>2, <4>1, <4>2, <4>5 DEF Committed
        <4>8. QED
          BY <3>1, <3>2, <4>1, <4>2, <4>4, <4>6, <4>7 DEF ValidatorInv
      <3>6. CASE ValidateRecord
        <4> DEFINE i == consumed + 1
        <4>1. /\ i <= Len(sensorLog) /\ consumed' = i /\ transaction' = transaction \o FlatMap(i)
              /\ UNCHANGED <<sensorLog, prepared, checkpoint, started, routedOut, expired>>
          <5>1. consumed < Len(sensorLog) /\ consumed' = i
            BY <3>6 DEF ValidateRecord
          <5>2. transaction' = transaction \o FlatMap(i) /\ UNCHANGED routedOut
            BY <3>6 DEF ValidateRecord, Produce
          <5>3. UNCHANGED <<sensorLog, prepared, checkpoint, started, expired>>
            BY <3>6 DEF ValidateRecord
          <5>4. i <= Len(sensorLog)
            BY <3>1, <5>1
          <5>5. QED
            BY <5>1, <5>2, <5>3, <5>4
        <4> DEFINE R == Checkpointed + 1..consumed
        <4>2. /\ i \in Nat \ {0} /\ consumed <= i /\ i \in 1..Len(sensorLog)
              /\ R \in SUBSET Nat /\ {i} \in SUBSET Nat /\ R \cup {i} = Checkpointed + 1..i
              /\ \A k \in R, j \in {i} : k < j
          BY <3>1, <4>1
        <4>3. \A j \in R \cup {i} : Len(Yields[j]) \in {1, 2}
          BY <3>1, <3>4, <4>1, <4>2
        <4>4. IsOutput(transaction, Yields, R)
          BY <3>1
        <4> HIDE DEF i, R
        <4>5. Checkpointed' = Checkpointed /\ Yields' = Yields
          BY <4>1 DEF Checkpointed, Yields, FlatMap, DeadLetter, Alert
        <4>6. FlatMap(i) \in Seq(Message) /\ IsOutput(FlatMap(i), Yields, {i})
          BY <3>3, <4>2, OneOrTwo, OutputOfOne
        <4>7. IsOutput(transaction \o FlatMap(i), Yields, R \cup {i}) /\ transaction \o FlatMap(i) \in Seq(Message)
          BY <3>1, <4>2, <4>3, <4>4, <4>6, OutputsAddUp
        <4>8. IsOutput(transaction', Yields, Checkpointed + 1..consumed') /\ transaction' \in Seq(Message)
          BY <4>1, <4>2, <4>7
        <4>9. Checkpointed <= consumed' /\ consumed' \in Nat /\ consumed' <= Len(sensorLog)
          BY <3>1, <4>1, <4>2
        <4>10. Committed(c)'
          BY <3>2, <4>1, <4>5 DEF Committed
        <4>11. QED
          BY <3>1, <3>2, <4>1, <4>5, <4>8, <4>9, <4>10 DEF ValidatorInv
      <3>7. CASE TakeCheckpoint
        <4>1. /\ prepared = <<>> /\ checkpoint' = consumed /\ prepared' = transaction /\ transaction' = <<>>
              /\ UNCHANGED <<sensorLog, consumed, started, routedOut, expired>>
          BY <3>7 DEF TakeCheckpoint
        <4>2. Checkpointed' = consumed /\ Yields' = Yields
          BY <3>1, <4>1 DEF Checkpointed, Yields, FlatMap, DeadLetter, Alert
        <4>3. c = Checkpointed
          <5>1. RecordsOf(prepared) = c + 1..Checkpointed
            <6>1. c + 1..Checkpointed \in SUBSET Nat /\ c + 1..Checkpointed \subseteq 1..Len(sensorLog)
              BY <3>1, <3>2
            <6>2. QED
              BY <3>1, <3>2, <3>4, <6>1, OutputCovers
          <5>2. RecordsOf(prepared) = {}
            BY <4>1 DEF RecordsOf
          <5>3. c < Checkpointed => c + 1 \in c + 1..Checkpointed
            BY <3>1, <3>2
          <5>4. ~(c < Checkpointed)
            BY <5>1, <5>2, <5>3
          <5>5. QED
            BY <3>1, <3>2, <5>4
        <4>4. consumed + 1..consumed = {} /\ IsOutput(<<>>, Yields, {})
          BY <3>1, OutputOfNothing
        <4>5. /\ IsOutput(transaction', Yields', Checkpointed' + 1..consumed')
              /\ IsOutput(prepared', Yields', c + 1..Checkpointed')
              /\ IsOutput(routedOut', Yields', (started' + 1..c) \ expired')
          BY <3>1, <3>2, <4>1, <4>2, <4>3, <4>4
        <4>6. Committed(c)'
          <5>1. started' <= c /\ c <= Checkpointed' /\ expired' \subseteq started' + 1..c
            BY <3>1, <3>2, <4>1, <4>2, <4>3
          <5>2. QED
            BY <4>5, <5>1 DEF Committed
        <4>7. <<>> \in Seq(Message)
          OBVIOUS
        <4>8. Checkpointed' <= consumed' /\ started' <= Checkpointed'
          BY <3>1, <4>1, <4>2
        <4>9. QED
          BY <3>1, <3>2, <4>1, <4>5, <4>6, <4>7, <4>8 DEF ValidatorInv
      <3>8. CASE CommitTransaction
        <4>1. /\ routedOut' = routedOut \o prepared /\ prepared' = <<>>
              /\ UNCHANGED <<sensorLog, consumed, transaction, checkpoint, started, expired>>
          BY <3>8 DEF CommitTransaction
        <4>2. /\ Checkpointed' = Checkpointed /\ Yields' = Yields
          BY <4>1 DEF Checkpointed, Yields, FlatMap, DeadLetter, Alert
        <4>3. routedOut' \in Seq(Message)
          BY <3>1, <4>1
        <4>4. IsOutput(routedOut', Yields, (started + 1..Checkpointed) \ expired)
          BY <4>1, StretchesAddUp DEF ValidatedOnce, Answerable
        <4>5. /\ Checkpointed + 1..Checkpointed = {} /\ IsOutput(<<>>, Yields, {})
              /\ expired \subseteq started + 1..Checkpointed
          BY <3>1, <3>2, OutputOfNothing
        <4>6. PICK d \in Nat : d = Checkpointed /\ d = Checkpointed'
          BY <3>1, <4>2
        <4>7. Committed(d)'
          BY <3>1, <4>1, <4>2, <4>4, <4>5, <4>6 DEF Committed
        <4>8. IsOutput(transaction', Yields', Checkpointed' + 1..consumed')
          BY <3>1, <4>1, <4>2, <4>5
        <4>9. <<>> \in Seq(Message)
          OBVIOUS
        <4>10. QED
          BY <3>1, <4>1, <4>2, <4>3, <4>7, <4>8, <4>9 DEF ValidatorInv
      <3>9. CASE TransactionExpires
        <4>1. /\ prepared' = <<>> /\ expired' = expired \cup RecordsOf(prepared)
              /\ UNCHANGED <<sensorLog, consumed, transaction, checkpoint, started, routedOut>>
          BY <3>9 DEF TransactionExpires
        <4>2. /\ Checkpointed' = Checkpointed /\ Yields' = Yields
          BY <4>1 DEF Checkpointed, Yields, FlatMap, DeadLetter, Alert
        <4>3. RecordsOf(prepared) = c + 1..Checkpointed
          <5>1. c + 1..Checkpointed \in SUBSET Nat /\ c + 1..Checkpointed \subseteq 1..Len(sensorLog)
            BY <3>1, <3>2
          <5>2. QED
            BY <3>1, <3>2, <3>4, <5>1, OutputCovers
        <4>4. /\ (started + 1..Checkpointed) \ expired' = (started + 1..c) \ expired
              /\ expired' \subseteq started + 1..Checkpointed
          BY <3>1, <3>2, <4>1, <4>3
        <4>5. Checkpointed + 1..Checkpointed = {} /\ IsOutput(<<>>, Yields, {})
          BY <3>1, OutputOfNothing
        <4>6. IsOutput(routedOut', Yields, (started + 1..Checkpointed) \ expired')
          BY <3>2, <4>1, <4>4
        <4>7. PICK d \in Nat : d = Checkpointed /\ d = Checkpointed'
          BY <3>1, <4>2
        <4>8. Committed(d)'
          BY <3>1, <4>1, <4>2, <4>4, <4>5, <4>7, <4>6 DEF Committed
        <4>9. IsOutput(transaction', Yields', Checkpointed' + 1..consumed')
          BY <3>1, <4>1, <4>2, <4>5
        <4>10. <<>> \in Seq(Message)
          OBVIOUS
        <4>11. QED
          BY <3>1, <4>1, <4>2, <4>8, <4>9, <4>10 DEF ValidatorInv
      <3>10. CASE JobRestarts /\ checkpoint = -1
        <4>1. /\ transaction' = <<>> /\ consumed' = Len(sensorLog) /\ started' = Len(sensorLog)
              /\ UNCHANGED <<sensorLog, prepared, routedOut, checkpoint, expired>>
          BY <3>10 DEF JobRestarts
        <4>2. /\ Checkpointed = started /\ Checkpointed' = started' /\ c = started
              /\ Checkpointed' = Len(sensorLog)
          BY <3>1, <3>2, <3>10, <4>1 DEF Checkpointed
        <4>3. expired = {} /\ started + 1..started = {}
          BY <3>1, <3>2, <4>2
        <4>4. routedOut = <<>> /\ prepared = <<>>
          BY <3>1, <3>2, <4>2, <4>3, NothingIsOutput
        <4>5. Len(sensorLog) + 1..Len(sensorLog) = {} /\ IsOutput(<<>>, Yields', {})
          BY <3>1, OutputOfNothing
        <4>6. PICK d \in Nat : d = Len(sensorLog) /\ d = Checkpointed'
          BY <3>1, <4>2
        <4>7. Committed(d)'
          <5>1. started' <= d /\ d <= Checkpointed' /\ expired' \subseteq started' + 1..d
            BY <3>1, <4>1, <4>2, <4>3, <4>6
          <5>2. (started' + 1..d) \ expired' = {} /\ d + 1..Checkpointed' = {}
            BY <3>1, <4>1, <4>2, <4>3, <4>5, <4>6
          <5>3. IsOutput(routedOut', Yields', (started' + 1..d) \ expired')
            BY <4>1, <4>4, <4>5, <5>2
          <5>4. IsOutput(prepared', Yields', d + 1..Checkpointed')
            BY <4>1, <4>4, <4>5, <5>2
          <5>5. QED
            BY <5>1, <5>3, <5>4 DEF Committed
        <4>8. IsOutput(transaction', Yields', Checkpointed' + 1..consumed')
          BY <3>1, <4>1, <4>2, <4>5
        <4>9. <<>> \in Seq(Message)
          OBVIOUS
        <4>10. QED
          BY <3>1, <4>1, <4>2, <4>7, <4>8, <4>9 DEF ValidatorInv
      <3>11. CASE JobRestarts /\ checkpoint # -1
        <4>1. /\ transaction' = <<>> /\ consumed' = checkpoint /\ routedOut' = routedOut \o prepared
              /\ prepared' = <<>> /\ UNCHANGED <<sensorLog, started, checkpoint, expired>>
          BY <3>11 DEF JobRestarts
        <4>2. Checkpointed = checkpoint /\ Checkpointed' = checkpoint /\ checkpoint \in Nat /\ Yields' = Yields
          BY <3>1, <3>11, <4>1 DEF Checkpointed, Yields, FlatMap, DeadLetter, Alert
        <4>3. routedOut' \in Seq(Message)
          BY <3>1, <4>1
        <4>4. IsOutput(routedOut', Yields, (started + 1..Checkpointed) \ expired)
          BY <4>1, StretchesAddUp DEF ValidatedOnce, Answerable
        <4>5. /\ Checkpointed + 1..Checkpointed = {} /\ IsOutput(<<>>, Yields, {})
              /\ expired \subseteq started + 1..Checkpointed
          BY <3>1, <3>2, OutputOfNothing
        <4>6. PICK d \in Nat : d = Checkpointed /\ d = Checkpointed'
          BY <3>1, <4>2
        <4>7. Committed(d)'
          BY <3>1, <4>1, <4>2, <4>4, <4>5, <4>6 DEF Committed
        <4>8. IsOutput(transaction', Yields', Checkpointed' + 1..consumed')
          BY <3>1, <4>1, <4>2, <4>5
        <4>9. <<>> \in Seq(Message)
          OBVIOUS
        <4>10. QED
          BY <3>1, <4>1, <4>2, <4>3, <4>7, <4>8, <4>9 DEF ValidatorInv
      <3>12. QED
        BY <2>2, <3>5, <3>6, <3>7, <3>8, <3>9, <3>10, <3>11 DEF ValidatorNext
    <2>3. QED
      BY <2>1, <2>2
  <1>3. ValidatorInv => ValidatedOnce
    BY StretchesAddUp
  <1>4. QED
    BY <1>1, <1>2, <1>3, PTL DEF ValidatorSpec

-----------------------------------------------------------------------------
(* The stream adapters.  What was received and not yet used, with what is  *)
(* still to come, always ends with a whole frame, and every byte of it is  *)
(* followed by the rest of its frame and then by a later frame.            *)
Body(fr, h, f) == [i \in 1..fr[f].size |-> <<f, h + i>>]

NextIs(bytes, fr, b) == bytes = <<>> \/ \E g \in b + 1..Len(fr) : bytes[1] = <<g, 1>>

Follows(bytes, last, k, f, i, r) ==
  /\ k + r <= Len(bytes) /\ \A j \in 0..r : bytes[k + j] = <<f, i + j>>
  /\ k + r < Len(bytes) => \E g \in f + 1..last : bytes[k + r + 1] = <<g, 1>>

FollowedUp(bytes, fr, h, k) ==
  \E f \in 1..Len(fr), i \in Nat \ {0}, r \in Nat :
    i + r = h + fr[f].size /\ Follows(bytes, Len(fr), k, f, i, r)

WholeFrames(bytes, fr, h) == \A k \in 1..Len(bytes) : FollowedUp(bytes, fr, h, k)

(* Bodies of frames up to number b, in order.                              *)
Numbered(bodies, fr, h, b) ==
  \E number \in [1..Len(bodies) -> 1..b] :
    \A i, j \in 1..Len(bodies) :
      bodies[i] = Body(fr, h, number[i]) /\ (i < j => number[i] < number[j])

Byte == Nat \X Nat
Sent == [size : Nat, content : Sensor \cup {Unusable}]

(* What is dropped in front leaves whole frames.                           *)
LEMMA RestIsWhole ==
  ASSUME NEW fr \in Seq(Sent), NEW h \in Nat, NEW bytes \in Seq(Byte), WholeFrames(bytes, fr, h),
         NEW m \in 0..Len(bytes), NEW rest \in Seq(Byte), Len(rest) = Len(bytes) - m,
         \A k \in 1..Len(rest) : rest[k] = bytes[k + m]
  PROVE  WholeFrames(rest, fr, h)
PROOF
  <1>1. ASSUME NEW k \in 1..Len(rest) PROVE FollowedUp(rest, fr, h, k)
    <2>1. Len(bytes) \in Nat /\ Len(rest) \in Nat /\ m \in Nat /\ k + m \in 1..Len(bytes)
      OBVIOUS
    <2>2. PICK f \in 1..Len(fr), i \in Nat \ {0}, r \in Nat :
            i + r = h + fr[f].size /\ Follows(bytes, Len(fr), k + m, f, i, r)
      BY <2>1 DEF WholeFrames, FollowedUp
    <2>4. /\ k + m + r <= Len(bytes) /\ \A j \in 0..r : bytes[k + m + j] = <<f, i + j>>
          /\ k + m + r < Len(bytes) => \E g \in f + 1..Len(fr) : bytes[k + m + r + 1] = <<g, 1>>
      BY <2>2 DEF Follows
    <2>5. k + r <= Len(rest)
      BY <2>1, <2>4
    <2>6. ASSUME NEW j \in 0..r PROVE rest[k + j] = <<f, i + j>>
      <3>1. k + j \in 1..Len(rest) /\ (k + j) + m = k + m + j
        BY <2>1, <2>5
      <3>2. QED
        BY <2>4, <3>1
    <2>7. ASSUME k + r < Len(rest) PROVE \E g \in f + 1..Len(fr) : rest[k + r + 1] = <<g, 1>>
      <3>1. k + r + 1 \in 1..Len(rest) /\ (k + r + 1) + m = k + m + r + 1 /\ k + m + r < Len(bytes)
        BY <2>1, <2>7
      <3>2. QED
        BY <2>4, <3>1
    <2>8. Follows(rest, Len(fr), k, f, i, r)
      BY <2>5, <2>6, <2>7 DEF Follows
    <2>9. QED
      BY <2>2, <2>8 DEF FollowedUp
  <1>2. QED
    BY <1>1 DEF WholeFrames

(* The bytes of frame f from the i-th on.                                  *)
Piece(bytes, f, i) == \A j \in 1..Len(bytes) : bytes[j] = <<f, i - 1 + j>>

(* all is bytes followed by more.                                          *)
Joined(all, bytes, more) ==
  /\ Len(all) = Len(bytes) + Len(more)
  /\ \A k \in 1..Len(bytes) : all[k] = bytes[k]
  /\ \A k \in 1..Len(more) : all[Len(bytes) + k] = more[k]

LEMMA ConcatJoins ==
  ASSUME NEW bytes \in Seq(Byte), NEW more \in Seq(Byte)
  PROVE  bytes \o more \in Seq(Byte) /\ Joined(bytes \o more, bytes, more)
PROOF
  <1> DEFINE all == bytes \o more
             n == Len(bytes)
             m == Len(more)
  <1>1. /\ all \in Seq(Byte) /\ Len(all) = n + m /\ n \in Nat /\ m \in Nat
        /\ \A k \in 1..n + m : all[k] = IF k <= n THEN bytes[k] ELSE more[k - n]
    BY ConcatProperties
  <1> HIDE DEF all, n, m
  <1>2. ASSUME NEW k \in 1..n PROVE all[k] = bytes[k]
    <2>1. k \in 1..n + m /\ k <= n
      BY <1>1
    <2>2. QED
      BY <1>1, <2>1
  <1>3. ASSUME NEW k \in 1..m PROVE all[n + k] = more[k]
    <2>1. n + k \in 1..n + m /\ ~(n + k <= n) /\ (n + k) - n = k
      BY <1>1
    <2>2. QED
      BY <1>1, <2>1
  <1>4. Joined(all, bytes, more)
    BY <1>1, <1>2, <1>3 DEF Joined, n, m
  <1>5. QED
    BY <1>1, <1>4 DEF all

LEMMA FrameIsBytes ==
  ASSUME NEW f \in Nat, NEW s \in Nat
  PROVE  [i \in 1..s |-> <<f, i>>] \in Seq(Byte)
PROOF
  <1>1. \A i \in 1..s : <<f, i>> \in Byte
    BY DEF Byte
  <1>2. [i \in 1..s |-> <<f, i>>] \in [1..s -> Byte]
    BY <1>1
  <1>3. QED
    BY <1>2, SeqDef

(* A frame more behind them leaves whole frames, and what comes next is    *)
(* the same or the new one.                                                *)
LEMMA MoreIsWhole ==
  ASSUME NEW fr \in Seq(Sent), NEW h \in Nat, NEW bytes \in Seq(Byte), WholeFrames(bytes, fr, h),
         NEW e \in Sent, h + e.size > 0,
         NEW more \in Seq(Byte), Len(more) = h + e.size, Piece(more, Len(fr) + 1, 1),
         NEW all \in Seq(Byte), Joined(all, bytes, more)
  PROVE  /\ WholeFrames(all, Append(fr, e), h)
         /\ \A b \in 0..Len(fr) : NextIs(bytes, fr, b) => NextIs(all, Append(fr, e), b)
         /\ bytes # <<>> => all # <<>> /\ all[1] = bytes[1]
PROOF
  <1> DEFINE n == Len(fr)
             s == h + e.size
             fs == Append(fr, e)
  <1>1. n \in Nat /\ e.size \in Nat /\ s \in Nat \ {0} /\ Len(bytes) \in Nat
    BY DEF Sent
  <1>2. Len(fs) = n + 1 /\ fs[n + 1] = e /\ \A f \in 1..n : fs[f] = fr[f]
    OBVIOUS
  <1>3. more \in Seq(Byte) /\ Len(more) = s /\ \A i \in 1..s : more[i] = <<n + 1, i>>
    BY <1>1 DEF Piece
  <1> HIDE DEF n, s, fs
  <1>4. /\ all \in Seq(Byte) /\ Len(all) = Len(bytes) + s
        /\ \A k \in 1..Len(bytes) : all[k] = bytes[k]
        /\ \A i \in 1..s : all[Len(bytes) + i] = <<n + 1, i>>
    BY <1>3 DEF Joined
  <1>5. ASSUME NEW k \in 1..Len(all) PROVE FollowedUp(all, fs, h, k)
    <2>1. CASE k \in 1..Len(bytes)
      <3>1. PICK f \in 1..n, i \in Nat \ {0}, r \in Nat :
              i + r = h + fr[f].size /\ Follows(bytes, n, k, f, i, r)
        BY <2>1 DEF WholeFrames, FollowedUp, n
      <3>3. /\ k + r <= Len(bytes) /\ \A j \in 0..r : bytes[k + j] = <<f, i + j>>
            /\ k + r < Len(bytes) => \E g \in f + 1..n : bytes[k + r + 1] = <<g, 1>>
        BY <3>1 DEF Follows
      <3>4. f \in 1..n + 1 /\ fs[f] = fr[f]
        BY <1>1, <1>2
      <3>5. k + r <= Len(all)
        BY <1>1, <1>4, <3>3
      <3>6. ASSUME NEW j \in 0..r PROVE all[k + j] = <<f, i + j>>
        <4>1. k + j \in 1..Len(bytes)
          BY <1>1, <2>1, <3>3
        <4>2. QED
          BY <1>4, <3>3, <4>1
      <3>7. \E g \in f + 1..n + 1 : all[k + r + 1] = <<g, 1>>
        <4>1. CASE k + r < Len(bytes)
          <5>1. PICK g \in f + 1..n : bytes[k + r + 1] = <<g, 1>>
            BY <3>3, <4>1
          <5>2. k + r + 1 \in 1..Len(bytes) /\ g \in f + 1..n + 1
            BY <1>1, <2>1, <4>1
          <5>3. QED
            BY <1>4, <5>1, <5>2
        <4>2. CASE ~(k + r < Len(bytes))
          <5>4. k + r \in Nat /\ Len(bytes) \in Nat /\ k + r <= Len(bytes)
            BY <1>1, <2>1, <3>3
          <5>5. \A x, y \in Nat : x <= y /\ ~(x < y) => x = y
            OBVIOUS
          <5>6. k + r = Len(bytes)
            BY <4>2, <5>4, <5>5, Zenon
          <5>1. k + r + 1 = Len(bytes) + 1
            BY <5>6
          <5>3. 1 \in 1..s /\ n + 1 \in f + 1..n + 1
            BY <1>1
          <5>2. QED
            BY <1>4, <5>1, <5>3
        <4>3. QED
          BY <4>1, <4>2
      <3>8. Follows(all, n + 1, k, f, i, r)
        BY <3>5, <3>6, <3>7 DEF Follows
      <3>9. QED
        BY <1>2, <3>1, <3>4, <3>8 DEF FollowedUp
    <2>2. CASE k \notin 1..Len(bytes)
      <3>1. PICK i \in 1..s : k = Len(bytes) + i
        <4>1. k - Len(bytes) \in 1..s /\ k = Len(bytes) + (k - Len(bytes))
          BY <1>1, <1>4, <2>2
        <4>2. QED
          BY <4>1
      <3>2. PICK r \in Nat : i + r = s /\ k + r = Len(all)
        <4>1. s - i \in Nat /\ i + (s - i) = s /\ k + (s - i) = Len(all)
          BY <1>1, <1>4, <3>1
        <4>2. QED
          BY <4>1
      <3>3. ASSUME NEW j \in 0..r PROVE all[k + j] = <<n + 1, i + j>>
        <4>1. i + j \in 1..s /\ k + j = Len(bytes) + (i + j)
          BY <1>1, <3>1, <3>2
        <4>2. QED
          BY <1>4, <4>1
      <3>4. h + fs[n + 1].size = s /\ n + 1 \in 1..Len(fs) /\ i \in Nat \ {0}
        BY <1>1, <1>2, <3>1 DEF s
      <3>5. Follows(all, n + 1, k, n + 1, i, r)
        <4>1. Len(all) \in Nat /\ k + r <= Len(all) /\ ~(k + r < Len(all))
          <5>1. Len(all) \in Nat
            BY <1>4
          <5>2. QED
            BY <3>2, <5>1
        <4>2. QED
          BY <3>3, <4>1 DEF Follows
      <3>6. QED
        BY <1>2, <3>2, <3>4, <3>5 DEF FollowedUp
    <2>3. QED
      BY <2>1, <2>2
  <1>6. ASSUME NEW b \in 0..n, NextIs(bytes, fr, b) PROVE NextIs(all, fs, b)
    <2>1. CASE bytes = <<>>
      <3>1. all[1] = <<n + 1, 1>>
        <4>1. 1 \in 1..s /\ Len(bytes) = 0 /\ 0 + 1 = 1
          BY <1>1, <2>1
        <4>2. QED
          BY <1>4, <4>1
      <3>2. n + 1 \in b + 1..Len(fs)
        BY <1>1, <1>2
      <3>3. QED
        BY <3>1, <3>2 DEF NextIs
    <2>2. CASE bytes # <<>>
      <3>1. PICK g \in b + 1..n : bytes[1] = <<g, 1>>
        BY <1>6, <2>2 DEF NextIs, n
      <3>2. 1 \in 1..Len(bytes) /\ g \in b + 1..Len(fs)
        BY <1>1, <1>2, <2>2
      <3>3. QED
        BY <1>4, <3>1, <3>2 DEF NextIs
    <2>3. QED
      BY <2>1, <2>2
  <1>7. ASSUME bytes # <<>> PROVE all # <<>> /\ all[1] = bytes[1]
    <2>1. 1 \in 1..Len(bytes) /\ Len(all) > 0
      BY <1>1, <1>4, <1>7
    <2>2. QED
      BY <1>4, <2>1
  <1>8. QED
    BY <1>3, <1>4, <1>5, <1>6, <1>7 DEF WholeFrames, n, fs

(* What is first among the bytes is followed by the rest of its frame.     *)
LEMMA FirstFrame ==
  ASSUME NEW fr \in Seq(Sent), NEW h \in Nat, NEW bytes \in Seq(Byte), WholeFrames(bytes, fr, h),
         bytes # <<>>, NEW f \in 1..Len(fr), NEW i \in Nat, bytes[1] = <<f, i>>
  PROVE  i # 0 /\ \E r \in Nat : i + r = h + fr[f].size /\ Follows(bytes, Len(fr), 1, f, i, r)
PROOF
  <1>1. 1 \in 1..Len(bytes)
    OBVIOUS
  <1>2. PICK g \in 1..Len(fr), j \in Nat \ {0}, r \in Nat :
          j + r = h + fr[g].size /\ Follows(bytes, Len(fr), 1, g, j, r)
    BY <1>1 DEF WholeFrames, FollowedUp
  <1>3. bytes[1] = <<g, j>>
    <2>1. 0 \in 0..r /\ 1 + 0 = 1 /\ j + 0 = j
      OBVIOUS
    <2>2. bytes[1 + 0] = <<g, j + 0>>
      BY <1>2, <2>1 DEF Follows
    <2>3. QED
      BY <2>1, <2>2
  <1>4. g = f /\ j = i
    BY <1>3
  <1>5. QED
    BY <1>2, <1>4

(* Bytes got from the front are the first of their frame, and what is left *)
(* are whole frames: the rest of this one, or the next.                    *)
LEMMA GotFromTheFront ==
  ASSUME NEW fr \in Seq(Sent), NEW h \in Nat, NEW got \in Seq(Byte), NEW left \in Seq(Byte),
         NEW bytes \in Seq(Byte), Joined(bytes, got, left), WholeFrames(bytes, fr, h),
         NEW f \in 1..Len(fr), NEW i \in Nat \ {0}, NEW r \in Nat,
         Follows(bytes, Len(fr), 1, f, i, r), Len(got) <= r + 1
  PROVE  /\ Piece(got, f, i)
         /\ WholeFrames(left, fr, h)
         /\ Len(got) = r + 1 => NextIs(left, fr, f)
         /\ Len(got) < r + 1 => left # <<>> /\ left[1] = <<f, i + Len(got)>>
PROOF
  <1> DEFINE m == Len(got)
  <1>1. m \in Nat /\ Len(left) \in Nat /\ Len(bytes) = m + Len(left)
    BY DEF Joined
  <1>2. \A k \in 1..m : bytes[k] = got[k]
    BY DEF Joined
  <1>3. ASSUME NEW k \in 1..Len(left) PROVE left[k] = bytes[k + m]
    <2>1. m + k = k + m
      BY <1>1
    <2>2. QED
      BY <2>1 DEF Joined
  <1>4. /\ 1 + r <= Len(bytes) /\ \A j \in 0..r : bytes[1 + j] = <<f, i + j>>
        /\ 1 + r < Len(bytes) => \E g \in f + 1..Len(fr) : bytes[1 + r + 1] = <<g, 1>>
    BY DEF Follows
  <1>5. ASSUME NEW j \in 1..m PROVE got[j] = <<f, i - 1 + j>>
    <2>1. j - 1 \in 0..r /\ 1 + (j - 1) = j /\ i + (j - 1) = i - 1 + j
      BY <1>1
    <2>2. QED
      BY <1>2, <1>4, <2>1
  <1>6. WholeFrames(left, fr, h)
    <2>1. m \in 0..Len(bytes) /\ Len(left) = Len(bytes) - m
      BY <1>1
    <2>2. QED
      BY <1>1, <1>3, <2>1, RestIsWhole
  <1>7. ASSUME m = r + 1 PROVE NextIs(left, fr, f)
    <2>1. CASE left = <<>>
      BY <2>1 DEF NextIs
    <2>2. CASE left # <<>>
      <3>1. 1 \in 1..Len(left) /\ 1 + r < Len(bytes) /\ 1 + m = 1 + r + 1
        BY <1>1, <1>7, <2>2
      <3>2. PICK g \in f + 1..Len(fr) : bytes[1 + r + 1] = <<g, 1>>
        BY <1>4, <3>1
      <3>3. left[1] = <<g, 1>>
        BY <1>3, <3>1, <3>2
      <3>4. QED
        BY <3>3 DEF NextIs
    <2>3. QED
      BY <2>1, <2>2
  <1>8. ASSUME m < r + 1 PROVE left # <<>> /\ left[1] = <<f, i + m>>
    <2>1. m \in 0..r /\ 1 + m = m + 1 /\ 1 \in 1..Len(left)
      BY <1>1, <1>4, <1>8
    <2>2. left[1] = bytes[1 + m]
      BY <1>3, <2>1
    <2>3. QED
      BY <1>1, <1>4, <2>1, <2>2
  <1>9. QED
    BY <1>5, <1>6, <1>7, <1>8 DEF Piece

LEMMA GotToTheEnd ==
  ASSUME NEW fr \in Seq(Sent), NEW h \in Nat, NEW got \in Seq(Byte), NEW left \in Seq(Byte),
         NEW bytes \in Seq(Byte), Joined(bytes, got, left), WholeFrames(bytes, fr, h),
         NEW f \in 1..Len(fr), NEW i \in Nat \ {0}, NEW r \in Nat,
         Follows(bytes, Len(fr), 1, f, i, r), Len(got) = r + 1
  PROVE  Piece(got, f, i) /\ WholeFrames(left, fr, h) /\ NextIs(left, fr, f)
PROOF
  <1>1. Len(got) <= r + 1
    OBVIOUS
  <1>2. QED
    BY <1>1, GotFromTheFront

(* The bytes to come start with the body of frame f, where that has one.   *)
AtBody(bytes, fr, h, f) ==
  IF fr[f].size = 0 THEN NextIs(bytes, fr, f) ELSE bytes # <<>> /\ bytes[1] = <<f, h + 1>>

LEMMA BodyIsGot ==
  ASSUME NEW fr \in Seq(Sent), NEW h \in Nat, NEW got \in Seq(Byte), NEW left \in Seq(Byte),
         NEW bytes \in Seq(Byte), Joined(bytes, got, left), WholeFrames(bytes, fr, h),
         NEW f \in 1..Len(fr), Len(got) = fr[f].size, AtBody(bytes, fr, h, f)
  PROVE  got = Body(fr, h, f) /\ WholeFrames(left, fr, h) /\ NextIs(left, fr, f)
PROOF
  <1>1. CASE fr[f].size = 0
    <2>1. got = <<>> /\ bytes = left
      <3>1. got = <<>> /\ Len(bytes) = Len(left) /\ \A k \in 1..Len(left) : bytes[k] = left[k]
        BY <1>1 DEF Joined
      <3>2. QED
        BY <3>1, SeqEqual
    <2>2. Body(fr, h, f) = <<>>
      BY <1>1 DEF Body
    <2>3. QED
      BY <1>1, <2>1, <2>2 DEF AtBody
  <1>2. CASE fr[f].size # 0
    <2>1. h + 1 \in Nat \ {0} /\ Len(got) \in Nat /\ bytes \in Seq(Byte)
      OBVIOUS
    <2>2. PICK r \in Nat : h + 1 + r = h + fr[f].size /\ Follows(bytes, Len(fr), 1, f, h + 1, r)
      BY <1>2, <2>1, FirstFrame DEF AtBody
    <2>3. Len(got) = r + 1 /\ Len(got) <= r + 1
      BY <2>1, <2>2
    <2>4. PICK i \in Nat \ {0} : i = h + 1 /\ i - 1 = h
      OBVIOUS
    <2>5. Follows(bytes, Len(fr), 1, f, i, r) /\ Len(got) = r + 1
      BY <2>2, <2>3, <2>4
    <2>7. Piece(got, f, i) /\ WholeFrames(left, fr, h) /\ NextIs(left, fr, f)
      BY <2>5, GotToTheEnd
    <2>6. QED
      <3>1. got = [j \in 1..Len(got) |-> <<f, h + j>>]
        <4>1. ASSUME NEW j \in 1..Len(got) PROVE got[j] = <<f, h + j>>
          BY <2>4, <2>7 DEF Piece
        <4>2. got = [j \in 1..Len(got) |-> got[j]]
          OBVIOUS
        <4>3. QED
          BY <4>1, <4>2
      <3>2. QED
        BY <2>3, <2>7, <3>1 DEF Body
  <1>3. QED
    BY <1>1, <1>2

(* A later frame's body goes behind those there are; a frame sent changes  *)
(* none of them.                                                           *)
LEMMA OneMoreBody ==
  ASSUME NEW fr \in Seq(Sent), NEW h \in Nat, NEW bodies \in Seq(Seq(Byte)), NEW b \in Nat,
         Numbered(bodies, fr, h, b), NEW f \in b + 1..Len(fr), NEW body \in Seq(Byte), body = Body(fr, h, f)
  PROVE  Numbered(Append(bodies, body), fr, h, f)
PROOF
  <1> DEFINE n == Len(bodies)
             more == Append(bodies, body)
  <1>1. PICK number \in [1..n -> 1..b] :
          \A i, j \in 1..n : bodies[i] = Body(fr, h, number[i]) /\ (i < j => number[i] < number[j])
    BY DEF Numbered
  <1>2. /\ n \in Nat /\ Len(more) = n + 1 /\ more[n + 1] = body /\ \A i \in 1..n : more[i] = bodies[i]
        /\ f \in Nat
    OBVIOUS
  <1> HIDE DEF n, more
  <1> DEFINE next == [i \in 1..n + 1 |-> IF i = n + 1 THEN f ELSE number[i]]
  <1>3. /\ next \in [1..n + 1 -> 1..f] /\ next[n + 1] = f
        /\ \A i \in 1..n : next[i] = number[i] /\ number[i] \in Nat /\ number[i] < f
    BY <1>1, <1>2
  <1> HIDE DEF next
  <1>4. ASSUME NEW i \in 1..n + 1, NEW j \in 1..n + 1
        PROVE  more[i] = Body(fr, h, next[i]) /\ (i < j => next[i] < next[j])
    <2>1. more[i] = Body(fr, h, next[i])
      <3>1. CASE i = n + 1
        BY <1>2, <1>3, <3>1
      <3>2. CASE i # n + 1
        <4>1. i \in 1..n
          BY <1>2, <3>2
        <4>2. QED
          BY <1>1, <1>2, <1>3, <4>1
      <3>3. QED
        BY <3>1, <3>2
    <2>2. ASSUME i < j PROVE next[i] < next[j]
      <3>1. i \in 1..n
        BY <1>2, <2>2
      <3>2. CASE j = n + 1
        BY <1>3, <3>1, <3>2
      <3>3. CASE j # n + 1
        <4>1. j \in 1..n
          BY <1>2, <3>3
        <4>2. QED
          BY <1>1, <1>3, <2>2, <3>1, <4>1
      <3>4. QED
        BY <3>2, <3>3
    <2>3. QED
      BY <2>1, <2>2
  <1>5. QED
    BY <1>2, <1>3, <1>4 DEF Numbered, more

LEMMA BodiesStay ==
  ASSUME NEW fr \in Seq(Sent), NEW h \in Nat, NEW bodies \in Seq(Seq(Byte)), NEW b \in 0..Len(fr),
         Numbered(bodies, fr, h, b), NEW e \in Sent
  PROVE  Numbered(bodies, Append(fr, e), h, b)
PROOF
  <1>1. \A f \in 1..b : Body(Append(fr, e), h, f) = Body(fr, h, f)
    <2>1. \A f \in 1..b : Append(fr, e)[f] = fr[f]
      OBVIOUS
    <2>2. QED
      BY <2>1 DEF Body
  <1>2. QED
    BY <1>1 DEF Numbered

-----------------------------------------------------------------------------
(* What recv has and what it has not, and where a reader stands that has   *)
(* used the frames up to number b.                                         *)
Coming(at, got, left) == IF at \in {"header", "body"} THEN got \o left ELSE left

Standing(bytes, fr, h, kind, at, n, b) ==
  /\ at = "header" => kind = "omrs" /\ n = HeaderSize /\ NextIs(bytes, fr, b)
  /\ at = "body" /\ kind = "wild" => n = RecordSize /\ NextIs(bytes, fr, b)
  /\ at = "body" /\ kind = "omrs" => \E f \in b + 1..Len(fr) : n = fr[f].size /\ AtBody(bytes, fr, h, f)
  /\ at \in {"parse", "publish"} => NextIs(bytes, fr, b)

StreamTypes ==
  /\ framing \in {"omrs", "wild"} /\ stage \in {"closed", "header", "body", "parse", "publish"}
  /\ frames \in Seq(Sent)
  /\ framing = "wild" => \A f \in 1..Len(frames) : frames[f].size = RecordSize
  /\ buf \in Seq(Byte) /\ incoming \in Seq(Byte) /\ want \in Nat /\ Len(buf) <= want
  /\ parsed \in Seq(Seq(Byte))

ReaderStands(b) ==
  /\ Numbered(parsed, frames, Header, b)
  /\ Standing(Coming(stage, buf, incoming), frames, Header, framing, stage, want, b)

StreamInv ==
  /\ StreamTypes
  /\ stage = "closed" => incoming = <<>>
  /\ WholeFrames(Coming(stage, buf, incoming), frames, Header)
  /\ \E b \in 0..Len(frames) : ReaderStands(b)

(* However recv cuts the stream up and wherever a connection breaks, the   *)
(* parser gets whole bodies, in the order they were sent, each at most     *)
(* once (recv_exactly, _stream_until_disconnect).                          *)
THEOREM FramesStayWhole == StreamSpec => []FramesAreWhole
PROOF
  <1> USE StreamAssumption
  <1>1. StreamInit => StreamInv
    <2> SUFFICES ASSUME StreamInit PROVE StreamInv
      OBVIOUS
    <2>1. StreamTypes /\ incoming = <<>> /\ stage = "closed" /\ Len(frames) = 0 /\ parsed = <<>>
      BY DEF StreamInit, StreamTypes
    <2>2. Coming(stage, buf, incoming) = <<>>
      BY <2>1 DEF Coming
    <2>3. WholeFrames(<<>>, frames, Header)
      BY DEF WholeFrames
    <2>4. Numbered(parsed, frames, Header, 0)
      <3>1. \E number \in [1..Len(parsed) -> 1..0] : TRUE
        <4>1. [i \in 1..Len(parsed) |-> i] \in [1..Len(parsed) -> 1..0]
          BY <2>1
        <4>2. QED
          BY <4>1
      <3>2. 1..Len(parsed) = {}
        BY <2>1
      <3>3. QED
        BY <3>1, <3>2 DEF Numbered
    <2>5. ReaderStands(0)
      BY <2>1, <2>4 DEF ReaderStands, Standing
    <2>6. QED
      BY <2>1, <2>2, <2>3, <2>5 DEF StreamInv
  <1>2. StreamInv /\ [StreamNext]_streamVars => StreamInv'
    <2> SUFFICES ASSUME StreamInv, [StreamNext]_streamVars PROVE StreamInv'
      OBVIOUS
    <2> DEFINE come == Coming(stage, buf, incoming)
               last == Len(frames)
    <2>1. /\ StreamTypes /\ (stage = "closed" => incoming = <<>>)
          /\ WholeFrames(come, frames, Header) /\ last \in Nat
      BY DEF StreamInv, StreamTypes
    <2>2. PICK b \in 0..last : ReaderStands(b)
      BY DEF StreamInv
    <2>3. Header \in Nat /\ (framing = "omrs" => Header = HeaderSize) /\ (framing = "wild" => Header = 0)
      BY DEF Header
    <2>4. come \in Seq(Byte)
      BY <2>1, ConcatProperties DEF StreamTypes, Coming
    <2>5. framing' = framing => Header' = Header
      BY DEF Header
    <2>19. \A s, t, u \in Seq(Byte) : (s \o t) \o u = s \o (t \o u)
      BY ConcatAssociative
    <2> HIDE DEF come, last
    (* A step that reads on: what is to come is what was to come.            *)
    <2>6. ASSUME ReadNext, UNCHANGED <<framing, frames, parsed>>, incoming' \in Seq(Byte),
                 WholeFrames(incoming', frames, Header), NextIs(incoming', frames, b)
          PROVE  StreamInv'
      <3>1. StreamTypes' /\ stage' \in {"header", "body"} /\ buf' = <<>>
        BY <2>1, <2>6 DEF ReadNext, StreamTypes
      <3>2. Coming(stage', buf', incoming') = incoming'
        BY <2>6, <3>1, ConcatEmptySeq DEF Coming
      <3>3. Standing(incoming', frames, Header, framing, stage', want', b)
        BY <2>1, <2>6 DEF ReadNext, Standing, StreamTypes
      <3>4. ReaderStands(b)'
        BY <2>2, <2>5, <2>6, <3>2, <3>3 DEF ReaderStands
      <3>5. QED
        BY <2>5, <2>6, <3>1, <3>2, <3>4 DEF StreamInv, last
    <2>7. CASE Connect
      <3>1. incoming' = <<>> /\ WholeFrames(<<>>, frames, Header) /\ NextIs(<<>>, frames, b)
        BY <2>7 DEF Connect, WholeFrames, NextIs
      <3>2. QED
        BY <2>6, <2>7, <3>1 DEF Connect
    <2>8. CASE ServerSends
      <3>1. PICK size \in (IF framing = "omrs" THEN BodySize ELSE {RecordSize}), c \in Sensor \cup {Unusable} :
              /\ frames' = Append(frames, [size |-> size, content |-> c])
              /\ incoming' = incoming \o [i \in 1 .. Header + size |-> <<Len(frames) + 1, i>>]
        BY <2>8 DEF ServerSends
      <3> DEFINE e == [size |-> size, content |-> c]
                 more == [i \in 1 .. Header + e.size |-> <<Len(frames) + 1, i>>]
      <3>2. e \in Sent /\ Header + e.size > 0 /\ (framing = "wild" => e.size = RecordSize)
        BY <2>1, <2>3 DEF Sent, StreamTypes
      <3>3. /\ frames' = Append(frames, e) /\ incoming' = incoming \o more
            /\ UNCHANGED <<framing, buf, want, stage, parsed>> /\ stage # "closed"
        BY <2>8, <3>1 DEF ServerSends
      <3>4. frames \in Seq(Sent) /\ buf \in Seq(Byte) /\ incoming \in Seq(Byte)
        BY <2>1 DEF StreamTypes
      <3>17. more \in Seq(Byte)
        <4>1. Len(frames) + 1 \in Nat /\ Header + e.size \in Nat
          BY <2>3, <3>2, <3>4 DEF Sent
        <4>2. QED
          BY <4>1, FrameIsBytes
      <3>15. Len(more) = Header + e.size /\ Piece(more, Len(frames) + 1, 1)
        <4>1. Header + e.size \in Nat
          BY <2>3, <3>2 DEF Sent
        <4>2. QED
          BY <4>1 DEF Piece
      <3> HIDE DEF e, more
      <3>16. PICK all \in Seq(Byte) : all = come \o more /\ Joined(all, come, more)
        BY <2>4, <3>17, ConcatJoins
      <3>18. /\ frames \in Seq(Sent) /\ Header \in Nat /\ come \in Seq(Byte)
             /\ WholeFrames(come, frames, Header) /\ e \in Sent /\ Header + e.size > 0
             /\ more \in Seq(Byte) /\ Len(more) = Header + e.size /\ Piece(more, Len(frames) + 1, 1)
             /\ all \in Seq(Byte) /\ Joined(all, come, more)
        BY <2>1, <2>3, <2>4, <3>2, <3>4, <3>15, <3>16, <3>17, Zenon
      <3>5. /\ WholeFrames(all, Append(frames, e), Header)
            /\ \A a \in 0..Len(frames) : NextIs(come, frames, a) => NextIs(all, Append(frames, e), a)
            /\ come # <<>> => all # <<>> /\ all[1] = come[1]
        BY <3>18, MoreIsWhole
      <3>6. incoming \o more \in Seq(Byte)
        BY <3>4, <3>17, ConcatProperties
      <3>7. Coming(stage, buf, incoming \o more) = all
        <4>1. (buf \o incoming) \o more = buf \o (incoming \o more)
          BY <3>4, <3>17, <2>19
        <4>2. CASE stage \in {"header", "body"}
          BY <3>16, <4>1, <4>2, Zenon DEF Coming, come
        <4>3. CASE stage \notin {"header", "body"}
          BY <3>16, <4>3, Zenon DEF Coming, come
        <4>4. QED
          BY <4>2, <4>3
      <3>8. /\ Append(frames, e) \in Seq(Sent) /\ Len(Append(frames, e)) = last + 1
            /\ \A f \in 1..last : Append(frames, e)[f] = frames[f]
            /\ Append(frames, e)[last + 1] = e
        BY <3>2, <3>4, AppendProperties DEF last
      <3>9. StreamTypes'
        <4>1. ASSUME framing = "wild", NEW f \in 1..last + 1 PROVE Append(frames, e)[f].size = RecordSize
          <5>1. CASE f = last + 1
            BY <3>2, <3>8, <4>1, <5>1
          <5>2. CASE f # last + 1
            <6>1. f \in 1..last
              BY <2>1, <5>2
            <6>2. QED
              BY <2>1, <3>8, <4>1, <6>1 DEF StreamTypes, last
          <5>3. QED
            BY <5>1, <5>2
        <4>2. QED
          BY <2>1, <3>3, <3>6, <3>8, <4>1 DEF StreamTypes
      <3>10. Numbered(parsed, Append(frames, e), Header, b)
        BY <2>1, <2>2, <2>3, <3>2, <3>4, BodiesStay DEF ReaderStands, last, StreamTypes
      <3>11. Standing(all, Append(frames, e), Header, framing, stage, want, b)
        <4>1. Standing(come, frames, Header, framing, stage, want, b)
          BY <2>2 DEF ReaderStands, come
        <4>2. NextIs(come, frames, b) => NextIs(all, Append(frames, e), b)
          BY <3>5 DEF last
        <4>3. ASSUME NEW f \in b + 1..last, AtBody(come, frames, Header, f)
              PROVE  /\ f \in b + 1..last + 1 /\ Append(frames, e)[f].size = frames[f].size
                     /\ AtBody(all, Append(frames, e), Header, f)
          <5>1. f \in 1..last /\ f \in 0..Len(frames) /\ f \in b + 1..last + 1
            BY <2>1 DEF last
          <5>2. QED
            BY <3>5, <3>8, <4>3, <5>1 DEF AtBody
        <4>4. QED
          BY <3>8, <4>1, <4>2, <4>3 DEF Standing, last
      <3>12. ReaderStands(b)'
        BY <2>5, <3>3, <3>7, <3>10, <3>11 DEF ReaderStands
      <3>13. b \in 0..last + 1
        BY <2>1
      <3>14. QED
        BY <2>5, <3>3, <3>5, <3>7, <3>8, <3>9, <3>12, <3>13 DEF StreamInv
    <2>9. CASE Recv
      <3>1. PICK k \in 1..Len(incoming) :
              /\ k <= want - Len(buf) /\ buf' = buf \o SubSeq(incoming, 1, k)
              /\ incoming' = SubSeq(incoming, k + 1, Len(incoming))
        BY <2>9 DEF Recv
      <3> DEFINE front == SubSeq(incoming, 1, k)
                 back == SubSeq(incoming, k + 1, Len(incoming))
      <3>2. buf \in Seq(Byte) /\ incoming \in Seq(Byte) /\ want \in Nat
        BY <2>1 DEF StreamTypes
      <3>3. front \in Seq(Byte) /\ Len(front) = k /\ back \in Seq(Byte)
        <4>1. \A i \in 1..Len(incoming) : incoming[i] \in Byte
          BY <3>2
        <4>2. QED
          BY <3>2, <4>1, SubSeqProperties
      <3>4. front \o back = incoming
        <4>1. 1 \in 1..Len(incoming) + 1 /\ k \in 1 - 1..Len(incoming) /\ Len(incoming) \in k..Len(incoming)
          BY <3>2
        <4>2. front \o back = SubSeq(incoming, 1, Len(incoming))
          BY <3>2, <4>1, ConcatAdjacentSubSeq
        <4>3. QED
          BY <3>2, <4>2, SubSeqFull
      <3> HIDE DEF front, back
      <3>5. (buf \o front) \o back = buf \o incoming
        <4>1. (buf \o front) \o back = buf \o (front \o back)
          BY <3>2, <3>3, <2>19
        <4>2. QED
          BY <3>4, <4>1, Zenon
      <3>6. UNCHANGED <<framing, frames, want, stage, parsed>> /\ stage \in {"header", "body"}
        BY <2>9 DEF Recv, Reading
      <3>7. buf' = buf \o front /\ incoming' = back
        BY <3>1 DEF front, back
      <3>8. Coming(stage, buf', incoming') = come
        BY <3>5, <3>6, <3>7 DEF Coming, come
      <3>9. StreamTypes'
        <4>1. buf \o front \in Seq(Byte) /\ Len(buf \o front) = Len(buf) + k
          BY <3>2, <3>3, ConcatProperties
        <4>2. Len(buf) + k <= want
          BY <3>1, <3>2
        <4>3. QED
          BY <2>1, <3>3, <3>6, <3>7, <4>1, <4>2 DEF StreamTypes
      <3>10. ReaderStands(b)'
        BY <2>2, <2>5, <3>6, <3>8 DEF ReaderStands, come
      <3>11. QED
        BY <2>1, <2>5, <3>6, <3>8, <3>9, <3>10 DEF StreamInv, last
    <2>10. CASE HeaderIsRead
      <3>1. /\ stage = "header" /\ Len(buf) = want /\ want' \in Length(buf) /\ buf' = <<>> /\ stage' = "body"
            /\ UNCHANGED <<framing, frames, incoming, parsed>>
        BY <2>10 DEF HeaderIsRead, Complete
      <3>2. /\ come = buf \o incoming /\ Numbered(parsed, frames, Header, b)
            /\ framing = "omrs" /\ want = Header /\ NextIs(come, frames, b)
        BY <2>2, <2>3, <3>1 DEF ReaderStands, Standing, Coming, come
      <3>3. buf \in Seq(Byte) /\ incoming \in Seq(Byte) /\ frames \in Seq(Sent) /\ Header \in Nat \ {0}
        BY <2>1, <2>3, <3>2 DEF StreamTypes
      <3>17. Joined(come, buf, incoming)
        BY <3>2, <3>3, ConcatJoins
      <3>4. come # <<>> /\ \A x \in 1..Len(buf) : come[x] = buf[x]
        <4>1. Len(buf) > 0 /\ Len(incoming) \in Nat /\ Len(come) = Len(buf) + Len(incoming)
          BY <3>1, <3>2, <3>3, <3>17 DEF Joined
        <4>2. come # <<>>
          BY <4>1
        <4>3. QED
          BY <3>17, <4>2 DEF Joined
      <3>5. PICK g \in b + 1..last : come[1] = <<g, 1>>
        BY <3>2, <3>4 DEF NextIs, last
      <3>6. g \in 1..Len(frames) /\ g \in Nat /\ frames[g] \in Sent
        BY <2>1, <3>3 DEF last
      <3>7. PICK r \in Nat : 1 + r = Header + frames[g].size /\ Follows(come, Len(frames), 1, g, 1, r)
        BY <2>1, <2>4, <3>3, <3>4, <3>5, <3>6, FirstFrame
      <3>8. frames[g].size \in Nat /\ Len(buf) <= r + 1 /\ Len(buf) = Header
        BY <3>1, <3>2, <3>3, <3>6, <3>7 DEF Sent
      <3>9. /\ Piece(buf, g, 1)
            /\ WholeFrames(incoming, frames, Header)
            /\ Len(buf) = r + 1 => NextIs(incoming, frames, g)
            /\ Len(buf) < r + 1 => incoming # <<>> /\ incoming[1] = <<g, 1 + Len(buf)>>
        BY <2>1, <2>4, <3>3, <3>6, <3>7, <3>8, <3>17, GotFromTheFront
      <3>10. want' = frames[g].size
        <4>1. buf = SubSeq(BytesOf(g), 1, Header)
          <5>1. \A x \in 1..Header : BytesOf(g)[x] = <<g, x>> /\ <<g, x>> \in Byte
            <6>1. ASSUME NEW x \in 1..Header PROVE BytesOf(g)[x] = <<g, x>> /\ <<g, x>> \in Byte
              <7>1. x \in 1..Header + frames[g].size /\ x \in Nat
                BY <3>3, <3>8
              <7>2. QED
                BY <3>6, <7>1 DEF BytesOf, Byte
            <6>2. QED
              BY <6>1
          <5>2. /\ SubSeq(BytesOf(g), 1, Header) \in Seq(Byte) /\ Len(SubSeq(BytesOf(g), 1, Header)) = Header
                /\ \A x \in 1..Header : SubSeq(BytesOf(g), 1, Header)[x] = BytesOf(g)[x]
            <6>1. 1 \in Int /\ Header \in Int /\ 1 <= Header
              BY <3>3
            <6>2. \A x \in 1..Header : BytesOf(g)[x] \in Byte
              BY <5>1
            <6>3. /\ SubSeq(BytesOf(g), 1, Header) \in Seq(Byte)
                  /\ Len(SubSeq(BytesOf(g), 1, Header)) = Header - 1 + 1
                  /\ \A x \in 1..Header - 1 + 1 : SubSeq(BytesOf(g), 1, Header)[x] = BytesOf(g)[1 + x - 1]
              BY <6>1, <6>2, SubSeqProperties
            <6>4. QED
              BY <3>3, <6>3
          <5>3. ASSUME NEW x \in 1..Len(buf) PROVE buf[x] = <<g, x>>
            BY <3>3, <3>9 DEF Piece
          <5>4. QED
            BY <3>3, <3>8, <5>1, <5>2, <5>3, SeqEqual
        <4>2. buf[1][1] = g
          <5>1. 1 \in 1..Len(buf) /\ buf[1] = come[1]
            BY <3>3, <3>4, <3>8
          <5>2. QED
            BY <3>5, <5>1
        <4>3. g \in DOMAIN frames
          BY <3>3, <3>6
        <4>4. QED
          BY <3>1, <4>1, <4>2, <4>3 DEF Length
      <3>11. AtBody(incoming, frames, Header, g)
        BY <3>3, <3>7, <3>8, <3>9 DEF AtBody
      <3>12. Coming(stage', buf', incoming') = incoming
        BY <3>1, <3>3, ConcatEmptySeq DEF Coming
      <3>13. Standing(incoming, frames, Header, framing, "body", want', b)
        BY <3>2, <3>5, <3>10, <3>11 DEF Standing, last
      <3>14. StreamTypes'
        BY <2>1, <3>1, <3>8, <3>10 DEF StreamTypes
      <3>15. ReaderStands(b)'
        BY <2>5, <3>1, <3>2, <3>12, <3>13 DEF ReaderStands
      <3>16. QED
        BY <2>5, <3>1, <3>9, <3>12, <3>14, <3>15 DEF StreamInv, last
    <2>11. CASE BodyIsRead
      <3>1. /\ stage = "body" /\ Len(buf) = want /\ parsed' = Append(parsed, buf) /\ stage' = "parse"
            /\ UNCHANGED <<framing, frames, incoming, buf, want>>
        BY <2>11 DEF BodyIsRead, Complete
      <3>2. /\ come = buf \o incoming /\ Numbered(parsed, frames, Header, b)
            /\ Standing(come, frames, Header, framing, "body", want, b)
        BY <2>2, <3>1 DEF ReaderStands, Coming, come
      <3>3. /\ buf \in Seq(Byte) /\ incoming \in Seq(Byte) /\ frames \in Seq(Sent) /\ parsed \in Seq(Seq(Byte))
            /\ framing \in {"omrs", "wild"}
        BY <2>1 DEF StreamTypes
      <3>13. Joined(come, buf, incoming)
        BY <3>2, <3>3, ConcatJoins
      <3>4. PICK f \in b + 1..last : want = frames[f].size /\ AtBody(come, frames, Header, f)
        <4>1. CASE framing = "omrs"
          BY <3>2, <4>1 DEF Standing, last
        <4>2. CASE framing = "wild"
          <5>1. want = RecordSize /\ NextIs(come, frames, b) /\ Header = 0
            BY <2>3, <3>2, <4>2 DEF Standing
          <5>2. come # <<>>
            <6>1. Len(come) = Len(buf) + Len(incoming) /\ Len(buf) > 0 /\ Len(incoming) \in Nat
              BY <3>1, <3>3, <3>13, <5>1 DEF Joined
            <6>2. Len(come) > 0
              BY <6>1
            <6>3. QED
              BY <6>2
          <5>3. PICK g \in b + 1..last : come[1] = <<g, 1>>
            BY <5>1, <5>2 DEF NextIs, last
          <5>4. g \in 1..Len(frames)
            BY <2>1 DEF last
          <5>5. frames[g].size = RecordSize
            BY <2>1, <4>2, <5>4 DEF StreamTypes
          <5>6. AtBody(come, frames, Header, g)
            BY <5>1, <5>2, <5>3, <5>5 DEF AtBody
          <5>7. QED
            BY <5>1, <5>5, <5>6
        <4>3. QED
          BY <3>3, <4>1, <4>2
      <3>5. f \in 1..Len(frames) /\ f \in 0..last /\ Len(buf) = frames[f].size
        BY <2>1, <3>1, <3>4 DEF last
      <3>6. buf = Body(frames, Header, f) /\ WholeFrames(incoming, frames, Header) /\ NextIs(incoming, frames, f)
        BY <2>1, <2>3, <2>4, <3>3, <3>4, <3>5, <3>13, BodyIsGot
      <3>7. Numbered(Append(parsed, buf), frames, Header, f)
        BY <2>1, <2>3, <3>2, <3>3, <3>4, <3>6, OneMoreBody DEF last
      <3>8. Coming(stage', buf', incoming') = incoming
        BY <3>1 DEF Coming
      <3>9. Standing(incoming, frames, Header, framing, "parse", want, f)
        BY <3>6 DEF Standing
      <3>10. StreamTypes'
        <4>1. Append(parsed, buf) \in Seq(Seq(Byte))
          BY <3>3, AppendProperties
        <4>2. QED
          BY <2>1, <3>1, <4>1 DEF StreamTypes
      <3>11. ReaderStands(f)'
        BY <2>5, <3>1, <3>7, <3>8, <3>9 DEF ReaderStands
      <3>12. QED
        BY <2>5, <3>1, <3>5, <3>6, <3>8, <3>10, <3>11 DEF StreamInv, last
    <2>12. CASE ConnectionEnds
      <3>1. /\ stage' = "closed" /\ incoming' = <<>> /\ buf' = <<>>
            /\ UNCHANGED <<framing, frames, want, parsed>>
        BY <2>12 DEF ConnectionEnds
      <3>2. StreamTypes'
        BY <2>1, <3>1 DEF StreamTypes
      <3>3. Coming(stage', buf', incoming') = <<>> /\ WholeFrames(<<>>, frames, Header)
        BY <3>1 DEF Coming, WholeFrames
      <3>4. Standing(<<>>, frames, Header, framing, "closed", want, b)
        BY DEF Standing
      <3>5. ReaderStands(b)'
        BY <2>2, <2>5, <3>1, <3>3, <3>4 DEF ReaderStands
      <3>6. QED
        BY <2>5, <3>1, <3>2, <3>3, <3>5 DEF StreamInv, last
    <2>13. ASSUME stage \in {"parse", "publish"}
           PROVE  /\ incoming \in Seq(Byte) /\ WholeFrames(incoming, frames, Header)
                  /\ NextIs(incoming, frames, b) /\ Numbered(parsed, frames, Header, b)
      <3>1. come = incoming
        BY <2>13 DEF Coming, come
      <3>2. QED
        BY <2>1, <2>2, <2>13, <3>1 DEF ReaderStands, Standing, StreamTypes, come
    <2>14. CASE FrameParses
      <3>1. stage = "parse" /\ stage' = "publish" /\ UNCHANGED <<framing, frames, incoming, buf, want, parsed>>
        BY <2>14 DEF FrameParses
      <3>2. StreamTypes'
        BY <2>1, <3>1 DEF StreamTypes
      <3>3. Coming(stage', buf', incoming') = incoming
        BY <3>1 DEF Coming
      <3>4. Standing(incoming, frames, Header, framing, "publish", want, b)
        BY <2>13, <3>1 DEF Standing
      <3>5. ReaderStands(b)'
        BY <2>5, <2>13, <3>1, <3>3, <3>4 DEF ReaderStands
      <3>6. QED
        BY <2>5, <2>13, <3>1, <3>2, <3>3, <3>5 DEF StreamInv, last
    <2>15. CASE FrameIsBad
      <3>1. stage = "parse" /\ ReadNext /\ UNCHANGED <<framing, frames, incoming, parsed>>
        BY <2>15 DEF FrameIsBad
      <3>2. QED
        BY <2>6, <2>13, <3>1
    <2>16. CASE PublishEvent
      <3>1. stage = "publish" /\ ReadNext /\ UNCHANGED <<framing, frames, incoming, parsed>>
        BY <2>16 DEF PublishEvent
      <3>2. QED
        BY <2>6, <2>13, <3>1
    <2>17. CASE UNCHANGED streamVars
      <3>1. UNCHANGED <<framing, frames, incoming, buf, want, stage, parsed>>
        BY <2>17 DEF streamVars
      <3>2. StreamTypes'
        BY <2>1, <3>1 DEF StreamTypes
      <3>3. ReaderStands(b)'
        BY <2>2, <2>5, <3>1 DEF ReaderStands
      <3>4. QED
        BY <2>1, <2>5, <3>1, <3>2, <3>3 DEF StreamInv, last, come
    <2>18. QED
      BY <2>7, <2>8, <2>9, <2>10, <2>11, <2>12, <2>14, <2>15, <2>16, <2>17 DEF StreamNext
  <1>3. StreamInv => FramesAreWhole
    <2> SUFFICES ASSUME StreamInv PROVE FramesAreWhole
      OBVIOUS
    <2>1. PICK b \in 0..Len(frames) : Numbered(parsed, frames, Header, b)
      BY DEF StreamInv, ReaderStands
    <2>2. PICK number \in [1..Len(parsed) -> 1..b] :
            \A i, j \in 1..Len(parsed) :
              parsed[i] = Body(frames, Header, number[i]) /\ (i < j => number[i] < number[j])
      BY <2>1 DEF Numbered
    <2>3. DOMAIN parsed = 1..Len(parsed) /\ DOMAIN frames = 1..Len(frames) /\ 1..b \subseteq 1..Len(frames)
      BY DEF StreamInv, StreamTypes
    <2>4. number \in [DOMAIN parsed -> DOMAIN frames]
      BY <2>2, <2>3
    <2>5. \A f \in 1..Len(frames) : Body(frames, Header, f) = BodyOf(f)
      BY DEF Body, BodyOf
    <2>6. \A i, j \in DOMAIN parsed :
            parsed[i] = BodyOf(number[i]) /\ (i < j => number[i] < number[j])
      BY <2>2, <2>3, <2>4, <2>5
    <2>7. QED
      BY <2>4, <2>6 DEF FramesAreWhole
  <1>4. QED
    BY <1>1, <1>2, <1>3, PTL DEF StreamSpec

-----------------------------------------------------------------------------
(* The corridor simulation.  A train is at most 160 km/h fast, so a tick   *)
(* moves it by less than the distance in which it looks for a stop.        *)
Top == 160 * Kmh
Half == Km \div 2

SaneTrain ==
  [km : 0..72 * Km, direction : {1, -1}, speed : 0..Top, delay : Nat,
   at : DOMAIN Station \cup {Nowhere}, dwell : Int]

Crosses(from, to, place) ==
  \/ from < place /\ place < to
  \/ to < place /\ place < from

CorridorInv ==
  /\ DOMAIN trains \subseteq Id /\ trains \in [DOMAIN trains -> SaneTrain]

LEMMA Scales == Km \in Nat /\ Kmh \in Nat /\ Top \in Nat /\ Half \in Nat /\ Top < Half /\ Half < Km
PROOF
  BY SMT DEF Km, Kmh, Top, Half

TrainClasses == {"Rajdhani", "Shatabdi", "Vande-Bharat", "Duronto", "Garib-Rath", "Jan-Shatabdi"}

LEMMA RosterIsSane ==
  ASSUME NEW id \in Id
  PROVE  /\ Roster[id].maxSpeed \in 0..Top /\ Roster[id].km \in 0..72 * Km
         /\ Roster[id].direction \in {1, -1}
PROOF
  <1>1. \E c \in TrainClasses, m \in 110..160, k \in {5, 20, 30, 40, 55, 65}, d \in {1, -1} :
          Roster[id] = Runs(c, m, k, d)
    <2>1. CASE id = "T-12301"
      <3>1. Roster[id] = Runs("Rajdhani", 130, 5, 1)
        BY <2>1 DEF Roster, Id
      <3>2. QED
        BY <3>1 DEF TrainClasses
    <2>2. CASE id = "T-12002"
      <3>1. Roster[id] = Runs("Shatabdi", 130, 40, 1)
        BY <2>2 DEF Roster, Id
      <3>2. QED
        BY <3>1 DEF TrainClasses
    <2>3. CASE id = "T-22436"
      <3>1. Roster[id] = Runs("Vande-Bharat", 160, 65, -1)
        BY <2>3 DEF Roster, Id
      <3>2. QED
        BY <3>1 DEF TrainClasses
    <2>4. CASE id = "T-12213"
      <3>1. Roster[id] = Runs("Duronto", 120, 20, 1)
        BY <2>4 DEF Roster, Id
      <3>2. QED
        BY <3>1 DEF TrainClasses
    <2>5. CASE id = "T-12909"
      <3>1. Roster[id] = Runs("Garib-Rath", 110, 55, -1)
        BY <2>5 DEF Roster, Id
      <3>2. QED
        BY <3>1 DEF TrainClasses
    <2>6. CASE id = "T-12055"
      <3>1. Roster[id] = Runs("Jan-Shatabdi", 110, 30, 1)
        BY <2>6 DEF Roster, Id
      <3>2. QED
        BY <3>1 DEF TrainClasses
    <2>7. QED
      BY <2>1, <2>2, <2>3, <2>4, <2>5, <2>6 DEF Id
  <1>2. PICK c \in TrainClasses, m \in 110..160, k \in {5, 20, 30, 40, 55, 65}, d \in {1, -1} :
          Roster[id] = Runs(c, m, k, d)
    BY <1>1
  <1>3. /\ Runs(c, m, k, d).maxSpeed \in 0..Top /\ Runs(c, m, k, d).km \in 0..72 * Km
        /\ Runs(c, m, k, d).direction \in {1, -1}
    <2>1. m * Kmh \in 0..Top
      BY SMT DEF Kmh, Top
    <2>2. k * Km \in 0..72 * Km
      BY Scales, SMT
    <2>3. QED
      BY <2>1, <2>2 DEF Runs
  <1>4. QED
    BY <1>2, <1>3, Zenon

LEMMA StationsAreApart ==
  /\ \A s \in DOMAIN Station : Station[s] \in 0..72 * Km
  /\ \A s, r \in DOMAIN Station : s # r => Station[s] - Station[r] >= Km \/ Station[r] - Station[s] >= Km
PROOF
  <1>1. Km \in Nat
    BY Scales
  <1>2. QED
    BY <1>1 DEF Station

LEMMA SegmentSpeedIsSane ==
  ASSUME NEW km \in Int
  PROVE  SegmentSpeed(km) \in 0..Top
PROOF
  <1> DEFINE on == {i \in DOMAIN Segments : Segments[i][1] * Km <= km /\ km <= Segments[i][2] * Km}
             first == CHOOSE i \in on : \A j \in on : i <= j
  <1>1. DOMAIN Segments = 1..5 /\ \A i \in 1..5 : Segments[i][3] \in 80..130
    BY DEF Segments
  <1>2. on \subseteq 1..5
    BY <1>1
  <1> HIDE DEF on
  <1>3. on # {} => first \in on
    <2>1. ASSUME on # {} PROVE \E i \in on : \A j \in on : i <= j
      <3>1. CASE 1 \in on
        BY <1>2, <3>1
      <3>2. CASE 1 \notin on /\ 2 \in on
        BY <1>2, <3>2
      <3>3. CASE 1 \notin on /\ 2 \notin on /\ 3 \in on
        BY <1>2, <3>3
      <3>4. CASE 1 \notin on /\ 2 \notin on /\ 3 \notin on /\ 4 \in on
        BY <1>2, <3>4
      <3>5. CASE 1 \notin on /\ 2 \notin on /\ 3 \notin on /\ 4 \notin on
        <4>1. \A j \in on : j = 5
          BY <1>2, <3>5
        <4>2. QED
          BY <2>1, <4>1
      <3>6. QED
        BY <3>1, <3>2, <3>3, <3>4, <3>5
    <2>2. QED
      BY <2>1
  <1>4. CASE on = {}
    <2>1. SegmentSpeed(km) = 100 * Kmh
      BY <1>4 DEF SegmentSpeed, on
    <2>2. 100 * Kmh \in 0..Top
      BY SMT DEF Kmh, Top
    <2>3. QED
      BY <2>1, <2>2
  <1>5. CASE on # {}
    <2>1. Segments[first][3] \in 80..130
      BY <1>1, <1>2, <1>3, <1>5
    <2>2. SegmentSpeed(km) = Segments[first][3] * Kmh
      BY <1>5 DEF SegmentSpeed, on
    <2>3. \A v \in 80..130 : v * Kmh \in 0..Top
      BY SMT DEF Kmh, Top
    <2>4. QED
      BY <2>1, <2>2, <2>3
  <1>6. QED
    BY <1>4, <1>5

LEMMA SaneChanges ==
  ASSUME NEW t \in SaneTrain, NEW km \in 0..72 * Km, NEW speed \in 0..Top, NEW delay \in Nat,
         NEW at \in DOMAIN Station \cup {Nowhere}, NEW n \in Int, NEW d \in {1, -1}
  PROVE  /\ [t EXCEPT !.km = km] \in SaneTrain
         /\ [t EXCEPT !.km = km, !.direction = d] \in SaneTrain
         /\ [t EXCEPT !.speed = speed, !.delay = delay] \in SaneTrain
         /\ [t EXCEPT !.dwell = n, !.speed = speed, !.at = at] \in SaneTrain
         /\ [t EXCEPT !.km = km, !.speed = speed, !.at = at, !.dwell = n] \in SaneTrain
PROOF
  BY DEF SaneTrain

LEMMA LeastOfTwo == \A a, b \in Int : Min({a, b}) = IF a <= b THEN a ELSE b
PROOF
  BY DEF Min

LEMMA NextSpeedIsSane ==
  ASSUME NEW id \in Id, trains[id] \in SaneTrain
  PROVE  NextSpeed(id) \in 0..Top
PROOF
  <1> DEFINE speed == trains[id].speed
             target == Min({Roster[id].maxSpeed, SegmentSpeed(trains[id].km)})
  <1>1. speed \in 0..Top /\ trains[id].km \in Int /\ Top \in Nat /\ Kmh \in Nat
    BY Scales DEF SaneTrain
  <1>2. target \in 0..Top
    <2>1. Roster[id].maxSpeed \in 0..Top /\ SegmentSpeed(trains[id].km) \in 0..Top
      BY <1>1, RosterIsSane, SegmentSpeedIsSane
    <2>2. \A a, b \in 0..Top : Min({a, b}) \in 0..Top
      BY <1>1, LeastOfTwo
    <2>3. QED
      BY <2>1, <2>2
  <1> HIDE DEF target
  <1>3. Min({target, speed + 270}) \in 0..Top
    BY <1>1, <1>2, LeastOfTwo
  <1>4. NextSpeed(id) = CASE speed < target - 5 * Kmh -> Min({target, speed + 270})
                          [] speed > target + 5 * Kmh -> IF speed > 432 THEN speed - 432 ELSE 0
                          [] OTHER -> speed
    BY DEF NextSpeed, target
  <1> HIDE DEF speed
  <1>5. QED
    BY <1>1, <1>2, <1>3, <1>4

(* A tick keeps a train on the corridor, and takes it past no station it   *)
(* serves.                                                                 *)
LEMMA TickedIsSane ==
  ASSUME NEW id \in Id, trains[id] \in SaneTrain, NEW t \in Ticked(id)
  PROVE  /\ t \in SaneTrain
         /\ \A s \in DOMAIN Station : ShouldStop(id, s) => ~Crosses(trains[id].km, t.km, Station[s])
PROOF
  <1> USE CorridorAssumption
  <1> DEFINE old == trains[id]
  <1>1. /\ old.km \in 0..72 * Km /\ old.direction \in {1, -1} /\ old.speed \in 0..Top
        /\ old.delay \in Nat /\ old.at \in DOMAIN Station \cup {Nowhere} /\ old.dwell \in Int
        /\ Km \in Nat /\ Half \in Nat /\ Top \in Nat /\ Top < Half /\ Half < Km
    BY Scales DEF SaneTrain
  <1>2. \A s \in DOMAIN Station : Station[s] \in 0..72 * Km
    BY StationsAreApart
  <1>3. CASE t = Dwells(old)
    <2>1. t = [old EXCEPT !.dwell = old.dwell - 1, !.speed = 0,
                          !.at = IF old.dwell = 1 THEN Nowhere ELSE old.at]
      BY <1>3 DEF Dwells
    <2>2. 0 \in 0..Top /\ old.dwell - 1 \in Int /\ 1 \in {1, -1}
          /\ (IF old.dwell = 1 THEN Nowhere ELSE old.at) \in DOMAIN Station \cup {Nowhere}
      BY <1>1
    <2>3. t \in SaneTrain /\ t.km = old.km
      <3>1. t \in SaneTrain
        BY <1>1, <2>1, <2>2, SaneChanges
      <3>2. QED
        BY <2>1, <3>1 DEF SaneTrain
    <2>4. QED
      BY <1>1, <1>2, <2>3 DEF Crosses
  <1>4. ASSUME NEW r \in Stops(id), NEW n \in DwellTicks, t = Arrives(old, r, n)
        PROVE  t \in SaneTrain /\ \A s \in DOMAIN Station : ~Crosses(old.km, t.km, Station[s])
    <2>1. r \in DOMAIN Station /\ Arriving(old, r)
      BY DEF Stops
    <2>2. n \in Int /\ Station[r] \in 0..72 * Km
      BY <1>2, <2>1
    <2>3. t.km = Station[r] /\ t \in SaneTrain
      <3>1. t = [old EXCEPT !.km = Station[r], !.speed = 0, !.at = r, !.dwell = n]
        BY <1>4 DEF Arrives
      <3> DEFINE place == Station[r]
      <3>2. place \in 0..72 * Km
        BY <2>2
      <3> HIDE DEF place
      <3>3. t = [old EXCEPT !.km = place, !.speed = 0, !.at = r, !.dwell = n]
        BY <3>1 DEF place
      <3>4. t.km = place /\ t \in SaneTrain
        <4>1. 0 \in 0..Top /\ r \in DOMAIN Station \cup {Nowhere} /\ 1 \in {1, -1}
          BY <1>1, <2>1
        <4>2. t \in SaneTrain
          BY <1>1, <2>2, <3>2, <3>3, <4>1, SaneChanges
        <4>3. QED
          BY <3>3, <4>2 DEF SaneTrain
      <3>5. QED
        BY <3>4 DEF place
    <2>4. Station[r] - old.km < Half /\ old.km - Station[r] < Half
      <3>1. /\ 0 < (Station[r] - old.km) * old.direction
            /\ (Station[r] - old.km) * old.direction < Half
        BY <2>1 DEF Arriving, Half
      <3>2. CASE old.direction = 1
        BY <1>1, <2>2, <3>1, <3>2
      <3>3. CASE old.direction = -1
        BY <1>1, <2>2, <3>1, <3>3
      <3>4. QED
        BY <1>1, <3>2, <3>3
    <2>5. ASSUME NEW s \in DOMAIN Station, Crosses(old.km, Station[r], Station[s]) PROVE FALSE
      <3>1. Station[s] \in 0..72 * Km
        BY <1>2
      <3>2. s # r
        BY <1>1, <2>2, <2>5 DEF Crosses
      <3>3. Station[s] - Station[r] >= Km \/ Station[r] - Station[s] >= Km
        BY <2>1, <3>2, StationsAreApart
      <3>4. QED
        BY <1>1, <2>2, <2>4, <2>5, <3>1, <3>3 DEF Crosses
    <2>6. QED
      BY <2>3, <2>5
  <1>5. ASSUME Stops(id) = {}, NEW d \in Nat, t = Moves(id, d)
        PROVE  /\ t \in SaneTrain
               /\ \A s \in DOMAIN Station : ShouldStop(id, s) => ~Crosses(old.km, t.km, Station[s])
    <2> DEFINE speed == NextSpeed(id)
               to == old.km + speed * old.direction
    <2>1. speed \in 0..Top
      BY NextSpeedIsSane
    <2> HIDE DEF speed
    <2>2. (old.direction = 1 /\ to = old.km + speed) \/ (old.direction = -1 /\ to = old.km - speed)
      BY <1>1, <2>1
    <2>3. /\ to >= 72 * Km => t.km = 72 * Km
          /\ to <= 0 /\ ~(to >= 72 * Km) => t.km = 0
          /\ ~(to <= 0) /\ ~(to >= 72 * Km) => t.km = to
          /\ t \in [km : {72 * Km, 0, to}, direction : {1, -1}, speed : 0..Top, delay : Nat,
                    at : DOMAIN Station \cup {Nowhere}, dwell : Int]
      <3> DEFINE moved == [old EXCEPT !.speed = speed, !.delay = old.delay + d]
      <3>1. moved \in SaneTrain
        <4>1. old.delay + d \in Nat
          BY <1>1
        <4>2. QED
          BY <1>1, <2>1, <4>1, SaneChanges
      <3>2. t = CASE to >= 72 * Km -> [moved EXCEPT !.km = 72 * Km, !.direction = -1]
                  [] to <= 0 -> [moved EXCEPT !.km = 0, !.direction = 1]
                  [] OTHER -> [moved EXCEPT !.km = to]
        BY <1>5 DEF Moves, speed
      <3> HIDE DEF moved, to
      <3>3. ~(to >= 72 * Km /\ to <= 0)
        BY <1>1, <2>1, <2>2 DEF to, Half
      <3>4. CASE to >= 72 * Km
        <4>1. t = [moved EXCEPT !.km = 72 * Km, !.direction = -1]
          BY <3>2, <3>3, <3>4
        <4>2. QED
          BY <3>1, <3>3, <3>4, <4>1 DEF SaneTrain
      <3>5. CASE to <= 0
        <4>1. t = [moved EXCEPT !.km = 0, !.direction = 1]
          BY <3>2, <3>3, <3>5
        <4>2. QED
          BY <3>1, <3>3, <3>5, <4>1 DEF SaneTrain
      <3>6. CASE ~(to >= 72 * Km) /\ ~(to <= 0)
        <4>1. t = [moved EXCEPT !.km = to]
          BY <3>2, <3>6
        <4>2. QED
          BY <3>1, <3>6, <4>1 DEF SaneTrain
      <3>7. QED
        BY <3>4, <3>5, <3>6
    <2> HIDE DEF to
    <2>4. to \in Int
      BY <1>1, <2>1, <2>2
    <2>5. t.km \in 0..72 * Km /\ t \in SaneTrain
      BY <1>1, <2>3, <2>4 DEF SaneTrain
    <2>6. ASSUME NEW s \in DOMAIN Station, ShouldStop(id, s), Crosses(old.km, t.km, Station[s]) PROVE FALSE
      <3>1. Station[s] \in 0..72 * Km
        BY <1>2
      <3>2. ~(/\ 0 < (Station[s] - old.km) * old.direction
              /\ (Station[s] - old.km) * old.direction < Half)
        BY <1>5, <2>6 DEF Stops, Arriving, Half
      <3>3. CASE old.direction = 1 /\ to = old.km + speed
        <4>1. ~(0 < Station[s] - old.km /\ Station[s] - old.km < Half)
          BY <1>1, <3>1, <3>2, <3>3
        <4>2. old.km <= t.km /\ t.km <= to
          BY <1>1, <2>1, <2>3, <2>4, <3>3
        <4>3. QED
          BY <1>1, <2>1, <2>4, <2>5, <2>6, <3>1, <3>3, <4>1, <4>2 DEF Crosses
      <3>4. CASE old.direction = -1 /\ to = old.km - speed
        <4>1. ~(0 < old.km - Station[s] /\ old.km - Station[s] < Half)
          BY <1>1, <3>1, <3>2, <3>4
        <4>2. to <= t.km /\ t.km <= old.km
          BY <1>1, <2>1, <2>3, <2>4, <3>4
        <4>3. QED
          BY <1>1, <2>1, <2>4, <2>5, <2>6, <3>1, <3>4, <4>1, <4>2 DEF Crosses
      <3>5. QED
        BY <2>2, <3>3, <3>4
    <2>7. QED
      BY <2>5, <2>6
  <1>6. CASE old.dwell > 0
    BY <1>3, <1>6 DEF Ticked
  <1>7. CASE ~(old.dwell > 0) /\ Stops(id) # {}
    <2>1. \E r \in Stops(id), n \in DwellTicks : t = Arrives(old, r, n)
      BY <1>7 DEF Ticked
    <2>2. QED
      BY <1>4, <2>1
  <1>8. CASE ~(old.dwell > 0) /\ Stops(id) = {}
    <2>1. \E d \in {0} \cup {j \in DelayJump : old.delay + j <= MaxDelay} : t = Moves(id, d)
      BY <1>8 DEF Ticked
    <2>4. \A j \in DelayJump : j \in Nat
      OBVIOUS
    <2>2. \E d \in Nat : t = Moves(id, d)
      <3>1. PICK d \in {0} \cup {j \in DelayJump : old.delay + j <= MaxDelay} : t = Moves(id, d)
        BY <2>1
      <3>2. d \in Nat
        BY <2>4
      <3>3. QED
        BY <3>1, <3>2
    <2>3. QED
      BY <1>5, <1>8, <2>2
  <1>9. QED
    BY <1>6, <1>7, <1>8

(* A train never passes a station it serves: tick looks half a kilometre   *)
(* ahead, and no train is that fast (SimulatedTrain.tick, _should_stop).   *)
THEOREM StationsAreServed == CorridorSpec => StopsAreMade
PROOF
  <1> USE CorridorAssumption
  <1>1. CorridorInit => CorridorInv
    <2> SUFFICES ASSUME CorridorInit PROVE CorridorInv
      OBVIOUS
    <2>1. PICK fleet \in Fleets : trains = [id \in fleet |-> Fresh(id)]
      BY DEF CorridorInit
    <2>2. ASSUME NEW id \in Id PROVE Fresh(id) \in SaneTrain
      <3>1. (Roster[id].maxSpeed * 7) \div 10 \in 0..Top
        <4>1. \A v \in 0..Top : (v * 7) \div 10 \in 0..Top
          BY SMT DEF Top, Kmh
        <4>2. QED
          BY <4>1, RosterIsSane
      <3>2. QED
        BY <3>1, RosterIsSane DEF Fresh, SaneTrain
    <2>3. QED
      BY <2>1, <2>2 DEF CorridorInv
  <1>2. ASSUME CorridorInv, Tick
        PROVE  /\ DOMAIN trains' = DOMAIN trains
               /\ \A id \in DOMAIN trains : id \in Id /\ trains[id] \in SaneTrain /\ trains'[id] \in Ticked(id)
               /\ trains' \in [DOMAIN trains -> UNION {Ticked(id) : id \in DOMAIN trains}]
    BY <1>2 DEF CorridorInv, Tick
  <1>3. CorridorInv /\ [Tick]_corridorVars => CorridorInv'
    <2> SUFFICES ASSUME CorridorInv, [Tick]_corridorVars PROVE CorridorInv'
      OBVIOUS
    <2>1. CASE Tick
      <3>1. \A id \in DOMAIN trains : trains'[id] \in SaneTrain
        BY <1>2, <2>1, TickedIsSane
      <3>2. trains' \in [DOMAIN trains' -> SaneTrain]
        BY <1>2, <2>1, <3>1
      <3>3. QED
        BY <1>2, <2>1, <3>2 DEF CorridorInv
    <2>2. CASE UNCHANGED corridorVars
      BY <2>2 DEF CorridorInv, corridorVars
    <2>3. QED
      BY <2>1, <2>2
  <1>4. CorridorInv /\ [Tick]_corridorVars =>
          [\A id \in DOMAIN trains, s \in DOMAIN Station :
             ShouldStop(id, s) =>
               ~ \/ trains[id].km < Station[s] /\ Station[s] < trains'[id].km
                 \/ trains'[id].km < Station[s] /\ Station[s] < trains[id].km]_corridorVars
    <2> SUFFICES ASSUME CorridorInv, Tick, NEW id \in DOMAIN trains, NEW s \in DOMAIN Station, ShouldStop(id, s)
                 PROVE  ~Crosses(trains[id].km, trains'[id].km, Station[s])
      BY DEF Crosses
    <2>1. QED
      BY <1>2, TickedIsSane
  <1>5. QED
    BY <1>1, <1>3, <1>4, PTL DEF CorridorSpec, StopsAreMade

=============================================================================
