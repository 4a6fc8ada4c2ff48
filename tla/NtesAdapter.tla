---------------------------- MODULE NtesAdapter ----------------------------
(***************************************************************************)
(* The NTES adapter (services/adapters/ntes/ntes_adapter.py): polls the    *)
(* list of train positions and publishes each record.  The sources of its  *)
(* router are the trains, one source for all records without a train       *)
(* number, and the interface itself.                                       *)
(***************************************************************************)
EXTENDS DeadLetterRouter, Sequences

CONSTANTS
  Train,    \* trains of the feed
  Unknown,  \* "ntes-unknown"
  Api       \* "ntes-api-response"

ASSUME NtesAssumption ==
  /\ Source = Train \cup {Unknown, Api}
  /\ Unknown \notin Train /\ Api \notin Train \cup {Unknown}

VARIABLES
  poll,       \* "idle", "running", or how the last poll ended: "done", "failed", "raised"
  records,    \* sources of the records still to handle
  published,  \* trains published by this poll
  excused     \* sources whose own record or message was unusable in this poll

ntesVars == <<routerVars, poll, records, published, excused>>

(* The source of a record; answers have at most one record of each.        *)
Feed == Train \cup {Unknown}
Answers ==
  {q \in UNION {[1..k -> Feed] : k \in 0..2} : \A i, j \in DOMAIN q : i # j => q[i] # q[j]}

NtesTypeOK ==
  /\ RouterTypeOK
  /\ poll \in {"idle", "running", "done", "failed", "raised"}
  /\ records \in Answers
  /\ published \subseteq Train /\ excused \subseteq Feed

NtesInit ==
  /\ RouterInit
  /\ poll = "idle" /\ records = <<>> /\ published = {} /\ excused = {}

(* The request fails.                                                      *)
PollFails ==
  /\ poll # "running" /\ poll' = "failed"
  /\ records' = <<>> /\ published' = {} /\ excused' = {} /\ sent' = {}
  /\ UNCHANGED <<failures, inARow>>

(* The answer is not JSON, or its root is not a list.                      *)
AnswerIsBad ==
  /\ poll # "running" /\ poll' = "failed"
  /\ RecordFailure(Api)
  /\ records' = <<>> /\ published' = {} /\ excused' = {}

(* The answer is a list; nothing resets the count of the interface.        *)
AnswerIsGood ==
  /\ poll # "running" /\ poll' = "running"
  /\ records' \in Answers /\ published' = {} /\ excused' = {}
  /\ NoReset({Api})

NextRecord == poll = "running" /\ records # <<>> /\ records' = Tail(records)

ResetAfterParse_none(t) == NoReset({t})

(* A record was parsed: the count of its train starts again.               *)
ResetAfterParse(t) == Reset(t, {t})

(* The record is good; a Kafka error is counted and the record dropped.    *)
RecordParses ==
  /\ NextRecord /\ Head(records) \in Train
  /\ ResetAfterParse(Head(records))
  /\ \/ published' = published \cup {Head(records)} /\ UNCHANGED excused
     \/ excused' = excused \cup {Head(records)} /\ UNCHANGED published
  /\ UNCHANGED poll

RecordIsBad ==
  /\ NextRecord
  /\ RecordFailure(Head(records))
  /\ excused' = excused \cup {Head(records)}
  /\ UNCHANGED <<poll, published>>

(* The record is no object: record.get raises, outside of the try block.   *)
RecordIsNoObject ==
  /\ poll = "running" /\ records # <<>>
  /\ poll' = "raised" /\ sent' = {}
  /\ excused' = excused \cup {Head(records)}
  /\ UNCHANGED <<failures, inARow, records, published>>

PollEnds ==
  /\ poll = "running" /\ records = <<>>
  /\ poll' = "done" /\ sent' = {}
  /\ UNCHANGED <<failures, inARow, records, published, excused>>

NtesNext ==
  \/ PollFails \/ AnswerIsBad \/ AnswerIsGood
  \/ RecordParses \/ RecordIsBad \/ RecordIsNoObject \/ PollEnds

NtesSpec == NtesInit /\ [][NtesNext]_ntesVars

-----------------------------------------------------------------------------
(* A train is reported exactly after Threshold unusable records of its own *)
(* in a row, however the records of the trains, the failures of the        *)
(* interface and polls that break off mix.                                 *)
ReportedAfterThree == \A t \in Feed : Earned(t) /\ Counted(t)

(* dead_letter.py: "Tracks consecutive parse failures", for the answers of *)
(* the interface.                                                          *)
ApiAlertsAreEarned == Earned(Api)

(* ntes_adapter.py: "publish all records".  A poll that got a list leaves  *)
(* no train out whose own record and message were good.                    *)
PollIsComplete ==
  poll \in {"done", "raised"} => \A i \in DOMAIN records : records[i] \in published \cup excused
=============================================================================
