------------------------------ MODULE HandOver ------------------------------
(***************************************************************************)
(* What the uploaders of an edge node promise for its events, without      *)
(* batches, attempts, threads or power losses: an accepted event waits     *)
(* until the pipeline has it.  Only a full store gives one up undelivered, *)
(* the oldest, and logs it.  EdgeNode and ReconnectUploader implement it.  *)
(***************************************************************************)
EXTENDS Integers, FiniteSets

CONSTANTS
  Event, Timestamp,  \* events and the time of each
  MaxRows,           \* how many may wait
  Rejected           \* events the pipeline never accepts

VARIABLES accepted, waiting, logged, delivered

vars == <<accepted, waiting, logged, delivered>>

Init == accepted = {} /\ waiting = {} /\ logged = {} /\ delivered = {}

(* A new event waits; if the store is full the oldest makes room.          *)
Accept(e) ==
  /\ e \notin accepted
  /\ accepted' = accepted \cup {e}
  /\ \/ /\ Cardinality(waiting) < MaxRows
        /\ waiting' = waiting \cup {e}
        /\ UNCHANGED logged
     \/ /\ Cardinality(waiting) >= MaxRows
        /\ \E o \in waiting :
             /\ \A w \in waiting : Timestamp[o] <= Timestamp[w]
             /\ waiting' = (waiting \ {o}) \cup {e}
             /\ logged' = logged \cup {o}
  /\ UNCHANGED delivered

(* The pipeline takes an event, for the first time or again, and the event *)
(* may stop waiting.  It may have made room in the meantime.               *)
Deliver(e) ==
  /\ e \in accepted \ Rejected
  /\ delivered' = delivered \cup {e}
  /\ waiting' \in {waiting, waiting \ {e}}
  /\ UNCHANGED <<accepted, logged>>

Next == \E e \in Event : Accept(e) \/ Deliver(e)

Spec == Init /\ [][Next]_vars
=============================================================================
