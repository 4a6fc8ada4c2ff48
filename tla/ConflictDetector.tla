-------------------------- MODULE ConflictDetector --------------------------
(***************************************************************************)
(* The state store of the digital twin with its conflict detector          *)
(* (services/digital_twin/backend/state_store.py): a position is checked   *)
(* against the occupants of its segment, under the detector's lock, and    *)
(* then written to the state, under the store's lock.  The consumer calls  *)
(* process_event for one event at a time; other threads may call           *)
(* clear_train between the two steps.                                      *)
(***************************************************************************)
EXTENDS Integers, FiniteSets

CONSTANTS
  TwinTrain,   \* trains of the twin
  Segment,
  NoSegment,   \* an event without segment_id, and a train not seen yet
  Capacity,    \* max_concurrent_trains by segment
  Cleared      \* trains for which clear_train is called

ASSUME DetectorAssumption ==
  /\ NoSegment \notin Segment /\ Cleared \subseteq TwinTrain
  /\ IsFiniteSet(TwinTrain) /\ Capacity \in [Segment -> Nat]

VARIABLES
  occupants,  \* _segment_occupants
  position,   \* segment_id of the trains in _state
  accepted    \* the position that was accepted and is not written yet

twinVars == <<occupants, position, accepted>>

Idle == <<>>
Place == Segment \cup {NoSegment}

TwinTypeOK ==
  /\ occupants \in [Segment -> SUBSET TwinTrain]
  /\ position \in [TwinTrain -> Place]
  /\ accepted \in (TwinTrain \X Place) \cup {Idle}

TwinInit ==
  /\ occupants = [s \in Segment |-> {}]
  /\ position = [t \in TwinTrain |-> NoSegment]
  /\ accepted = Idle

MayEnter_full(t, s) == Cardinality(occupants[s]) <= Capacity[s] \/ t \in occupants[s]

(* The test of validate_update.                                            *)
MayEnter(t, s) == Cardinality(occupants[s]) < Capacity[s] \/ t \in occupants[s]

(* The occupants after an accepted update; a train stays an occupant of    *)
(* the segments it was in.                                                 *)
Entered(t, s) == [occupants EXCEPT ![s] = @ \cup {t}]

(* validate_update; a rejected update is logged and dropped.               *)
Validate(t, s) ==
  /\ accepted = Idle
  /\ MayEnter(t, s)
  /\ occupants' = Entered(t, s)
  /\ accepted' = <<t, s>>
  /\ UNCHANGED position

(* An event without a segment is not validated.                            *)
Unlocated(t) ==
  /\ accepted = Idle
  /\ accepted' = <<t, NoSegment>>
  /\ UNCHANGED <<occupants, position>>

WritePosition ==
  /\ accepted # Idle
  /\ position' = [position EXCEPT ![accepted[1]] = accepted[2]]
  /\ accepted' = Idle
  /\ UNCHANGED occupants

(* clear_train                                                             *)
ClearTrain(t) ==
  /\ t \in Cleared
  /\ occupants' = [s \in Segment |-> occupants[s] \ {t}]
  /\ UNCHANGED <<position, accepted>>

TwinNext ==
  \/ \E t \in TwinTrain, s \in Segment : Validate(t, s)
  \/ \E t \in TwinTrain : Unlocated(t) \/ ClearTrain(t)
  \/ WritePosition

TwinSpec == TwinInit /\ [][TwinNext]_twinVars

-----------------------------------------------------------------------------
At(s) == {t \in TwinTrain : position[t] = s}

(* The state never shows more trains in a segment than it holds, among the *)
(* trains nobody clears, whatever order their positions arrive in.         *)
WithinCapacity == \A s \in Segment : Cardinality(At(s) \ Cleared) <= Capacity[s]

(* state_store.py: "Rejects if segment at capacity".  Only trains that are *)
(* in a segment, or about to be written there, keep others out.            *)
OccupantsAreThere ==
  \A s \in Segment : \A t \in occupants[s] :
    position[t] = s \/ accepted = <<t, s>>
=============================================================================
