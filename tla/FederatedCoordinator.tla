------------------------ MODULE FederatedCoordinator ------------------------
(***************************************************************************)
(* The federated learning coordinator of a zone                            *)
(* (services/edge_compute/zone_compute/federated_coordinator.py): rounds   *)
(* of gradient collection with drift rejection, a differential-privacy     *)
(* budget and partial aggregation.  Every call runs under one lock.        *)
(*                                                                         *)
(* Gradients are abstracted to the two facts the coordinator acts on:      *)
(* whether they count as drifted, and whether noise was added before they  *)
(* were stored.                                                            *)
(***************************************************************************)
EXTENDS Integers, Sequences, FiniteSets

CONSTANTS
  Station,
  Drifting,         \* stations whose gradients may look drifted
  MinParticipants,  \* min_participants
  MaxParticipants,  \* max_participants
  Budget,           \* dp_total_budget, in units of dp_epsilon_per_round
  NoRound,          \* _current_round is None
  MaxRounds         \* bound on the rounds of the model

ASSUME CoordinatorAssumption ==
  /\ IsFiniteSet(Station)
  /\ Drifting \subseteq Station
  /\ {MinParticipants, MaxParticipants} \subseteq Nat \ {0}
  /\ {Budget, MaxRounds} \subseteq Nat

VARIABLES
  round,    \* _current_round
  counter,  \* _round_counter
  spent,    \* _spent_budget
  version,  \* round number in _global_model_version, 0 for "1.0.0"
  history   \* _round_history, with "forced" on rounds ended by force_timeout

coordinatorVars == <<round, counter, spent, version, history>>

Treatment == {"noised", "raw"}

Round == [number : 1..MaxRounds, participants : SUBSET Station,
          updates : UNION {[S -> Treatment] : S \in SUBSET Station},
          excluded : SUBSET Station]

Ended == [round : Round, status : {"COMPLETED", "FAILED"}, forced : BOOLEAN]

ASSUME NoRoundIsNone == NoRound \notin Round

CoordinatorTypeOK ==
  /\ round \in Round \cup {NoRound}
  /\ counter \in 0..MaxRounds
  /\ spent \in 0..Budget
  /\ version \in 0..MaxRounds
  /\ history \in Seq(Ended)

CoordinatorInit ==
  /\ round = NoRound /\ counter = 0 /\ spent = 0 /\ version = 0
  /\ history = <<>>

-----------------------------------------------------------------------------
(* participants[:max_participants], for a list in any order.               *)
Eligible(P) ==
  {E \in SUBSET P :
     Cardinality(E) = IF Cardinality(P) < MaxParticipants THEN Cardinality(P) ELSE MaxParticipants}

NewRound_fromVersion(n, P) ==
  [number |-> version + 1, participants |-> P, updates |-> <<>>, excluded |-> {}]

NewRound(n, P) == [number |-> n, participants |-> P, updates |-> <<>>, excluded |-> {}]

(* The guard of start_round: a round in progress is not replaced.          *)
RoundIsOver == round = NoRound

(* start_round.  The counter moves before the number of participants is    *)
(* looked at, so a refused start uses up a number.                         *)
StartRound(P) ==
  /\ RoundIsOver /\ counter < MaxRounds
  /\ counter' = counter + 1
  /\ \E E \in Eligible(P) :
       round' = IF Cardinality(E) < MinParticipants THEN round ELSE NewRound(counter', E)
  /\ UNCHANGED <<spent, version, history>>

Enough_all(r) == DOMAIN r.updates = r.participants

(* partial_aggregation_threshold = 0.6                                     *)
Enough(r) == 10 * Cardinality(DOMAIN r.updates) >= 6 * Cardinality(r.participants)

(* _aggregate, for a round with at least one update.                       *)
Aggregate(r, forced) ==
  /\ version' = r.number
  /\ history' = Append(history, [round |-> r, status |-> "COMPLETED", forced |-> forced])
  /\ round' = NoRound

(* add_noise: with the budget used up the gradients stay as they are.      *)
Noise ==
  IF spent >= Budget
    THEN [treatment |-> "raw", spent |-> spent]
    ELSE [treatment |-> "noised", spent |-> spent + 1]

MayContribute_again(s) == round # NoRound /\ s \in round.participants

(* The first checks of submit_update.                                      *)
MayContribute(s) ==
  round # NoRound /\ s \in round.participants /\ s \notin DOMAIN round.updates

Added(updates, s, t) ==
  [x \in DOMAIN updates \cup {s} |-> IF x = s THEN t ELSE updates[x]]

(* submit_update with gradients that are accepted.                         *)
SubmitAccepted(s) ==
  /\ MayContribute(s)
  /\ LET r == [round EXCEPT !.updates = Added(@, s, Noise.treatment)] IN
       IF Enough(r) THEN Aggregate(r, FALSE) ELSE round' = r /\ UNCHANGED <<version, history>>
  /\ spent' = Noise.spent
  /\ UNCHANGED counter

(* check_drift, of gradients against the baseline of the aggregated ones.  *)
MayDrift(s) == s \in Drifting

(* submit_update with gradients that count as drifted.                     *)
SubmitDrifted(s) ==
  /\ MayContribute(s) /\ MayDrift(s)
  /\ round' = [round EXCEPT !.excluded = @ \cup {s}]
  /\ UNCHANGED <<counter, spent, version, history>>

(* force_timeout: aggregate what there is, or fail the round.              *)
ForceTimeout ==
  /\ round # NoRound
  /\ IF DOMAIN round.updates # {}
       THEN Aggregate(round, TRUE)
       ELSE /\ history' = Append(history, [round |-> round, status |-> "FAILED", forced |-> TRUE])
            /\ round' = NoRound
            /\ UNCHANGED version
  /\ UNCHANGED <<counter, spent>>

CoordinatorNext ==
  \/ \E P \in SUBSET Station : StartRound(P)
  \/ \E s \in Station : SubmitAccepted(s) \/ SubmitDrifted(s)
  \/ ForceTimeout

(* A station that does not drift trains and submits in every round it      *)
(* takes part in.  Nobody has to call start_round or force_timeout.        *)
CoordinatorSpec == CoordinatorInit /\ [][CoordinatorNext]_coordinatorVars /\ \A s \in Station \ Drifting : WF_coordinatorVars(SubmitAccepted(s))

-----------------------------------------------------------------------------
Noised(r) == {s \in DOMAIN r.updates : r.updates[s] = "noised"}

(* All rounds, those in the history and the one in progress.               *)
AllRounds ==
  {history[i].round : i \in 1..Len(history)} \cup (IF round = NoRound THEN {} ELSE {round})

(* The budget pays for every update that got noise and for nothing else,   *)
(* across rounds that complete, fail or are forced to an end.              *)
BudgetPaysForNoise ==
  spent = Cardinality(UNION {{<<r.number, s>> : s \in Noised(r)} : r \in AllRounds})

(* The deployed version is that of the last completed round; numbers are   *)
(* never reused, also after a start that was refused.                      *)
VersionIsLatest ==
  /\ \A i, j \in 1..Len(history) : i < j => history[i].round.number < history[j].round.number
  /\ \A i \in 1..Len(history) : history[i].status = "COMPLETED" => history[i].round.number <= version
  /\ round # NoRound => version < round.number

FewMayDrift ==
  IF round = NoRound
    THEN FALSE
    ELSE 10 * Cardinality(round.participants \cap Drifting) <= 4 * Cardinality(round.participants)

(* A round in which at most 40 % of the participants may drift ends by     *)
(* itself, and whatever way rounds end the budget and the version follow   *)
(* them.                                                                   *)
RoundEndsWithoutDrift ==
  /\ []BudgetPaysForNoise /\ []VersionIsLatest
  /\ FewMayDrift ~> (round = NoRound)

(* federated_coordinator.py: "Round lifecycle management with timeout +    *)
(* partial aggregation".  A round is not left in progress for ever.        *)
RoundEnds == (round # NoRound) ~> (round = NoRound)

(* federated_coordinator.py: "Stations clip gradients + add DP noise".     *)
(* With privacy enabled no raw gradients are stored.                       *)
UpdatesAreNoised == \A r \in AllRounds : Noised(r) = DOMAIN r.updates

(* federated_coordinator.py: "per-round epsilon tracking".  A round costs  *)
(* one epsilon.                                                            *)
OneEpsilonPerRound == spent <= counter

(* federated_coordinator.py: a drifted station is excluded from the round. *)
ExcludedStaysOut == \A r \in AllRounds : r.excluded \cap DOMAIN r.updates = {}
=============================================================================
