----------------------------- MODULE DelayGraph -----------------------------
(***************************************************************************)
(* The delay predictor of zone compute                                     *)
(* (services/edge_compute/zone_compute/hetgnn_predictor.py): the graph     *)
(* that is built of the trains and defects of a call, which nodes the      *)
(* embedding of a train hears of, and the risks that are told.  The        *)
(* weights, drawn once with a fixed seed, and the number decoded from an   *)
(* embedding are left out.  A delay ahead of a train is one at a higher    *)
(* kilometre, whichever way the train runs: the graph knows no direction.  *)
(***************************************************************************)
EXTENDS Integers, Sequences, SequencesExt, FiniteSets

CONSTANTS
  GraphTrain,   \* ids of trains, as a sequence: the order they are given in
  TrainPlace,   \* kilometres at which trains are
  DelayMin,     \* minutes
  DefectStart,  \* startKm of defects
  DefectLength, \* endKm - startKm
  MaxPredictions  \* bound: no call after this many predictions

ASSUME GraphAssumption ==
  /\ GraphTrain \in Seq(STRING) /\ IsInjective(GraphTrain) /\ TrainPlace \subseteq Nat /\ DelayMin \subseteq Nat
  /\ DefectStart \subseteq Nat /\ DefectLength \subseteq Nat

(* CORRIDOR_STATIONS and CORRIDOR_SEGMENTS, a segment by its ends.         *)
StationKm == {0, 14, 27, 43, 54, 72}
CorridorSegments == << <<0, 14>>, <<14, 27>>, <<27, 43>>, <<43, 54>>, <<54, 72>> >>
SegmentIndex == DOMAIN CorridorSegments

VARIABLES
  given,        \* trains of the last call: place and delay by id
  defects,      \* its defects
  edges,        \* typed edges of its graph that touch a train
  occupancy,    \* of segments
  defective,    \* segments with has_defect
  predictionCount,  \* _prediction_count
  predictions   \* by train: affected trains, risk and confidence in per cent, who is heard

graphVars == <<given, defects, edges, occupancy, defective, predictionCount, predictions>>

GraphInit ==
  /\ given = <<>> /\ defects = {} /\ edges = {}
  /\ occupancy = [s \in SegmentIndex |-> 0] /\ defective = {}
  /\ predictionCount = 0 /\ predictions = <<>>

GraphTypeOK ==
  /\ DOMAIN given \subseteq ToSet(GraphTrain) /\ DOMAIN predictions = DOMAIN given
  /\ occupancy \in [SegmentIndex -> 0 .. Len(GraphTrain)] /\ defective \subseteq SegmentIndex

Away(x, y) == IF x < y THEN y - x ELSE x - y

(* sorted(trains, key=km): stable, so trains of one place keep their order.*)
GivenAs(t) == CHOOSE i \in DOMAIN GraphTrain : GraphTrain[i] = t

ComesBefore(trains, t, u) ==
  \/ trains[t].km < trains[u].km
  \/ trains[t].km = trains[u].km /\ GivenAs(t) < GivenAs(u)

Rank(trains, t) == Cardinality({u \in DOMAIN trains : ComesBefore(trains, u, t)})

Sorted(trains) ==
  [n \in 1 .. Cardinality(DOMAIN trains) |->
     CHOOSE t \in DOMAIN trains : Rank(trains, t) = n - 1]

LiesOn(km, s) == CorridorSegments[s][1] <= km /\ km <= CorridorSegments[s][2]

(* A train runs on the first segment it is found on.                       *)
RunsOn_all(km) == {s \in SegmentIndex : LiesOn(km, s)}

RunsOn(km) == {s \in SegmentIndex : LiesOn(km, s) /\ \A r \in SegmentIndex : LiesOn(km, r) => s <= r}

(* min over the stations, the first of equals; only within 5 km.           *)
StopsAt(km) ==
  {k \in StationKm : /\ Away(k, km) < 5
                     /\ \A other \in StationKm : Away(k, km) <= Away(other, km)
                     /\ \A other \in StationKm : Away(k, km) = Away(other, km) => k <= other}

(* FOLLOWS goes from a train to its successor in the sorted list.          *)
Follows(trains) ==
  LET order == Sorted(trains)
      Headway(i) == trains[order[i]].km - trains[order[i - 1]].km
  IN {<<order[i - 1], order[i]>> : i \in {n \in 2 .. Len(order) : 0 < Headway(n) /\ Headway(n) < 10}}

Edges(trains) ==
  (UNION {{<<t, "runs_on", s>> : s \in RunsOn(trains[t].km)} : t \in DOMAIN trains})
  \cup (UNION {{<<t, "stops_at", k>> : k \in StopsAt(trains[t].km)} : t \in DOMAIN trains})
  \cup {<<f[1], "follows", f[2]>> : f \in Follows(trains)}

Occupancy(trains) ==
  [s \in SegmentIndex |-> Cardinality({t \in DOMAIN trains : s \in RunsOn(trains[t].km)})]

(* has_defect: segments in which a defect starts or ends.                  *)
Defective(ds) == {s \in SegmentIndex : \E d \in ds : LiesOn(d.start, s) \/ LiesOn(d.end, s)}

(* forward: a node's embedding is made of its own features and those of    *)
(* the sources of its edges.  Every layer starts from the features again   *)
(* and the layers have equal weights, so three layers hear what one hears. *)
Hears(t, es) == {t} \cup {e[1] : e \in {x \in es : x[2] = "follows" /\ x[3] = t}}

Predict(t, trains, es, bad) ==
  LET ahead == {e[3] : e \in {x \in es : x[2] = "follows" /\ x[1] = t}}
      behind == {e[1] : e \in {x \in es : x[2] = "follows" /\ x[3] = t}}
      delay == Min({trains[t].delay, 60})  \* delay_norm * 60
  IN [affected |-> ahead,
      risk |-> Min({100, 25 * (Cardinality(ahead) + Cardinality(behind)) + (delay * 100) \div 30}),
      confidence |-> 85 - 10 * Cardinality(bad),
      hears |-> Hears(t, es)]

(* predict: everything but the count is built anew in every call.          *)
PredictDelays ==
  /\ predictionCount < MaxPredictions
  /\ \E ids \in SUBSET ToSet(GraphTrain) \ {{}}, start \in DefectStart, length \in DefectLength :
       \E trains \in [ids -> [km : TrainPlace, delay : DelayMin]] :
         /\ given' = trains
         /\ defects' \in {{}, {[start |-> start, end |-> start + length]}}
         /\ edges' = Edges(trains)
         /\ occupancy' = Occupancy(trains)
         /\ defective' = Defective(defects')
         /\ predictions' = [t \in ids |-> Predict(t, trains, edges', defective')]
         /\ predictionCount' = predictionCount + Cardinality(ids)

GraphSpec == GraphInit /\ [][PredictDelays]_graphVars

---------------------------------------------------------------------------
(* The graph is the corridor of the call: a train is counted in one        *)
(* segment wherever it stands, also at a station between two; a train is   *)
(* said to affect another just when that one is ahead of it within 10 km   *)
(* with no third train in between; every segment a defect touches lowers   *)
(* the confidence, for defects that are shorter than a segment.            *)
GraphIsTheCorridor ==
  /\ \A s \in SegmentIndex :
       occupancy[s] = Cardinality({t \in DOMAIN given :
         \/ CorridorSegments[s][1] < given[t].km /\ given[t].km <= CorridorSegments[s][2]
         \/ s = 1 /\ given[t].km = 0})
  /\ \A t, u \in DOMAIN given :
       /\ u \in predictions[t].affected =>
            given[t].km < given[u].km /\ given[u].km - given[t].km < 10
       /\ given[t].km < given[u].km /\ given[u].km - given[t].km < 10
          /\ (\A v \in DOMAIN given \ {t, u} : given[v].km < given[t].km \/ given[u].km < given[v].km)
            => u \in predictions[t].affected
  /\ \A s \in SegmentIndex, d \in defects :
       CorridorSegments[s][1] <= d.end /\ d.start <= CorridorSegments[s][2] => s \in defective
=============================================================================
