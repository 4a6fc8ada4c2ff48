------------------------------ MODULE Corridor ------------------------------
(***************************************************************************)
(* The corridor simulation of the digital twin                             *)
(* (services/digital_twin/backend/websocket_server.py), in integers that   *)
(* are exact for its tick of 1.5 s: speeds in units of 0.01 km/h, places   *)
(* in units of 1/240000 km, so that a train moves by its speed in a tick.  *)
(* Trains act on nothing but signals, so a few at a time show them all.    *)
(***************************************************************************)
EXTENDS Integers, Sequences, FiniteSetsExt

CONSTANTS
  Fleets,       \* sets of the trains of Roster that run together
  DwellTicks,   \* ticks a stop of 20 to 60 s may last
  DelayJump,    \* minutes a disturbance adds
  MaxDelay      \* bound

Km == 240000
Kmh == 100

Station == [NDLS |-> 0, ANVT |-> 14 * Km, GZB |-> 27 * Km, MURN |-> 43 * Km,
            MODI |-> 54 * Km, MERT |-> 72 * Km]
Nowhere == "between stations"

(* Ends of the segments and their speeds, in the order they are searched.  *)
Segments == << <<0, 14, 80>>, <<14, 27, 110>>, <<27, 43, 130>>, <<43, 54, 130>>, <<54, 72, 130>> >>

SignalKm == {7, 14, 20, 27, 35, 43, 48, 54, 63, 72}

Runs(class, maxSpeed, km, direction) ==
  [class |-> class, maxSpeed |-> maxSpeed * Kmh, km |-> km * Km, direction |-> direction]

Id == {"T-12301", "T-12002", "T-22436", "T-12213", "T-12909", "T-12055"}

Roster == [id \in Id |->
  CASE id = "T-12301" -> Runs("Rajdhani", 130, 5, 1)
    [] id = "T-12002" -> Runs("Shatabdi", 130, 40, 1)
    [] id = "T-22436" -> Runs("Vande-Bharat", 160, 65, -1)
    [] id = "T-12213" -> Runs("Duronto", 120, 20, 1)
    [] id = "T-12909" -> Runs("Garib-Rath", 110, 55, -1)
    [] id = "T-12055" -> Runs("Jan-Shatabdi", 110, 30, 1)]

ASSUME CorridorAssumption ==
  /\ DwellTicks \subseteq 14 .. 40 /\ DelayJump \subseteq 1 .. 5 /\ MaxDelay \in Nat
  /\ Fleets \subseteq SUBSET Id

VARIABLES
  trains,  \* the fleet: place, direction, speed, delay, station, rest of the stop
  aspects  \* of the signals

corridorVars == <<trains, aspects>>

Fresh(id) ==
  [km |-> Roster[id].km, direction |-> Roster[id].direction,
   speed |-> (Roster[id].maxSpeed * 7) \div 10, delay |-> 0, at |-> Nowhere, dwell |-> 0]

CorridorInit ==
  /\ \E fleet \in Fleets : trains = [id \in fleet |-> Fresh(id)]
  /\ aspects = [s \in SignalKm |-> "green"]

Aspect == {"green", "yellow", "red"}

CorridorTypeOK ==
  /\ DOMAIN trains \in Fleets /\ aspects \in [SignalKm -> Aspect]
  /\ \A id \in DOMAIN trains :
       /\ trains[id].km \in 0 .. 72 * Km /\ trains[id].direction \in {1, -1}
       /\ trains[id].speed \in 0 .. Roster[id].maxSpeed
       /\ trains[id].at \in DOMAIN Station \cup {Nowhere} /\ trains[id].dwell \in 0 .. 40

(* _should_stop: the fast classes leave out three stations.                *)
ShouldStop(id, s) ==
  Roster[id].class \in {"Rajdhani", "Shatabdi", "Vande-Bharat"} => s \in {"NDLS", "GZB", "MERT"}

(* Less than half a kilometre ahead, and not where the train is already.   *)
Arriving_or_there(t, s) == LET ahead == (Station[s] - t.km) * t.direction IN 0 <= ahead /\ ahead < Km \div 2

Arriving(t, s) == LET ahead == (Station[s] - t.km) * t.direction IN 0 < ahead /\ ahead < Km \div 2

Stops(id) == {s \in DOMAIN Station : Arriving(trains[id], s) /\ ShouldStop(id, s)}

SegmentSpeed(km) ==
  LET on == {i \in DOMAIN Segments : Segments[i][1] * Km <= km /\ km <= Segments[i][2] * Km}
  IN (IF on = {} THEN 100 ELSE Segments[CHOOSE i \in on : \A j \in on : i <= j][3]) * Kmh

(* The train tends to its own or the segment's speed, within 5 km/h.       *)
NextSpeed(id) ==
  LET t == trains[id]
      target == Min({Roster[id].maxSpeed, SegmentSpeed(t.km)})
  IN CASE t.speed < target - 5 * Kmh -> Min({target, t.speed + 270})
       [] t.speed > target + 5 * Kmh -> IF t.speed > 432 THEN t.speed - 432 ELSE 0
       [] OTHER -> t.speed

Dwells(t) ==
  [t EXCEPT !.dwell = @ - 1, !.speed = 0, !.at = IF t.dwell = 1 THEN Nowhere ELSE @]

Arrives(t, s, ticks) == [t EXCEPT !.km = Station[s], !.speed = 0, !.at = s, !.dwell = ticks]

Moves(id, delay) ==
  LET speed == NextSpeed(id)
      to == trains[id].km + speed * trains[id].direction
      moved == [trains[id] EXCEPT !.speed = speed, !.delay = @ + delay]
  IN CASE to >= 72 * Km -> [moved EXCEPT !.km = 72 * Km, !.direction = -1]
       [] to <= 0 -> [moved EXCEPT !.km = 0, !.direction = 1]
       [] OTHER -> [moved EXCEPT !.km = to]

(* SimulatedTrain.tick: what one tick may make of a train.                 *)
Ticked(id) ==
  IF trains[id].dwell > 0 THEN {Dwells(trains[id])}
  ELSE IF Stops(id) # {} THEN {Arrives(trains[id], s, n) : s \in Stops(id), n \in DwellTicks}
  ELSE {Moves(id, d) : d \in {0} \cup {j \in DelayJump : trains[id].delay + j <= MaxDelay}}

(* _update_signals: red within 2 km of any train, else yellow within 5.    *)
AspectOf(s, fleet) ==
  LET Near(km) == \E id \in DOMAIN fleet :
        LET away == fleet[id].km - s * Km IN away < km * Km /\ -away < km * Km
  IN CASE Near(2) -> "red" [] ~Near(2) /\ Near(5) -> "yellow" [] OTHER -> "green"

(* CorridorSimulation.tick.                                                *)
Tick ==
  /\ trains' \in {f \in [DOMAIN trains -> UNION {Ticked(id) : id \in DOMAIN trains}] :
                    \A id \in DOMAIN trains : f[id] \in Ticked(id)}
  /\ aspects' = [s \in SignalKm |-> AspectOf(s, trains')]

(* _simulation_loop: nothing in a tick raises, so the task goes on.        *)
CorridorSpec == CorridorInit /\ [][Tick]_corridorVars /\ WF_corridorVars(Tick)

---------------------------------------------------------------------------
(* A train is never before a station it serves in one state and behind it  *)
(* in the next: it is not too fast for the distance in which tick looks    *)
(* for a stop.                                                             *)
StopsAreMade ==
  [][\A id \in DOMAIN trains, s \in DOMAIN Station :
       ShouldStop(id, s) =>
         ~ \/ trains[id].km < Station[s] /\ Station[s] < trains'[id].km
           \/ trains'[id].km < Station[s] /\ Station[s] < trains[id].km]_corridorVars

(* No train hangs, and none runs past a station it serves: each reaches    *)
(* both ends again and again, so it starts after every stop, although it   *)
(* then stands within the distance in which it would stop, and it turns    *)
(* round.                                                                  *)
TrainsKeepRunning ==
  /\ StopsAreMade
  /\ \A id \in UNION Fleets :
       /\ []<>(id \in DOMAIN trains => trains[id].at = "NDLS")
       /\ []<>(id \in DOMAIN trains => trains[id].at = "MERT")
=============================================================================
