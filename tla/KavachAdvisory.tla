--------------------------- MODULE KavachAdvisory ---------------------------
(***************************************************************************)
(* The Kavach++ advisory (kavach_advisory.py): for a train at some speed   *)
(* the stopping distance is integrated in steps of 0.1 s, first while the  *)
(* brake pipe fills, then under full brakes, and is never given shorter    *)
(* than the certified distance.  The computation is kept in integers:      *)
(* speeds in mm/s, decelerations in mm/s^2, distances in mm, times in      *)
(* tenths of a second, adhesion in 1/10000, vibration in tenths.  The two  *)
(* exponentials (adhesion over speed, fade over time) only enter through   *)
(* their ends: a computation takes either end of each.                     *)
(***************************************************************************)
EXTENDS Integers

CONSTANTS Train,            \* records: see TrainConfig below
          Speed,            \* mm/s
          Vibration,        \* tenths of mm/s; NoVibration if the sensor is absent
          Humidity,         \* per cent
          AmbientTemp,      \* degrees
          Gradient,         \* per mille, uphill positive
          MaxBrakingTime    \* 300 s

NoVibration == -1
NoAdvisory == [left |-> -1]

(* TrainConfig: the fields the computation reads; aero is the drag of the  *)
(* front at 1 m/s and davisC the quadratic term, both by mass, in 10^-5.   *)
TrainConfig == [brakeWeight : Nat, aero : Nat, davisC : Nat, inertia : Nat,
                reaction : Nat, propagation : Nat]

ASSUME KavachAssumption ==
  /\ Train \subseteq TrainConfig /\ \A train \in Train : train.inertia > 0
  /\ Speed \subseteq Nat /\ Vibration \subseteq Nat \cup {NoVibration} /\ Humidity \subseteq Nat
  /\ AmbientTemp \subseteq Int /\ Gradient \subseteq Int /\ MaxBrakingTime \in Nat

VARIABLES kavachAt,    \* "idle", "propagate", "brake" or "answer"
          request,     \* what was asked, and the adhesion estimated for it
          speed,       \* of the integration
          braked,      \* time in the current phase
          distance,
          advisory,    \* the last answer: NoAdvisory, or its distance, what it answers, and
                       \* the speed at which the integration ended
          kafkaReady   \* _kafka_producer exists

kavachVars == <<kavachAt, request, speed, braked, distance, advisory, kafkaReady>>

KavachInit ==
  /\ kavachAt = "idle" /\ request = [speed |-> 0] /\ speed = 0 /\ braked = 0 /\ distance = 0
  /\ advisory = NoAdvisory /\ kafkaReady = FALSE

KavachTypeOK ==
  /\ kavachAt \in {"idle", "propagate", "brake", "answer"}
  /\ {speed, braked, distance} \subseteq Nat /\ kafkaReady \in BOOLEAN

Least(a, b) == IF a < b THEN a ELSE b
Most(a, b) == IF a < b THEN b ELSE a

---------------------------------------------------------------------------
(* Physics                                                                 *)

(* estimate_adhesion and polach_adhesion: the rail by vibration and        *)
(* humidity, the loss at speed (between none and ks), the loss by          *)
(* vibration, and the clamp.                                               *)
Rail(vibration, humidity) ==
  CASE vibration > 40 -> [mu |-> 800, ks |-> 40]
    [] vibration > 30 /\ vibration <= 40 -> [mu |-> 1200, ks |-> 30]
    [] vibration <= 30 /\ (vibration > 20 \/ humidity > 85) -> [mu |-> 1800, ks |-> 25]
    [] vibration <= 20 /\ humidity > 70 /\ humidity <= 85 -> [mu |-> 2500, ks |-> 20]
    [] vibration <= 20 /\ humidity <= 70 -> [mu |-> 3500, ks |-> 15]

Adhesions(vibration, humidity) ==
  LET rail == Rail(vibration, humidity)
      penalty == Most(0, 1000 - 3 * Most(0, vibration - 10))
  IN {Most(200, Least(4000, (((rail.mu * (100 - loss)) \div 100) * penalty) \div 1000)) :
        loss \in {0, rail.ks}}

(* brake_fade_factor, in per cent: no fade, or all of it.                  *)
Fades(temp) == {100, Most(50, 100 - (15 * (1000 + 5 * Most(0, temp - 30))) \div 1000)}

(* davis_resistance_N_per_tonne                                            *)
Davis(v, train) ==
  LET kmh == (v * 36) \div 10000
  IN (150000 + 750 * kmh + train.davisC * kmh * kmh) \div 100000

(* aerodynamic_drag_force_N by mass, in still air                          *)
AerodynamicDrag(v, train) == ((v \div 1000) * (v \div 1000) * train.aero) \div 100000

(* _instantaneous_deceleration on straight track, capped by the adhesion.  *)
Deceleration(v, mu, gradient, train) ==
  LET grip == (mu * 981) \div 1000
      force == (grip * train.brakeWeight) \div 100 + AerodynamicDrag(v, train)
                 + Davis(v, train) + (981 * gradient) \div 100
  IN Least((force * 100) \div train.inertia, grip)

(* kavach_certified_stopping_distance                                      *)
Certified(v) == 3 * v + (63 * v) \div 10 + ((v \div 100) * (v \div 100) * 947) \div 100

---------------------------------------------------------------------------
(* compute_braking_distance                                                *)

(* The request without vibration is answered as unavailable; a train that  *)
(* stands needs no distance.                                               *)
Ask ==
  /\ kavachAt = "idle"
  /\ \E v \in Speed, train \in Train, vibration \in Vibration, humidity \in Humidity :
       IF vibration = NoVibration
       THEN UNCHANGED <<kavachAt, request, speed, braked, distance>>
       ELSE \E mu \in Adhesions(vibration, humidity), gradient \in Gradient, temp \in AmbientTemp :
              \E fade \in Fades(temp) :
                /\ request' = [speed |-> v, train |-> train, mu |-> mu,
                               fade |-> fade, gradient |-> gradient]
                /\ speed' = v /\ braked' = 0
                /\ distance' = (v * train.reaction) \div 10
                /\ kavachAt' = IF v <= 0 THEN "answer" ELSE "propagate"
  /\ advisory' = NoAdvisory
  /\ UNCHANGED kafkaReady

(* One step of 0.1 s.                                                      *)
Slowed(a) == Most(0, speed - a \div 10)

Propagate ==
  /\ kavachAt = "propagate"
  /\ IF braked < request.train.propagation /\ speed > 0
     THEN LET ramped == (request.mu * braked) \div Most(request.train.propagation, 1)
          IN /\ speed' = Slowed(Deceleration(speed, ramped, request.gradient, request.train))
             /\ distance' = distance + speed' \div 10
             /\ braked' = braked + 1
             /\ UNCHANGED kavachAt
     ELSE kavachAt' = "brake" /\ braked' = 0 /\ UNCHANGED <<speed, distance>>
  /\ UNCHANGED <<request, advisory, kafkaReady>>

Stands == speed <= 10
TimeIsUp_seconds == braked > MaxBrakingTime
TimeIsUp == braked > MaxBrakingTime * 10

(* The fade, and below 5 m/s a little more adhesion.                       *)
EffectiveMu ==
  LET faded == (request.mu * request.fade) \div 100
  IN IF speed < 5000 THEN faded + (faded * (5000 - speed)) \div 100000 ELSE faded

Brake ==
  /\ kavachAt = "brake"
  /\ IF Stands \/ TimeIsUp THEN kavachAt' = "answer" /\ UNCHANGED <<speed, distance, braked>>
     ELSE /\ speed' = Slowed(Deceleration(speed, EffectiveMu, request.gradient, request.train))
          /\ distance' = distance + speed' \div 10
          /\ braked' = braked + 1
          /\ UNCHANGED kavachAt
  /\ UNCHANGED <<request, advisory, kafkaReady>>

(* compute_advisory from the distance on; the advisory is published if a   *)
(* producer exists or can be created, and answered in any case.            *)
Answer ==
  /\ kavachAt = "answer" /\ kavachAt' = "idle"
  /\ advisory' = [asked |-> request, left |-> speed,
                  total |-> Most(distance, Certified(request.speed)),
                  clamped |-> distance < Certified(request.speed)]
  /\ kafkaReady' \in {kafkaReady, TRUE}
  /\ request' = [speed |-> 0] /\ speed' = 0 /\ braked' = 0 /\ distance' = 0

KavachNext == Ask \/ Propagate \/ Brake \/ Answer

KavachSpec == KavachInit /\ [][KavachNext]_kavachVars

---------------------------------------------------------------------------
(* What the brakes alone take off in a step, on a rail of adhesion mu and  *)
(* with fade; drag, resistance and a rising track add to it.               *)
Braking(mu, config) ==
  LET grip == (mu * 981) \div 1000
  IN Least((((grip * config.brakeWeight) \div 100) * 100) \div config.inertia, grip)

Rate(mu, fade, config) == Braking((mu * fade) \div 100, config) \div 10

(* The brakes can bring the train to a stand before the cap: they take off *)
(* its speed, and the track does not work against them.                    *)
Suffices(asked) ==
  /\ asked.gradient >= 0
  /\ asked.speed <= Rate(asked.mu, asked.fade, asked.train) * (MaxBrakingTime * 10)

(* The cap of five minutes ends the integration of no train that its       *)
(* brakes can stop: where they suffice, the distance handed out is that of *)
(* a train that stands, after a ramp without full brakes, with drag that   *)
(* falls with the speed, and with any fade.                                *)
CapSparesGoodBrakes ==
  advisory # NoAdvisory /\ Suffices(advisory.asked) => advisory.left <= 10

(* kavach_advisory.py: "Return the advisory stopping distance".  It is one *)
(* on every rail.                                                          *)
AdvisoryIsAStop == advisory # NoAdvisory => advisory.left <= 10
=============================================================================
