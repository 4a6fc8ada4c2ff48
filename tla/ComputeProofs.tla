--------------------------- MODULE ComputeProofs ----------------------------
(***************************************************************************)
(* Proofs about the rescheduling engine, for any classes of trains, any    *)
(* number of them and every headway that is shorter than a train is on a   *)
(* line segment; about the federated coordinator of a zone, for any        *)
(* stations, budget and thresholds; about its resource manager, for any    *)
(* nodes, workloads and threads; and about the graph of its delay          *)
(* predictor, for any trains and places.                                   *)
(***************************************************************************)
EXTENDS Scheduler, DelayGraph, FederatedCoordinator, ResourceManager, SequenceTheorems, FiniteSetTheorems, TLAPS

(* The engine places a train, on a segment of a route that visits every    *)
(* segment once.                                                           *)
Placing == outcome = "placing" /\ train <= Len(order)

FreshInv == outcome = "none" => plan = {} /\ train = 1 /\ leg = 1 /\ shift = 0

RouteInv ==
  outcome = "placing" =>
    /\ Len(route) = 5
    /\ \A i, j \in 1..5 : i # j => route[i] # route[j]

(* The windows given away are those of the trains before the one that is   *)
(* placed, and of this one on other segments.                              *)
PlacedInv ==
  \A a \in plan :
    /\ a.train <= train
    /\ a.train = train => \E i \in 1..5 : i < leg /\ a.segment = route[i]

(* A train is on a line segment for longer than the headway, and passes a  *)
(* station at the minute its place in the order gives it.                  *)
DwellInv ==
  \A a \in plan :
    IF Length[a.segment] > 0 THEN a.exit - a.enter > Headway
    ELSE a.enter = base + (a.train - 1) * 4 /\ a.exit = a.enter + 2

(* No window is before the base time.                                      *)
BaseInv == \A a \in plan : base <= a.enter

(* So the trains of a station are never shifted.                           *)
StationInv == Placing /\ ~(Length[route[leg]] > 0) => shift = 0

(* The window of a train that was shifted keeps the headway to those       *)
(* before it, also while a later one is still in the way.                  *)
SpacedInv ==
  Placing /\ shift > 0 =>
    \A b \in Occupied : b.exit <= Window.enter => Window.enter - b.exit >= Headway

SchedulerInv ==
  /\ SchedulerTypeOK /\ FreshInv /\ RouteInv /\ PlacedInv /\ DwellInv /\ BaseInv
  /\ StationInv /\ SpacedInv /\ PlanIsConflictFree /\ ShiftedKeepsHeadway /\ RejectedPlansAreLong

-----------------------------------------------------------------------------
(* A route of five segments, none of them twice, whichever is blocked.     *)
LEMMA RouteIsSimple ==
  ASSUME NEW blocked \in Segment \cup {Unblocked}
  PROVE  /\ Route(blocked) \in Seq(Segment) /\ Len(Route(blocked)) = 5
         /\ \A i, j \in 1..5 : i # j => Route(blocked)[i] # Route(blocked)[j]
<1>1. /\ Route(blocked) \in [1..5 -> Segment]
      /\ \A i, j \in 1..5 : i # j => Route(blocked)[i] # Route(blocked)[j]
  BY DEF Route, Segment
<1>2. Route(blocked) \in Seq(Segment)
  BY <1>1, SeqDef
<1>3. Len(Route(blocked)) = 5
  <2>1. DOMAIN Route(blocked) = 1..5
    BY DEF Route
  <2>2. 1..5 = 1..Len(Route(blocked)) /\ Len(Route(blocked)) \in Nat
    BY <1>2, <2>1, LenProperties
  <2>3. /\ 5 \in 1..5 /\ 5 + 1 \notin 1..5
        /\ \A n \in Nat : 5 \in 1..n /\ 5 + 1 \notin 1..n => n = 5
    OBVIOUS
  <2>4. QED
    BY <2>2, <2>3
<1>4. QED
  BY <1>1, <1>2, <1>3

(* The list of a request is a sequence of at most MaxTrains classes.       *)
LEMMA OrderType ==
  ASSUME NEW o \in Orders
  PROVE  o \in Seq(Class) /\ Len(o) <= MaxTrains
<1>1. PICK n \in 1..MaxTrains : o \in [1..n -> Class]
  BY DEF Orders
<1>2. QED
  BY <1>1, DataAssumption

(* The window the loop looks at is a window of natural numbers.            *)
LEMMA WindowType ==
  ASSUME SchedulerTypeOK, RouteInv, Placing
  PROVE  /\ order[train] \in Class /\ route[leg] \in Segment
         /\ Transit(route[leg], order[train]) \in Nat
         /\ Entry \in Nat
         /\ Window.enter = Entry
         /\ Window.exit = Entry + Transit(route[leg], order[train])
<1>1. order[train] \in Class /\ route[leg] \in Segment
  <2>1. train \in 1..Len(order) /\ leg \in 1..Len(route)
    <3>1. Len(order) \in Nat /\ MaxTrains \in Nat
      BY DataAssumption, LenProperties DEF SchedulerTypeOK
    <3>2. train \in 1..(MaxTrains + 1) /\ train <= Len(order) /\ leg \in 1..5 /\ Len(route) = 5
      BY DEF SchedulerTypeOK, RouteInv, Placing
    <3>3. QED
      BY <3>1, <3>2
  <2>2. QED
    BY <2>1, ElementOfSeq DEF SchedulerTypeOK
<1>2. Transit(route[leg], order[train]) \in Nat
  BY <1>1, DataAssumption
<1>3. (train - 1) * Larger(Headway, 3) \in Nat
  <2>1. train - 1 \in Nat /\ Larger(Headway, 3) \in Nat
    BY DataAssumption DEF SchedulerTypeOK, Larger
  <2>2. QED
    BY <2>1
<1>4. shift \in Nat /\ base \in Nat /\ ahead \in Nat /\ (train - 1) * 4 \in Nat
  BY DataAssumption DEF SchedulerTypeOK
<1>5. Entry \in Nat
  BY <1>3, <1>4 DEF Entry
<1>6. QED
  BY <1>1, <1>2, <1>5 DEF Window

(* A window on the segment of the train that is placed is of an earlier    *)
(* train.                                                                  *)
LEMMA OccupiedBefore ==
  ASSUME SchedulerTypeOK, RouteInv, PlacedInv, Placing, NEW a \in Occupied
  PROVE  a.train < train
<1>1. a \in plan /\ a.segment = route[leg] /\ a.train \in Nat /\ train \in Nat
  BY DEF Occupied, SchedulerTypeOK
<1>2. a.train # train
  <2>1. SUFFICES ASSUME a.train = train PROVE FALSE
    OBVIOUS
  <2>2. PICK i \in 1..5 : i < leg /\ a.segment = route[i]
    BY <1>1, <2>1 DEF PlacedInv
  <2>3. route[i] # route[leg]
    BY <2>2 DEF RouteInv, Placing, SchedulerTypeOK
  <2>4. QED
    BY <1>1, <2>2, <2>3
<1>3. QED
  BY <1>1, <1>2 DEF PlacedInv

-----------------------------------------------------------------------------
(* At the start nothing is placed.                                         *)
LEMMA InvInit == ASSUME SchedulerInit PROVE SchedulerInv
BY DataAssumption DEF SchedulerInit, SchedulerInv, SchedulerTypeOK, FreshInv, RouteInv, PlacedInv,
   DwellInv, BaseInv, StationInv, SpacedInv, Placing, PlanIsConflictFree, ShiftedKeepsHeadway,
   RejectedPlansAreLong

(* propose() starts with an empty plan.                                    *)
LEMMA InvPropose == ASSUME SchedulerInv, Propose PROVE SchedulerInv'
<1>1. PICK o \in Orders, blocked \in Segment \cup {Unblocked}, b \in BaseTime :
        order' = o /\ route' = Route(blocked) /\ base' = b
  BY DEF Propose
<1>2. /\ outcome' = "placing" /\ plan' = {} /\ train' = 1 /\ leg' = 1 /\ shift' = 0
      /\ ahead' = ahead
  BY DEF Propose, SchedulerInv, FreshInv
<1>3. SchedulerTypeOK'
  BY <1>1, <1>2, RouteIsSimple, OrderType, DataAssumption DEF SchedulerInv, SchedulerTypeOK
<1>4. RouteInv'
  BY <1>1, RouteIsSimple DEF RouteInv
<1>5. QED
  BY <1>2, <1>3, <1>4 DEF SchedulerInv, FreshInv, PlacedInv, DwellInv, BaseInv, StationInv, SpacedInv,
     PlanIsConflictFree, ShiftedKeepsHeadway, RejectedPlansAreLong

(* A window that is in the way is on a line segment.                       *)
LEMMA BlockedOnTheLine ==
  ASSUME SchedulerInv, Placing, NEW a \in Blocking
  PROVE  Length[route[leg]] > 0
<1>1. SUFFICES ASSUME ~(Length[route[leg]] > 0) PROVE FALSE
  OBVIOUS
<1>2. /\ a \in plan /\ a.segment = route[leg] /\ a.train < train
      /\ a.train \in Nat /\ a.enter \in Nat /\ a.exit \in Nat
  BY OccupiedBefore DEF Blocking, Occupied, SchedulerInv, SchedulerTypeOK
<1>3. a.exit = base + (a.train - 1) * 4 + 2
  BY <1>1, <1>2 DEF SchedulerInv, DwellInv
<1>4. Entry = base + (train - 1) * 4
  BY <1>1, DataAssumption DEF Entry, SchedulerInv, StationInv, SchedulerTypeOK
<1>5. Entry < a.exit
  BY WindowType DEF Blocking, Overlap, SchedulerInv
<1>6. base \in Nat /\ train \in Nat
  BY DataAssumption DEF SchedulerInv, SchedulerTypeOK
<1>7. QED
  BY <1>2, <1>3, <1>4, <1>5, <1>6

(* A turn of the shifting loop lands past the last window in the way, and  *)
(* no other window ends in between: it would overlap that one.             *)
LEMMA InvShift == ASSUME SchedulerInv, Shift PROVE SchedulerInv'
<1>0. Placing /\ SchedulerTypeOK /\ RouteInv /\ PlacedInv
  BY DEF Shift, Placing, SchedulerInv
<1>1. PICK last \in Blocking :
        /\ \A a \in Blocking : a.exit <= last.exit
        /\ shift' = shift + NewEntry(last) - Entry
  BY DEF Shift
<1>2. UNCHANGED <<order, route, base, train, leg, ahead, plan, outcome>>
  BY DEF Shift
<1>3. Length[route[leg]] > 0
  BY <1>0, <1>1, BlockedOnTheLine
<1>4. /\ Entry \in Nat /\ Window.enter = Entry /\ Window.exit \in Nat
  BY <1>0, WindowType
<1>5. /\ last \in plan /\ last.segment = route[leg]
      /\ last.enter \in Nat /\ last.exit \in Nat
      /\ Entry < last.exit /\ Window.exit > last.enter
      /\ last.exit - last.enter > Headway
  BY <1>1, <1>3, <1>4 DEF Blocking, Occupied, Overlap, SchedulerInv, SchedulerTypeOK, DwellInv
<1>6. shift \in Nat /\ Headway \in Nat
  BY <1>0, DataAssumption DEF SchedulerTypeOK
<1>7. shift' \in Nat /\ shift' > 0
  BY <1>1, <1>4, <1>5, <1>6 DEF NewEntry
<1>8. Window'.enter = last.exit + Headway
  <2>1. Entry' = Entry - shift + shift'
    <3> DEFINE rest == (train - 1) * Larger(Headway, 3) + ahead
    <3>1. Entry = shift + base + rest /\ Entry' = shift' + base + rest
      BY <1>2, <1>3 DEF Entry
    <3>2. rest \in Int /\ base \in Int
      BY <1>0, DataAssumption DEF SchedulerTypeOK, Larger
    <3>3. QED
      BY <3>1, <3>2, <1>6, <1>7
  <2>2. QED
    BY <1>1, <1>4, <1>5, <1>6, <2>1 DEF NewEntry, Window
<1>9. SpacedInv'
  <2>1. SUFFICES ASSUME NEW b \in Occupied, b.exit <= last.exit + Headway
                 PROVE  b.exit <= last.exit
    BY <1>2, <1>5, <1>6, <1>8 DEF SpacedInv, Occupied, SchedulerInv, SchedulerTypeOK
  <2>2. SUFFICES ASSUME b.exit > last.exit PROVE FALSE
    BY <1>5 DEF Occupied, SchedulerInv, SchedulerTypeOK
  <2>3. /\ b \in plan /\ b.segment = route[leg] /\ b.enter \in Nat /\ b.exit \in Nat
        /\ b.exit - b.enter > Headway
    BY <1>3 DEF Occupied, SchedulerInv, SchedulerTypeOK, DwellInv
  <2>4. b # last /\ b \notin Blocking
    BY <1>1, <1>5, <2>2, <2>3
  <2>5. b.enter >= last.exit \/ b.exit <= last.enter
    BY <1>5, <2>3, <2>4 DEF SchedulerInv, PlanIsConflictFree, Overlap
  <2>6. QED
    BY <1>5, <1>6, <2>1, <2>2, <2>3, <2>5
<1>10. SchedulerTypeOK'
  BY <1>0, <1>2, <1>7 DEF SchedulerTypeOK
<1>11. /\ FreshInv' /\ RouteInv' /\ PlacedInv' /\ DwellInv' /\ BaseInv'
       /\ PlanIsConflictFree' /\ ShiftedKeepsHeadway' /\ RejectedPlansAreLong'
  BY <1>0, <1>2 DEF SchedulerInv, FreshInv, Placing, RouteInv, PlacedInv, DwellInv, BaseInv,
     PlanIsConflictFree, ShiftedKeepsHeadway, RejectedPlansAreLong
<1>12. StationInv'
  BY <1>2, <1>3 DEF StationInv
<1>13. QED
  BY <1>9, <1>10, <1>11, <1>12 DEF SchedulerInv

(* A window that is given away is clear of the others of its segment, and  *)
(* it has the headway if it was shifted.                                   *)
LEMMA InvPlace == ASSUME SchedulerInv, Place PROVE SchedulerInv'
<1>0. Placing /\ SchedulerTypeOK /\ RouteInv /\ PlacedInv
  BY DEF Place, Placing, SchedulerInv
<1> DEFINE seg == route[leg]
           dwell == Transit(seg, order[train])
           placed(p) == [train |-> train, segment |-> seg, enter |-> Window.enter,
                        exit |-> Window.exit, platform |-> p, shifted |-> shift > 0]
<1>1. PICK p \in PlatformsFor(Window) : plan' = plan \cup {placed(p)}
  BY DEF Place
<1>2. /\ shift' = 0 /\ UNCHANGED <<order, route, base, outcome>>
      /\ \/ leg < 5 /\ leg' = leg + 1 /\ train' = train /\ ahead' = ahead + Travel(seg, order[train])
         \/ leg' = 1 /\ train' = train + 1 /\ ahead' = 0
  BY <1>0 DEF Place, RouteInv, Placing
<1>3. /\ order[train] \in Class /\ seg \in Segment /\ dwell \in Nat
      /\ Entry \in Nat /\ Window.enter = Entry /\ Window.exit = Entry + dwell
  BY <1>0, WindowType
<1>4. train \in Nat \ {0} /\ train <= MaxTrains /\ leg \in 1..5 /\ MaxTrains \in Nat /\ shift \in Nat
  BY <1>0, DataAssumption, LenProperties DEF SchedulerTypeOK, Placing
<1>5. \A a \in Occupied : ~Overlap(Window, a)
  BY DEF Place, Clear, Blocking
<1>6. SchedulerTypeOK'
  <2>1. p \in Nat
    <3>1. Platforms[seg] \in Nat
      BY <1>3 DEF Segment, Platforms
    <3>2. QED
      BY <1>1, <3>1 DEF PlatformsFor
  <2>2. placed(p) \in [train : Nat, segment : Segment, enter : Nat, exit : Nat, platform : Nat,
                      shifted : BOOLEAN]
    BY <1>3, <1>4, <2>1
  <2>3. ahead' \in Nat
    <3>1. Travel(seg, order[train]) \in Nat
      BY <1>3, DataAssumption
    <3>2. ahead \in Nat
      BY <1>0 DEF SchedulerTypeOK
    <3>3. QED
      BY <1>2, <3>1, <3>2
  <2>4. train' \in 1..(MaxTrains + 1) /\ leg' \in 1..5 /\ shift' \in Nat
    BY <1>2, <1>4
  <2>5. plan' \subseteq [train : Nat, segment : Segment, enter : Nat, exit : Nat, platform : Nat,
                         shifted : BOOLEAN]
    BY <1>0, <1>1, <2>2 DEF SchedulerTypeOK
  <2>6. QED
    BY <1>0, <1>2, <2>3, <2>4, <2>5 DEF SchedulerTypeOK
<1>7. FreshInv' /\ RouteInv' /\ StationInv' /\ SpacedInv' /\ RejectedPlansAreLong'
  BY <1>0, <1>2 DEF FreshInv, RouteInv, StationInv, SpacedInv, RejectedPlansAreLong, Placing
<1>8. PlacedInv'
  <2>1. \A a \in plan : a.train \in Nat /\ a.train <= train
    BY <1>0 DEF PlacedInv, SchedulerTypeOK
  <2>2. CASE leg' = leg + 1 /\ train' = train /\ leg < 5
    <3>1. \A a \in plan : a.train = train => \E i \in 1..5 : i < leg' /\ a.segment = route[i]
      BY <1>0, <1>4, <2>2 DEF PlacedInv
    <3>2. leg < leg' /\ seg = route[leg]
      BY <1>4, <2>2
    <3>3. QED
      BY <1>1, <1>2, <1>4, <2>1, <2>2, <3>1, <3>2 DEF PlacedInv
  <2>3. CASE train' = train + 1
    BY <1>1, <1>4, <2>1, <2>3 DEF PlacedInv
  <2>4. QED
    BY <1>2, <2>2, <2>3
<1>9. DwellInv'
  <2>1. IF Length[seg] > 0 THEN Window.exit - Window.enter > Headway
        ELSE Window.enter = base + (train - 1) * 4 /\ Window.exit = Window.enter + 2
    <3>1. CASE Length[seg] > 0
      BY <1>3, <3>1, HeadwayIsShort, DataAssumption
    <3>2. CASE ~(Length[seg] > 0)
      <4>1. shift = 0
        BY <1>0, <3>2 DEF SchedulerInv, StationInv
      <4>2. base \in Nat
        BY <1>0, DataAssumption DEF SchedulerTypeOK
      <4>3. Entry = base + (train - 1) * 4
        BY <1>4, <3>2, <4>1, <4>2 DEF Entry
      <4>4. dwell = 2
        BY <3>2 DEF Transit
      <4>5. QED
        BY <1>3, <3>2, <4>3, <4>4
    <3>3. QED
      BY <3>1, <3>2
  <2>2. QED
    BY <1>1, <1>2, <2>1 DEF SchedulerInv, DwellInv
<1>10. PlanIsConflictFree'
  <2>1. \A a \in plan : a.segment = seg => ~Overlap(placed(p), a) /\ ~Overlap(a, placed(p))
    BY <1>0, <1>3, <1>5 DEF Occupied, Overlap, SchedulerTypeOK
  <2>2. QED
    BY <1>1, <2>1 DEF SchedulerInv, PlanIsConflictFree
<1>11. ShiftedKeepsHeadway'
  <2>1. \A b \in plan : shift > 0 /\ b.segment = seg /\ b.exit <= Window.enter =>
                          Window.enter - b.exit >= Headway
    BY <1>0 DEF SchedulerInv, SpacedInv, Occupied
  <2>2. \A a \in plan : a.train \in Nat /\ a.train <= train
    BY <1>0 DEF PlacedInv, SchedulerTypeOK
  <2>3. SUFFICES ASSUME NEW a \in plan', NEW b \in plan',
                        a.segment = b.segment, a.shifted, b.train < a.train, b.exit <= a.enter
                 PROVE  a.enter - b.exit >= Headway
    BY DEF ShiftedKeepsHeadway
  <2>4. CASE a \in plan
    <3>1. b \in plan
      BY <1>1, <1>4, <2>2, <2>3, <2>4
    <3>2. QED
      BY <2>3, <2>4, <3>1 DEF SchedulerInv, ShiftedKeepsHeadway
  <2>5. CASE a = placed(p)
    <3>1. b \in plan /\ a.enter = Window.enter /\ b.segment = seg
      BY <1>1, <1>4, <2>3, <2>5
    <3>2. shift > 0
      BY <2>3, <2>5, Zenon
    <3>3. QED
      BY <2>1, <2>3, <3>1, <3>2
  <2>6. QED
    BY <1>1, <2>4, <2>5
<1>12. BaseInv'
  <2>1. base <= Entry
    <3> DEFINE rest == IF Length[seg] > 0 THEN (train - 1) * Larger(Headway, 3) + ahead
                       ELSE (train - 1) * 4
    <3>1. train - 1 \in Nat /\ Larger(Headway, 3) \in Nat /\ ahead \in Nat /\ base \in Nat
      BY <1>0, <1>4, DataAssumption DEF Larger, SchedulerTypeOK
    <3>2. (train - 1) * Larger(Headway, 3) \in Nat /\ (train - 1) * 4 \in Nat
      BY <3>1
    <3>3. rest \in Nat
      BY <3>1, <3>2
    <3>4. Entry = shift + base + rest
      BY DEF Entry
    <3>5. QED
      BY <1>4, <3>1, <3>3, <3>4
  <2>2. QED
    BY <1>1, <1>2, <1>3, <2>1 DEF SchedulerInv, BaseInv
<1>13. QED
  BY <1>6, <1>7, <1>8, <1>9, <1>10, <1>11, <1>12 DEF SchedulerInv

(* Times of day tell two windows of one day apart if the minutes do.       *)
LEMMA TimesOfDay ==
  \A t, a, b, c, d \in Nat :
    t <= a /\ a < b /\ b <= c /\ c < d /\ d < t + 1440 =>
      ~(Larger(TimeOfDay(a), TimeOfDay(c)) < Smaller(TimeOfDay(b), TimeOfDay(d)))
BY SMTT(60) DEF Larger, Smaller, TimeOfDay

(* The checker accepts every plan without conflicts that ends in a day.    *)
LEMMA InvCheck == ASSUME SchedulerInv, Check PROVE SchedulerInv'
<1>1. UNCHANGED <<order, route, base, train, leg, ahead, shift, plan>>
      /\ outcome' \in {"proposed", "infeasible"}
  BY DEF Check
<1>2. RejectedPlansAreLong'
  <2>1. SUFFICES ASSUME \A a \in plan : a.exit < base + 1440
                 PROVE  IsConflictFree
    BY <1>1, DataAssumption DEF Check, RejectedPlansAreLong, SchedulerInv, SchedulerTypeOK
  <2>2. SUFFICES ASSUME NEW a \in plan, NEW b \in plan, a # b, a.segment = b.segment
                 PROVE  ~(Larger(TimeOfDay(a.enter), TimeOfDay(b.enter))
                            < Smaller(TimeOfDay(a.exit), TimeOfDay(b.exit)))
    BY DEF IsConflictFree
  <2>3. /\ base \in Nat /\ base <= a.enter /\ base <= b.enter
        /\ a.enter \in Nat /\ a.exit \in Nat /\ b.enter \in Nat /\ b.exit \in Nat
        /\ a.exit < base + 1440 /\ b.exit < base + 1440
    BY <2>1, DataAssumption DEF SchedulerInv, SchedulerTypeOK, BaseInv
  <2>4. a.enter < a.exit /\ b.enter < b.exit
    BY <2>3, DataAssumption DEF SchedulerInv, DwellInv
  <2>5. a.exit <= b.enter \/ b.exit <= a.enter
    BY <2>2, <2>3 DEF SchedulerInv, PlanIsConflictFree, Overlap
  <2>6. CASE a.exit <= b.enter
    BY <2>3, <2>4, <2>6, TimesOfDay
  <2>7. CASE b.exit <= a.enter
    <3>1. ~(Larger(TimeOfDay(b.enter), TimeOfDay(a.enter))
              < Smaller(TimeOfDay(b.exit), TimeOfDay(a.exit)))
      BY <2>3, <2>4, <2>7, TimesOfDay
    <3>2. QED
      BY <2>3, <3>1 DEF Larger, Smaller, TimeOfDay
  <2>8. QED
    BY <2>5, <2>6, <2>7
<1>3. QED
  BY <1>1, <1>2 DEF Check, SchedulerInv, SchedulerTypeOK, FreshInv, RouteInv, PlacedInv, DwellInv,
     BaseInv, StationInv, SpacedInv, Placing, PlanIsConflictFree, ShiftedKeepsHeadway

LEMMA InvStutter == ASSUME SchedulerInv, UNCHANGED schedulerVars PROVE SchedulerInv'
BY DEF schedulerVars, SchedulerInv, SchedulerTypeOK, FreshInv, RouteInv, PlacedInv, DwellInv, BaseInv,
   StationInv, SpacedInv, Placing, Occupied, Window, Entry, PlanIsConflictFree, ShiftedKeepsHeadway,
   RejectedPlansAreLong

LEMMA InvHolds == SchedulerSpec => []SchedulerInv
<1>1. SchedulerInv /\ [SchedulerNext]_schedulerVars => SchedulerInv'
  BY InvPropose, InvShift, InvPlace, InvCheck, InvStutter DEF SchedulerNext, Engine
<1>2. QED
  BY <1>1, InvInit, PTL DEF SchedulerSpec

-----------------------------------------------------------------------------
(* The engine's variables keep their types, with any number of trains.     *)
THEOREM EngineIsTyped == SchedulerSpec => []SchedulerTypeOK
<1>1. SchedulerInv => SchedulerTypeOK
  BY DEF SchedulerInv
<1>2. QED
  BY <1>1, InvHolds, PTL

(* No plan has two trains on one segment at overlapping times.             *)
THEOREM PlansAreConflictFree == SchedulerSpec => []PlanIsConflictFree
<1>1. SchedulerInv => PlanIsConflictFree
  BY DEF SchedulerInv
<1>2. QED
  BY <1>1, InvHolds, PTL

(* A train that was shifted keeps the headway to all windows before its    *)
(* own.  It needs HeadwayIsShort: with a longer headway a train would fit  *)
(* into the gap that is kept free.                                         *)
THEOREM ShiftsKeepHeadway == SchedulerSpec => []ShiftedKeepsHeadway
<1>1. SchedulerInv => ShiftedKeepsHeadway
  BY DEF SchedulerInv
<1>2. QED
  BY <1>1, InvHolds, PTL

(* The checker rejects no plan of the engine that ends within a day.       *)
THEOREM ShortPlansAreAccepted == SchedulerSpec => []RejectedPlansAreLong
<1>1. SchedulerInv => RejectedPlansAreLong
  BY DEF SchedulerInv
<1>2. QED
  BY <1>1, InvHolds, PTL
-----------------------------------------------------------------------------
(* The federated coordinator.                                              *)
Past == {history[i].round : i \in 1..Len(history)}
PaidIn(r) == {<<r.number, s>> : s \in Noised(r)}
Paid == UNION {PaidIn(r) : r \in AllRounds}

(* The number of a round in progress is the last that was given out.       *)
NumbersInv ==
  /\ version <= counter
  /\ \A i \in 1..Len(history) : history[i].round.number <= counter
  /\ round # NoRound =>
       /\ round.number = counter /\ version < counter
       /\ \A i \in 1..Len(history) : history[i].round.number < counter

CoordinatorInv ==
  /\ CoordinatorTypeOK /\ NumbersInv /\ VersionIsLatest
  /\ IsFiniteSet(Paid) /\ spent = Cardinality(Paid)

LEMMA PastGrows ==
  ASSUME NEW h \in Seq(Ended), NEW e \in Ended
  PROVE  /\ Append(h, e) \in Seq(Ended) /\ Len(Append(h, e)) = Len(h) + 1 /\ Len(h) \in Nat
         /\ \A i \in 1..Len(h) : Append(h, e)[i] = h[i]
         /\ Append(h, e)[Len(h) + 1] = e
         /\ {Append(h, e)[i].round : i \in 1..Len(Append(h, e))}
              = {h[i].round : i \in 1..Len(h)} \cup {e.round}
PROOF
  <1>1. /\ Append(h, e) \in Seq(Ended) /\ Len(Append(h, e)) = Len(h) + 1 /\ Len(h) \in Nat
        /\ \A i \in 1..Len(h) : Append(h, e)[i] = h[i]
        /\ Append(h, e)[Len(h) + 1] = e
    OBVIOUS
  <1>2. 1..Len(h) + 1 = 1..Len(h) \cup {Len(h) + 1}
    BY <1>1
  <1>3. QED
    BY <1>1, <1>2

(* A round that ends passes into the history.                              *)
LEMMA RoundPasses ==
  ASSUME CoordinatorTypeOK, NEW r \in Round, NEW status \in {"COMPLETED", "FAILED"}, NEW forced \in BOOLEAN,
         history' = Append(history, [round |-> r, status |-> status, forced |-> forced]), round' = NoRound
  PROVE  /\ AllRounds' = Past \cup {r} /\ history' \in Seq(Ended)
         /\ Len(history') = Len(history) + 1 /\ Len(history) \in Nat
         /\ \A i \in 1..Len(history) : history'[i] = history[i]
         /\ history'[Len(history) + 1] = [round |-> r, status |-> status, forced |-> forced]
PROOF
  <1> DEFINE e == [round |-> r, status |-> status, forced |-> forced]
  <1>1. e \in Ended /\ e.round = r /\ history \in Seq(Ended)
    BY DEF Ended, CoordinatorTypeOK
  <1> HIDE DEF e
  <1>2. history' = Append(history, e)
    BY DEF e
  <1>3. /\ Append(history, e) \in Seq(Ended) /\ Len(Append(history, e)) = Len(history) + 1
        /\ Len(history) \in Nat /\ \A i \in 1..Len(history) : Append(history, e)[i] = history[i]
        /\ Append(history, e)[Len(history) + 1] = e
        /\ {Append(history, e)[i].round : i \in 1..Len(Append(history, e))} = Past \cup {e.round}
    BY <1>1, PastGrows DEF Past
  <1>4. AllRounds' = Past \cup {r}
    BY <1>1, <1>2, <1>3 DEF AllRounds
  <1>5. QED
    BY <1>2, <1>3, <1>4 DEF e

LEMMA NoRoundIsNoRound ==
  ASSUME CoordinatorTypeOK
  PROVE  AllRounds = IF round \in Round THEN Past \cup {round} ELSE Past
BY NoRoundIsNone DEF AllRounds, Past, CoordinatorTypeOK

(* A round without updates, or one that ends as it is, costs nothing.      *)
LEMMA StartCostsNothing ==
  ASSUME NEW n, NEW E
  PROVE  PaidIn(NewRound(n, E)) = {}
BY DEF PaidIn, NewRound, Noised

(* A round that ends and follows on no later one keeps the history in      *)
(* order.                                                                  *)
LEMMA OrderIsKept ==
  ASSUME CoordinatorInv, round # NoRound, NEW r \in Round, r.number = round.number,
         NEW status \in {"COMPLETED", "FAILED"}, NEW forced \in BOOLEAN,
         history' = Append(history, [round |-> r, status |-> status, forced |-> forced]),
         round' = NoRound, counter' = counter,
         version' = IF status = "COMPLETED" THEN r.number ELSE version
  PROVE  NumbersInv' /\ VersionIsLatest'
PROOF
  <1> USE DEF CoordinatorInv
  <1>1. /\ Len(history') = Len(history) + 1 /\ Len(history) \in Nat
        /\ \A i \in 1..Len(history) : history'[i] = history[i]
        /\ history'[Len(history) + 1] = [round |-> r, status |-> status, forced |-> forced]
    BY RoundPasses
  <1>2. /\ r.number = counter /\ version < counter /\ counter \in Nat /\ version \in Nat
        /\ \A i \in 1..Len(history) : history[i].round.number < counter /\ history[i].round.number \in Nat
    <2>1. \A i \in 1..Len(history) : history[i] \in Ended
      BY ElementOfSeq DEF CoordinatorTypeOK
    <2>2. \A i \in 1..Len(history) : history[i].round.number \in Nat
      BY <2>1 DEF Ended, Round
    <2>3. counter \in Nat /\ version \in Nat
      BY DEF CoordinatorTypeOK
    <2>4. QED
      BY <2>2, <2>3 DEF NumbersInv
  <1>3. \A i \in 1..Len(history) + 1 : i \in 1..Len(history) \/ i = Len(history) + 1
    BY <1>1
  <1>4. version' \in Nat /\ version <= version' /\ version' <= counter
    BY <1>2
  <1>5. NumbersInv'
    <2>1. ASSUME NEW i \in 1..Len(history) + 1 PROVE history'[i].round.number <= counter
      <3>1. CASE i \in 1..Len(history)
        BY <1>1, <1>2, <3>1
      <3>2. CASE i = Len(history) + 1
        BY <1>1, <1>2, <3>2
      <3>3. QED
        BY <1>3, <3>1, <3>2
    <2>2. QED
      BY <1>1, <1>4, <2>1 DEF NumbersInv
  <1>6. VersionIsLatest'
    <2>1. ASSUME NEW i \in 1..Len(history) + 1, NEW j \in 1..Len(history) + 1, i < j
          PROVE  history'[i].round.number < history'[j].round.number
      <3>1. i \in 1..Len(history)
        BY <1>1, <2>1
      <3>2. CASE j \in 1..Len(history)
        BY <1>1, <2>1, <3>1, <3>2 DEF VersionIsLatest
      <3>3. CASE j = Len(history) + 1
        BY <1>1, <1>2, <3>1, <3>3
      <3>4. QED
        BY <1>3, <3>2, <3>3
    <2>2. ASSUME NEW i \in 1..Len(history) + 1, history'[i].status = "COMPLETED"
          PROVE  history'[i].round.number <= version'
      <3>1. CASE i \in 1..Len(history)
        <4>1. history[i].round.number <= version
          BY <1>1, <2>2, <3>1 DEF VersionIsLatest
        <4>2. QED
          BY <1>1, <1>2, <1>4, <3>1, <4>1
      <3>2. CASE i = Len(history) + 1
        BY <1>1, <1>2, <2>2, <3>2
      <3>3. QED
        BY <1>3, <3>1, <3>2
    <2>3. QED
      BY <1>1, <2>1, <2>2 DEF VersionIsLatest
  <1>7. QED
    BY <1>5, <1>6

(* An accepted update is the only step that costs, and it costs one.       *)
LEMMA UpdateIsPaid ==
  ASSUME CoordinatorInv, NEW s \in Station, SubmitAccepted(s)
  PROVE  CoordinatorInv'
PROOF
  <1> USE DEF CoordinatorInv
  <1> DEFINE r == [round EXCEPT !.updates = Added(@, s, Noise.treatment)]
  <1>1. /\ round # NoRound /\ round \in Round /\ s \in round.participants
        /\ s \notin DOMAIN round.updates
    BY DEF SubmitAccepted, MayContribute, CoordinatorTypeOK
  <1>2. Noise.treatment \in Treatment /\ spent' = Noise.spent /\ counter' = counter
    BY DEF SubmitAccepted, Noise, Treatment
  <1>3. /\ r \in Round /\ r.number = round.number /\ r.updates = Added(round.updates, s, Noise.treatment)
        /\ r.participants = round.participants
    <2> DEFINE u == Added(round.updates, s, Noise.treatment)
    <2>1. u \in UNION {[S -> Treatment] : S \in SUBSET Station}
      <3>1. PICK S \in SUBSET Station : round.updates \in [S -> Treatment]
        BY <1>1 DEF Round
      <3>2. u \in [S \cup {s} -> Treatment] /\ S \cup {s} \in SUBSET Station
        BY <1>2, <3>1 DEF Added
      <3>3. QED
        BY <3>2
    <2> HIDE DEF u
    <2>2. r = [round EXCEPT !.updates = u]
      BY DEF u
    <2> HIDE DEF r
    <2>3. r \in Round /\ r.number = round.number /\ r.updates = u /\ r.participants = round.participants
      BY <1>1, <2>1, <2>2 DEF Round
    <2>4. QED
      BY <2>3 DEF u
  <1> HIDE DEF r
  <1>4. \/ round' = r /\ UNCHANGED <<version, history>>
        \/ /\ round' = NoRound /\ version' = r.number
           /\ history' = Append(history, [round |-> r, status |-> "COMPLETED", forced |-> FALSE])
    BY DEF SubmitAccepted, Aggregate, r
  <1>5. spent' \in 0..Budget
    BY <1>2, CoordinatorAssumption DEF Noise, CoordinatorTypeOK
  <1>6. r # NoRound
    BY <1>3, NoRoundIsNone
  <1>7. CoordinatorTypeOK' /\ NumbersInv' /\ VersionIsLatest' /\ AllRounds' = Past \cup {r}
    <2>1. CASE round' = r /\ UNCHANGED <<version, history>>
      <3>1. CoordinatorTypeOK'
        BY <1>2, <1>3, <1>5, <2>1 DEF CoordinatorTypeOK
      <3>2. NumbersInv' /\ VersionIsLatest'
        BY <1>1, <1>2, <1>3, <2>1 DEF NumbersInv, VersionIsLatest
      <3>3. AllRounds' = Past \cup {r}
        BY <1>6, <2>1 DEF AllRounds, Past
      <3>4. QED
        BY <3>1, <3>2, <3>3
    <2>2. CASE /\ round' = NoRound /\ version' = r.number
               /\ history' = Append(history, [round |-> r, status |-> "COMPLETED", forced |-> FALSE])
      <3>1. AllRounds' = Past \cup {r} /\ history' \in Seq(Ended)
        BY <1>3, <2>2, RoundPasses
      <3>2. NumbersInv' /\ VersionIsLatest'
        BY <1>1, <1>2, <1>3, <2>2, OrderIsKept
      <3>3. r.number \in 0..MaxRounds
        BY <1>3, CoordinatorAssumption DEF Round
      <3>4. CoordinatorTypeOK'
        BY <1>2, <1>5, <2>2, <3>1, <3>3 DEF CoordinatorTypeOK
      <3>5. QED
        BY <3>1, <3>2, <3>4
    <2>3. QED
      BY <1>4, <2>1, <2>2
  <1> DEFINE coin == <<round.number, s>>
  <1>8. AllRounds = Past \cup {round}
    BY <1>1, NoRoundIsNoRound
  <1>9. coin \notin Paid
    <2>1. coin \notin PaidIn(round)
      BY <1>1 DEF PaidIn, Noised
    <2>2. ASSUME NEW p \in Past PROVE coin \notin PaidIn(p)
      <3>1. PICK i \in 1..Len(history) : p = history[i].round
        BY DEF Past
      <3>2. p.number # round.number
        <4>1. history[i] \in Ended /\ round.number = counter /\ counter \in Nat /\ history[i].round.number < counter
          BY <1>1, ElementOfSeq DEF NumbersInv, CoordinatorTypeOK
        <4>2. history[i].round.number \in Nat
          BY <4>1 DEF Ended, Round
        <4>3. QED
          BY <3>1, <4>1, <4>2
      <3>3. QED
        BY <3>2 DEF PaidIn
    <2>3. QED
      BY <1>8, <2>1, <2>2 DEF Paid
  <1>10. Paid' = UNION {PaidIn(p) : p \in Past \cup {r}}
    BY <1>7 DEF Paid, PaidIn, Noised
  <1>11. CASE spent >= Budget
    <2>1. Noise.treatment = "raw" /\ spent' = spent
      BY <1>2, <1>11 DEF Noise
    <2>2. Noised(r) = Noised(round)
      BY <1>1, <1>3, <2>1 DEF Noised, Added
    <2>3. PaidIn(r) = PaidIn(round)
      BY <1>3, <2>2 DEF PaidIn
    <2>4. Paid' = Paid
      BY <1>8, <1>10, <2>3 DEF Paid
    <2>5. QED
      BY <1>7, <2>1, <2>4
  <1>12. CASE ~(spent >= Budget)
    <2>1. Noise.treatment = "noised" /\ spent' = spent + 1
      BY <1>2, <1>12 DEF Noise
    <2>2. Noised(r) = Noised(round) \cup {s}
      BY <1>1, <1>3, <2>1 DEF Noised, Added
    <2>3. PaidIn(r) = PaidIn(round) \cup {coin}
      BY <1>3, <2>2 DEF PaidIn
    <2>4. Paid' = Paid \cup {coin}
      BY <1>8, <1>10, <2>3 DEF Paid
    <2>5. IsFiniteSet(Paid \cup {coin}) /\ Cardinality(Paid \cup {coin}) = Cardinality(Paid) + 1
      BY <1>9, FS_AddElement
    <2>6. QED
      BY <1>7, <2>1, <2>4, <2>5
  <1>13. QED
    BY <1>11, <1>12

LEMMA CoordinatorInductive == CoordinatorSpec => []CoordinatorInv
PROOF
  <1>1. CoordinatorInit => CoordinatorInv
    <2> SUFFICES ASSUME CoordinatorInit PROVE CoordinatorInv
      OBVIOUS
    <2>1. CoordinatorTypeOK
      BY CoordinatorAssumption DEF CoordinatorInit, CoordinatorTypeOK
    <2>2. NumbersInv /\ VersionIsLatest
      BY DEF CoordinatorInit, NumbersInv, VersionIsLatest
    <2>3. AllRounds = {}
      BY DEF CoordinatorInit, AllRounds
    <2>4. Paid = {}
      BY <2>3 DEF Paid
    <2>5. IsFiniteSet(Paid) /\ Cardinality(Paid) = 0
      BY <2>4, FS_EmptySet
    <2>6. QED
      BY <2>1, <2>2, <2>5 DEF CoordinatorInit, CoordinatorInv
  <1>2. CoordinatorInv /\ [CoordinatorNext]_coordinatorVars => CoordinatorInv'
    <2> SUFFICES ASSUME CoordinatorInv, [CoordinatorNext]_coordinatorVars PROVE CoordinatorInv'
      OBVIOUS
    <2>1. CASE UNCHANGED coordinatorVars
      <3>1. /\ round' = round /\ counter' = counter /\ spent' = spent
            /\ version' = version /\ history' = history
        BY <2>1 DEF coordinatorVars
      <3>2. Paid' = Paid
        BY <3>1 DEF Paid, PaidIn, Noised, AllRounds
      <3>3. QED
        BY <3>1, <3>2 DEF CoordinatorInv, CoordinatorTypeOK, NumbersInv, VersionIsLatest
    <2>2. ASSUME NEW P \in SUBSET Station, StartRound(P) PROVE CoordinatorInv'
      <3>1. PICK E \in Eligible(P) :
              round' = IF Cardinality(E) < MinParticipants THEN round ELSE NewRound(counter', E)
        BY <2>2 DEF StartRound
      <3>2. /\ round = NoRound /\ counter < MaxRounds /\ counter' = counter + 1
            /\ spent' = spent /\ version' = version /\ history' = history
        BY <2>2 DEF StartRound, RoundIsOver
      <3>3. E \in SUBSET Station
        BY DEF Eligible
      <3>4. counter \in Nat /\ version \in Nat /\ counter' \in 1..MaxRounds /\ CoordinatorTypeOK
        BY <3>2, CoordinatorAssumption DEF CoordinatorInv, CoordinatorTypeOK
      <3>5. NewRound(counter', E) \in Round /\ NewRound(counter', E).number = counter'
        <4>1. <<>> \in [{} -> Treatment]
          OBVIOUS
        <4>2. <<>> \in UNION {[S -> Treatment] : S \in SUBSET Station}
          BY <4>1
        <4>3. QED
          BY <3>3, <3>4, <4>2 DEF NewRound, Round
      <3>6. CoordinatorTypeOK'
        BY <3>1, <3>2, <3>4, <3>5, CoordinatorAssumption DEF CoordinatorTypeOK
      <3>7. NumbersInv'
        <4>1. ASSUME NEW i \in 1..Len(history) PROVE history[i].round.number < counter'
          <5>1. history[i] \in Ended /\ history[i].round.number <= counter
            BY <3>4, ElementOfSeq DEF CoordinatorInv, NumbersInv, CoordinatorTypeOK
          <5>2. history[i].round.number \in Nat
            BY <5>1 DEF Ended, Round
          <5>3. QED
            BY <3>2, <3>4, <5>1, <5>2
        <4>2. version < counter' /\ \A i \in 1..Len(history) : history[i].round.number <= counter'
          <5>1. version <= counter
            BY DEF CoordinatorInv, NumbersInv
          <5>2. version < counter'
            BY <3>2, <3>4, <5>1
          <5>3. ASSUME NEW i \in 1..Len(history) PROVE history[i].round.number <= counter'
            <6>1. history[i] \in Ended /\ history[i].round.number < counter'
              BY <3>4, <4>1, ElementOfSeq DEF CoordinatorTypeOK
            <6>2. history[i].round.number \in Nat
              BY <6>1 DEF Ended, Round
            <6>3. QED
              BY <3>4, <6>1, <6>2
          <5>4. QED
            BY <5>2, <5>3
        <4>3. QED
          BY <3>1, <3>2, <3>4, <3>5, <4>1, <4>2 DEF NumbersInv
      <3>8. VersionIsLatest'
        <4>1. round' # NoRound => version < round'.number
          <5>1. version <= counter
            BY DEF CoordinatorInv, NumbersInv
          <5>2. QED
            BY <3>1, <3>2, <3>4, <3>5, <5>1
        <4>2. QED
          BY <3>2, <4>1 DEF CoordinatorInv, VersionIsLatest
      <3>9. Paid' = Paid
        <4>1. AllRounds = Past /\ Past' = Past
          BY <3>2 DEF AllRounds, Past
        <4>2. AllRounds' = Past \/ AllRounds' = Past \cup {NewRound(counter', E)}
          BY <3>1, <3>2 DEF AllRounds, Past
        <4>3. PaidIn(NewRound(counter', E)) = {}
          BY StartCostsNothing
        <4>4. Paid' = UNION {PaidIn(r) : r \in AllRounds'}
          BY DEF Paid, PaidIn, Noised
        <4> DEFINE new == NewRound(counter', E)
        <4> HIDE DEF new
        <4>5. UNION {PaidIn(r) : r \in Past \cup {new}} = UNION {PaidIn(r) : r \in Past}
          BY <4>3 DEF new
        <4>6. QED
          BY <4>1, <4>2, <4>4, <4>5 DEF Paid, new
      <3>10. QED
        BY <3>2, <3>6, <3>7, <3>8, <3>9 DEF CoordinatorInv
    <2>3. ASSUME NEW s \in Station, SubmitAccepted(s) PROVE CoordinatorInv'
      BY <2>3, UpdateIsPaid
    <2>4. ASSUME NEW s \in Station, SubmitDrifted(s) PROVE CoordinatorInv'
      <3> DEFINE r == [round EXCEPT !.excluded = @ \cup {s}]
      <3>1. /\ round # NoRound /\ round \in Round /\ round' = r /\ counter' = counter
            /\ spent' = spent /\ version' = version /\ history' = history
        BY <2>4 DEF SubmitDrifted, MayContribute, CoordinatorInv, CoordinatorTypeOK
      <3>2. r \in Round /\ r.number = round.number /\ r.updates = round.updates
        BY <3>1 DEF Round
      <3> HIDE DEF r
      <3>3. r # NoRound
        BY <3>2, NoRoundIsNone
      <3>4. CoordinatorTypeOK' /\ NumbersInv' /\ VersionIsLatest'
        BY <3>1, <3>2 DEF CoordinatorInv, CoordinatorTypeOK, NumbersInv, VersionIsLatest
      <3>5. Paid' = Paid
        <4>1. AllRounds = Past \cup {round} /\ AllRounds' = Past \cup {r}
          BY <3>1, <3>3 DEF AllRounds, Past
        <4>2. PaidIn(r) = PaidIn(round)
          BY <3>2 DEF PaidIn, Noised
        <4>3. Paid' = UNION {PaidIn(p) : p \in AllRounds'}
          BY DEF Paid, PaidIn, Noised
        <4>4. QED
          BY <4>1, <4>2, <4>3 DEF Paid
      <3>6. QED
        BY <3>1, <3>4, <3>5 DEF CoordinatorInv
    <2>5. CASE ForceTimeout
      <3>1. round # NoRound /\ round \in Round /\ round' = NoRound /\ counter' = counter /\ spent' = spent
        BY <2>5 DEF ForceTimeout, Aggregate, CoordinatorInv, CoordinatorTypeOK
      <3>2. PICK status \in {"COMPLETED", "FAILED"} :
              /\ history' = Append(history, [round |-> round, status |-> status, forced |-> TRUE])
              /\ version' = IF status = "COMPLETED" THEN round.number ELSE version
        BY <2>5 DEF ForceTimeout, Aggregate
      <3>3. AllRounds' = Past \cup {round} /\ history' \in Seq(Ended)
        BY <3>1, <3>2, RoundPasses DEF CoordinatorInv
      <3>4. NumbersInv' /\ VersionIsLatest'
        BY <3>1, <3>2, OrderIsKept
      <3>5. CoordinatorTypeOK'
        BY <3>1, <3>2, <3>3, CoordinatorAssumption DEF CoordinatorInv, CoordinatorTypeOK, Round
      <3>6. Paid' = Paid
        <4>1. AllRounds = Past \cup {round}
          BY <3>1 DEF AllRounds, Past
        <4>2. Paid' = UNION {PaidIn(p) : p \in AllRounds'}
          BY DEF Paid, PaidIn, Noised
        <4>3. QED
          BY <3>3, <4>1, <4>2 DEF Paid
      <3>7. QED
        BY <3>1, <3>4, <3>5, <3>6 DEF CoordinatorInv
    <2>6. QED
      BY <2>1, <2>2, <2>3, <2>4, <2>5 DEF CoordinatorNext
  <1>3. QED
    BY <1>1, <1>2, PTL DEF CoordinatorSpec

(* Every update with noise, and nothing else, is paid from the privacy     *)
(* budget, whichever way rounds end (federated_coordinator.py, add_noise). *)
THEOREM NoiseIsPaid == CoordinatorSpec => []BudgetPaysForNoise
PROOF
  <1>1. CoordinatorInv => BudgetPaysForNoise
    BY DEF CoordinatorInv, BudgetPaysForNoise, Paid, PaidIn
  <1>2. QED
    BY <1>1, CoordinatorInductive, PTL

(* The numbers of rounds grow, and the deployed version is that of the     *)
(* last completed one (federated_coordinator.py, _aggregate).              *)
THEOREM VersionStaysLatest == CoordinatorSpec => []VersionIsLatest
PROOF
  <1>1. CoordinatorInv => VersionIsLatest
    BY DEF CoordinatorInv
  <1>2. QED
    BY <1>1, CoordinatorInductive, PTL

-----------------------------------------------------------------------------
(* The resource manager.  A retry queue exists only during a drain, and    *)
(* what it replaces came since the drain looked at it last.                *)
In(q) == {q[i] : i \in 1..Len(q)}

QueuesInv ==
  /\ {pending, retry} \subseteq Seq(Work) /\ drain \in {"no", "loop", "swap"}
  /\ drain = "no" => retry = <<>>
  /\ drain = "swap" => In(pending) \subseteq exposed
  /\ chosen = [c \in Caller |-> chosen[c]] /\ lowering = [c \in Caller |-> lowering[c]]

(* A node counts at least what runs on it, and so does every count that a  *)
(* release is about to store.                                              *)
Counted(n) ==
  /\ load[n] >= Cardinality(On(n))
  /\ \A c \in Caller : lowering[c] # Idle /\ lowering[c][1] = n =>
                         lowering[c][2] >= Cardinality(On(n))

AllCounted == \A n \in Node \ (Renewed \cup overwritten) : Counted(n)

CallsInv ==
  /\ \A c \in Caller : chosen[c] # Idle =>
       /\ chosen[c] \in Work \X Node \X {"current", "replaced"}
       /\ chosen[c][2] \notin Renewed => chosen[c][3] = "current"
  /\ \A c \in Caller : lowering[c] # Idle => lowering[c] \in Node \X Nat

LoadInv ==
  /\ load \in [Node -> Nat] /\ scheduled \in [Work -> Node \cup {NoNode}]
  /\ CallsInv /\ AllCounted

ManagerInv == QueuesInv /\ LoadInv /\ OnlySwapsLose

LEMMA QueueGrows ==
  ASSUME NEW q \in Seq(Work), NEW w \in Work
  PROVE  Append(q, w) \in Seq(Work) /\ In(Append(q, w)) = In(q) \cup {w}
PROOF
  <1>1. /\ Append(q, w) \in Seq(Work) /\ Len(Append(q, w)) = Len(q) + 1 /\ Len(q) \in Nat
        /\ \A i \in 1..Len(q) : Append(q, w)[i] = q[i]
        /\ Append(q, w)[Len(q) + 1] = w
    OBVIOUS
  <1>2. 1..Len(q) + 1 = 1..Len(q) \cup {Len(q) + 1}
    BY <1>1
  <1>3. QED
    BY <1>1, <1>2 DEF In

LEMMA QueueShrinks ==
  ASSUME NEW q \in Seq(Work), q # <<>>
  PROVE  Head(q) \in Work /\ Tail(q) \in Seq(Work) /\ In(q) = In(Tail(q)) \cup {Head(q)}
PROOF
  <1>1. /\ Tail(q) \in Seq(Work) /\ Len(Tail(q)) = Len(q) - 1 /\ Len(q) \in Nat \ {0}
        /\ \A i \in 1..Len(q) - 1 : Tail(q)[i] = q[i + 1]
        /\ Head(q) = q[1] /\ Head(q) \in Work
    OBVIOUS
  <1>2. ASSUME NEW i \in 1..Len(q) PROVE i = 1 \/ (i - 1 \in 1..Len(q) - 1 /\ (i - 1) + 1 = i)
    BY <1>1
  <1>3. \A i \in 1..Len(q) - 1 : i + 1 \in 1..Len(q)
    BY <1>1
  <1>4. In(q) \subseteq In(Tail(q)) \cup {Head(q)}
    BY <1>1, <1>2 DEF In
  <1>5. In(Tail(q)) \subseteq In(q) /\ Head(q) \in In(q)
    <2>1. 1 \in 1..Len(q)
      BY <1>1
    <2>2. QED
      BY <1>1, <1>3, <2>1 DEF In
  <1>6. QED
    BY <1>1, <1>4, <1>5

LEMMA RunningIsFinite ==
  ASSUME NEW n \in Node
  PROVE  IsFiniteSet(On(n)) /\ Cardinality(On(n)) \in Nat
PROOF
  <1>1. On(n) \in SUBSET Work
    BY DEF On
  <1>2. QED
    BY <1>1, ManagerAssumption, FS_Subset, FS_CardinalityType

(* A workload more on a node is counted there.                             *)
LEMMA AssignedIsCounted ==
  ASSUME LoadInv, NEW w \in Work, NEW n \in Node, NEW object \in {"current", "replaced"},
         n \notin Renewed => object = "current",
         Assigned(w, n, object), lowering' = lowering
  PROVE  /\ load' \in [Node -> Nat] /\ scheduled' \in [Work -> Node \cup {NoNode}]
         /\ AllCounted'
PROOF
  <1>1. /\ load' = IF object = "current" THEN [load EXCEPT ![n] = @ + 1] ELSE load
        /\ scheduled' = [scheduled EXCEPT ![w] = n]
        /\ overwritten' = IF BeingLowered(n) THEN overwritten \cup {n} ELSE overwritten
        /\ load \in [Node -> Nat] /\ scheduled \in [Work -> Node \cup {NoNode}]
    BY DEF Assigned, LoadInv
  <1>2. load' \in [Node -> Nat] /\ scheduled' \in [Work -> Node \cup {NoNode}]
    BY <1>1
  <1>3. ASSUME NEW m \in Node \ (Renewed \cup overwritten') PROVE Counted(m)'
    <2>1. /\ m \in Node \ (Renewed \cup overwritten)
          /\ m = n => ~BeingLowered(n)
      BY <1>1
    <2>2. /\ IsFiniteSet(On(m)) /\ Cardinality(On(m)) \in Nat /\ load[m] \in Nat
          /\ load[m] >= Cardinality(On(m))
          /\ \A c \in Caller : lowering[c] # Idle /\ lowering[c][1] = m =>
               lowering[c][2] >= Cardinality(On(m)) /\ lowering[c][2] \in Nat
      BY <1>1, <2>1, RunningIsFinite DEF LoadInv, CallsInv, AllCounted, Counted
    <2>3. CASE m = n
      <3>1. On(m)' = On(m) \cup {w}
        BY <1>1, <2>3 DEF On
      <3>2. Cardinality(On(m)') \in {Cardinality(On(m)), Cardinality(On(m)) + 1}
        BY <2>2, <3>1, FS_AddElement
      <3>3. load'[m] = load[m] + 1
        BY <1>1, <2>3
      <3>4. \A c \in Caller : ~(lowering[c] # Idle /\ lowering[c][1] = m)
        BY <2>1, <2>3 DEF BeingLowered
      <3>5. load'[m] >= Cardinality(On(m)')
        BY <2>2, <3>2, <3>3
      <3>6. QED
        BY <3>4, <3>5 DEF Counted
    <2>4. CASE m # n
      <3>1. On(m)' = On(m) \ {w}
        BY <1>1, <2>4 DEF On
      <3>2. Cardinality(On(m)') <= Cardinality(On(m)) /\ Cardinality(On(m)') \in Nat
        <4>1. /\ IsFiniteSet(On(m) \ {w})
              /\ Cardinality(On(m) \ {w}) =
                   IF w \in On(m) THEN Cardinality(On(m)) - 1 ELSE Cardinality(On(m))
          BY <2>2, FS_RemoveElement
        <4>2. Cardinality(On(m) \ {w}) \in Nat
          BY <4>1, FS_CardinalityType
        <4>3. Cardinality(On(m) \ {w}) <= Cardinality(On(m))
          BY <2>2, <4>1
        <4>4. QED
          BY <3>1, <4>2, <4>3
      <3>3. load'[m] = load[m]
        BY <1>1, <2>4
      <3>4. /\ load'[m] >= Cardinality(On(m)')
            /\ \A c \in Caller : lowering[c] # Idle /\ lowering[c][1] = m =>
                 lowering[c][2] >= Cardinality(On(m)')
        BY <2>2, <3>2, <3>3
      <3>5. QED
        BY <3>4 DEF Counted
    <2>5. QED
      BY <2>3, <2>4
  <1>4. QED
    BY <1>2, <1>3 DEF AllCounted

(* A release takes the workload off before it lowers the count.            *)
LEMMA ReleasedIsCounted ==
  ASSUME LoadInv, lowering = [d \in Caller |-> lowering[d]],
         NEW c \in Caller, NEW w \in Work, Release(c, w)
  PROVE  LoadInv'
PROOF
  <1>1. PICK n \in Node : n = scheduled[w]
    BY ManagerAssumption DEF Release, LoadInv
  <1>2. /\ lowering' = [lowering EXCEPT ![c] = <<n, Lowered(load[n])>>]
        /\ scheduled' = [scheduled EXCEPT ![w] = NoNode]
        /\ UNCHANGED <<load, chosen, overwritten>>
        /\ load \in [Node -> Nat] /\ scheduled \in [Work -> Node \cup {NoNode}]
        /\ NoNode \notin Node
    BY <1>1, ManagerAssumption DEF Release, LoadInv
  <1>3. load[n] \in Nat /\ Lowered(load[n]) \in Nat /\ Lowered(load[n]) + 1 >= load[n]
    BY <1>2 DEF Lowered
  <1>4. /\ lowering'[c] = <<n, Lowered(load[n])>>
        /\ \A d \in Caller : d # c => lowering'[d] = lowering[d]
    BY <1>2
  <1>5. CallsInv'
    BY <1>2, <1>3, <1>4 DEF LoadInv, CallsInv
  <1>6. ASSUME NEW m \in Node \ (Renewed \cup overwritten) PROVE Counted(m)'
    <2>1. /\ IsFiniteSet(On(m)) /\ Cardinality(On(m)) \in Nat /\ load[m] \in Nat
          /\ load[m] >= Cardinality(On(m))
          /\ \A d \in Caller : lowering[d] # Idle /\ lowering[d][1] = m =>
               lowering[d][2] >= Cardinality(On(m)) /\ lowering[d][2] \in Nat
      BY <1>2, RunningIsFinite DEF LoadInv, CallsInv, AllCounted, Counted
    <2>2. On(m)' = On(m) \ {w}
      BY <1>2 DEF On
    <2>3. /\ Cardinality(On(m)') = IF w \in On(m) THEN Cardinality(On(m)) - 1 ELSE Cardinality(On(m))
          /\ Cardinality(On(m)') \in Nat
      BY <2>1, <2>2, FS_RemoveElement, FS_CardinalityType
    <2>4. load'[m] >= Cardinality(On(m)')
      BY <1>2, <2>1, <2>3
    <2>5. ASSUME NEW d \in Caller, lowering'[d] # Idle, lowering'[d][1] = m
          PROVE  lowering'[d][2] >= Cardinality(On(m)')
      <3>1. CASE d = c
        <4>1. m = n /\ lowering'[d][2] = Lowered(load[n])
          BY <1>4, <2>5, <3>1
        <4>2. w \in On(m)
          BY <1>1, <4>1 DEF On
        <4>3. QED
          BY <1>3, <2>1, <2>3, <4>1, <4>2
      <3>2. CASE d # c
        BY <1>4, <2>1, <2>3, <2>5, <3>2
      <3>3. QED
        BY <3>1, <3>2
    <2>6. QED
      BY <2>4, <2>5 DEF Counted
  <1>7. AllCounted'
    BY <1>2, <1>6 DEF AllCounted
  <1>8. scheduled' \in [Work -> Node \cup {NoNode}]
    BY <1>2
  <1>9. QED
    BY <1>2, <1>5, <1>7, <1>8 DEF LoadInv

(* What a release stores counts what runs on the node.                     *)
LEMMA StoredIsCounted ==
  ASSUME LoadInv, lowering = [d \in Caller |-> lowering[d]],
         NEW c \in Caller, StoreLowered(c)
  PROVE  LoadInv'
PROOF
  <1>1. PICK n \in Node, k \in Nat : lowering[c] = <<n, k>>
    BY DEF StoreLowered, LoadInv, CallsInv
  <1>2. /\ load' = [load EXCEPT ![n] = k] /\ lowering' = [lowering EXCEPT ![c] = Idle]
        /\ UNCHANGED <<scheduled, chosen, overwritten>> /\ lowering[c] # Idle
        /\ load \in [Node -> Nat]
    <2>1. /\ load' = [load EXCEPT ![lowering[c][1]] = lowering[c][2]]
          /\ lowering' = [lowering EXCEPT ![c] = Idle] /\ lowering[c] # Idle
          /\ UNCHANGED <<scheduled, chosen, overwritten>> /\ load \in [Node -> Nat]
      BY DEF StoreLowered, LoadInv
    <2>2. lowering[c][1] = n /\ lowering[c][2] = k
      BY <1>1
    <2>3. QED
      BY <2>1, <2>2
  <1>3. /\ lowering'[c] = Idle
        /\ \A d \in Caller : lowering'[d] # Idle => lowering'[d] = lowering[d]
    BY <1>2
  <1>4. CallsInv'
    BY <1>2, <1>3 DEF LoadInv, CallsInv
  <1>5. ASSUME NEW m \in Node \ (Renewed \cup overwritten) PROVE Counted(m)'
    <2>1. On(m)' = On(m)
      BY <1>2 DEF On
    <2>2. Counted(m)
      BY DEF LoadInv, AllCounted
    <2>3. load'[m] >= Cardinality(On(m))
      <3>1. CASE m = n
        <4>1. load'[m] = k /\ lowering[c][1] = m /\ lowering[c][2] = k
          BY <1>1, <1>2, <3>1
        <4>2. QED
          BY <1>2, <2>2, <4>1 DEF Counted
      <3>2. CASE m # n
        BY <1>2, <2>2, <3>2 DEF Counted
      <3>3. QED
        BY <3>1, <3>2
    <2>4. \A d \in Caller : lowering'[d] # Idle /\ lowering'[d][1] = m =>
            lowering'[d][2] >= Cardinality(On(m))
      BY <1>3, <2>2 DEF Counted
    <2>5. QED
      BY <2>1, <2>3, <2>4 DEF Counted
  <1>6. AllCounted'
    BY <1>2, <1>5 DEF AllCounted
  <1>7. QED
    BY <1>2, <1>4, <1>6 DEF LoadInv

(* A node that registers again is counted from zero.                       *)
LEMMA RenewedIsCounted ==
  ASSUME LoadInv, NEW n \in Node, RenewNode(n)
  PROVE  LoadInv'
PROOF
  <1>1. /\ load' = [load EXCEPT ![n] = 0] /\ n \in Renewed
        /\ chosen' = [c \in Caller |-> IF chosen[c] # Idle /\ chosen[c][2] = n
                                         THEN <<chosen[c][1], n, "replaced">> ELSE chosen[c]]
        /\ lowering' = [c \in Caller |-> IF lowering[c] # Idle /\ lowering[c][1] = n
                                           THEN Idle ELSE lowering[c]]
        /\ UNCHANGED <<scheduled, overwritten>> /\ load \in [Node -> Nat]
    BY DEF RenewNode, LoadInv
  <1>2. \A c \in Caller : lowering'[c] # Idle => lowering'[c] = lowering[c]
    BY <1>1
  <1>3. ASSUME NEW c \in Caller, chosen'[c] # Idle
        PROVE  /\ chosen'[c] \in Work \X Node \X {"current", "replaced"}
               /\ chosen'[c][2] \notin Renewed => chosen'[c][3] = "current"
    <2>1. CASE chosen[c] # Idle /\ chosen[c][2] = n
      <3>1. chosen'[c] = <<chosen[c][1], n, "replaced">> /\ chosen[c][1] \in Work
        BY <1>1, <2>1 DEF LoadInv, CallsInv
      <3>2. QED
        BY <1>1, <3>1
    <2>2. CASE ~(chosen[c] # Idle /\ chosen[c][2] = n)
      <3>1. chosen'[c] = chosen[c] /\ chosen[c] # Idle
        BY <1>1, <1>3, <2>2
      <3>2. QED
        BY <3>1 DEF LoadInv, CallsInv
    <2>3. QED
      BY <2>1, <2>2
  <1>4. CallsInv'
    BY <1>2, <1>3 DEF LoadInv, CallsInv
  <1>5. \A m \in Node \ (Renewed \cup overwritten) : load'[m] = load[m] /\ On(m)' = On(m)
    BY <1>1 DEF On
  <1>6. AllCounted'
    BY <1>1, <1>2, <1>5 DEF LoadInv, AllCounted, Counted
  <1>7. QED
    BY <1>1, <1>4, <1>6 DEF LoadInv

(* Where no load and no assignment changes.                                *)
LEMMA LoadWaits ==
  ASSUME LoadInv, UNCHANGED <<load, scheduled, chosen, lowering, overwritten>>
  PROVE  LoadInv'
BY DEF LoadInv, CallsInv, AllCounted, Counted, On

LEMMA QueuedInBoth ==
  Queued = In(pending) \cup In(retry)
BY DEF Queued, In

(* Nothing leaves the queues but in the moment of the swap.                *)
LEMMA ManagerStep ==
  ASSUME ManagerInv, ManagerNext
  PROVE  ManagerInv'
PROOF
  <1> USE ManagerAssumption DEF ManagerInv
  <1>1. ASSUME NEW c \in Caller, Assign(c) PROVE ManagerInv'
    <2>1. PICK w \in Work, n \in Node, object \in {"current", "replaced"} :
            /\ chosen[c] = <<w, n, object>> /\ (n \notin Renewed => object = "current")
            /\ Assigned(w, n, object)
      <3>1. /\ chosen[c] \in Work \X Node \X {"current", "replaced"}
            /\ chosen[c][2] \notin Renewed => chosen[c][3] = "current"
            /\ Assigned(chosen[c][1], chosen[c][2], chosen[c][3])
        BY <1>1 DEF Assign, LoadInv, CallsInv
      <3>2. QED
        BY <3>1
    <2>2. /\ chosen' = [chosen EXCEPT ![c] = Idle]
          /\ UNCHANGED <<lowering, pending, retry, drain, exposed, submitted>>
          /\ answered' = answered \cup {w}
      BY <1>1, <2>1 DEF Assign, Assigned, queueVars
    <2>3. /\ load' \in [Node -> Nat] /\ scheduled' \in [Work -> Node \cup {NoNode}]
          /\ AllCounted'
      BY <2>1, <2>2, AssignedIsCounted
    <2>4. chosen'[c] = Idle /\ \A d \in Caller : d # c => chosen'[d] = chosen[d]
      BY <2>2 DEF QueuesInv
    <2>5. QueuesInv'
      BY <2>2 DEF QueuesInv, In
    <2>6. LoadInv'
      BY <2>2, <2>3, <2>4 DEF LoadInv, CallsInv
    <2>7. InHand \subseteq InHand' \cup {w}
      BY <2>1, <2>4 DEF InHand
    <2>8. OnlySwapsLose'
      BY <2>2, <2>7 DEF OnlySwapsLose, Queued
    <2>9. QED
      BY <2>5, <2>6, <2>8
  <1>2. ASSUME NEW c \in Caller, NEW w \in Work, Choose(c, w) PROVE ManagerInv'
    <2>1. /\ chosen[c] = Idle /\ submitted' = submitted \cup {w}
          /\ UNCHANGED <<load, scheduled, lowering, overwritten, retry, drain>>
      BY <1>2 DEF Choose, IsFree
    <2>2. CASE Accepting # {}
      <3>1. PICK n \in Node : chosen' = [chosen EXCEPT ![c] = <<w, n, "current">>]
        BY <1>2, <2>2 DEF Choose, Best, Accepting
      <3>2. UNCHANGED <<pending, exposed, answered>>
        BY <1>2, <2>2 DEF Choose
      <3>3. chosen'[c] = <<w, n, "current">> /\ \A d \in Caller : d # c => chosen'[d] = chosen[d]
        BY <3>1 DEF QueuesInv
      <3>4. QueuesInv'
        BY <2>1, <3>1, <3>2 DEF QueuesInv, In
      <3>5. LoadInv'
        <4>1. CallsInv'
          <5>1. /\ <<w, n, "current">> \in Work \X Node \X {"current", "replaced"}
                /\ <<w, n, "current">>[3] = "current"
            OBVIOUS
          <5>2. ASSUME NEW d \in Caller, chosen'[d] # Idle
                PROVE  /\ chosen'[d] \in Work \X Node \X {"current", "replaced"}
                       /\ chosen'[d][2] \notin Renewed => chosen'[d][3] = "current"
            <6>1. CASE d = c
              BY <3>3, <5>1, <6>1
            <6>2. CASE d # c
              BY <3>3, <5>2, <6>2 DEF LoadInv, CallsInv
            <6>3. QED
              BY <6>1, <6>2
          <5>3. QED
            BY <2>1, <5>2 DEF LoadInv, CallsInv
        <4>2. AllCounted'
          BY <2>1 DEF LoadInv, AllCounted, Counted, On
        <4>3. QED
          BY <2>1, <4>1, <4>2 DEF LoadInv
      <3>6. InHand \cup {w} \subseteq InHand'
        <4>1. <<w, n, "current">> # Idle /\ <<w, n, "current">>[1] = w
          BY DEF Idle
        <4>2. QED
          BY <2>1, <3>3, <4>1 DEF InHand
      <3>7. OnlySwapsLose'
        BY <2>1, <3>2, <3>6 DEF OnlySwapsLose, Queued
      <3>8. QED
        BY <3>4, <3>5, <3>7
    <2>3. CASE Accepting = {}
      <3>1. /\ chosen' = chosen
            /\ \/ /\ pending' = Append(pending, w) /\ answered' = answered
                  /\ exposed' = IF drain = "swap" THEN exposed \cup {w} ELSE exposed
               \/ /\ pending' = pending /\ answered' = answered \cup {w}
                  /\ exposed' = exposed
        BY <1>2, <2>3 DEF Choose
      <3>2. pending \in Seq(Work) /\ retry \in Seq(Work)
        BY DEF QueuesInv
      <3>3. /\ pending' \in Seq(Work) /\ In(pending) \subseteq In(pending')
            /\ w \in In(pending') \cup answered' /\ answered \subseteq answered'
            /\ exposed \subseteq exposed'
            /\ drain = "swap" => In(pending') \subseteq In(pending) \cup exposed'
        <4>1. Append(pending, w) \in Seq(Work) /\ In(Append(pending, w)) = In(pending) \cup {w}
          BY <3>2, QueueGrows
        <4>2. CASE /\ pending' = Append(pending, w) /\ answered' = answered
                   /\ exposed' = IF drain = "swap" THEN exposed \cup {w} ELSE exposed
          BY <4>1, <4>2
        <4>3. CASE pending' = pending /\ answered' = answered \cup {w} /\ exposed' = exposed
          BY <3>2, <4>3
        <4>4. QED
          BY <3>1, <4>2, <4>3
      <3>4. In(pending)' = In(pending') /\ In(retry)' = In(retry)
        BY <2>1 DEF In
      <3>5. QueuesInv'
        BY <2>1, <3>1, <3>2, <3>3, <3>4 DEF QueuesInv
      <3>6. LoadInv'
        BY <2>1, <3>1, LoadWaits
      <3>7. Queued' = In(pending') \cup In(retry) /\ InHand' = InHand
        BY <2>1, <3>1 DEF Queued, In, InHand
      <3>8. OnlySwapsLose'
        BY <2>1, <3>3, <3>7, QueuedInBoth DEF OnlySwapsLose
      <3>9. QED
        BY <3>5, <3>6, <3>8
    <2>4. QED
      BY <2>2, <2>3
  <1>3. ASSUME NEW c \in Caller, NEW w \in Work, Release(c, w) PROVE ManagerInv'
    <2>1. /\ UNCHANGED <<pending, retry, drain, exposed, chosen, submitted, answered>>
          /\ \E x : lowering' = [lowering EXCEPT ![c] = x]
      BY <1>3 DEF Release, queueVars, callVars
    <2>2. LoadInv'
      BY <1>3, ReleasedIsCounted DEF QueuesInv
    <2>3. QueuesInv'
      BY <2>1 DEF QueuesInv, In
    <2>4. QED
      BY <2>1, <2>2, <2>3 DEF OnlySwapsLose, Queued, InHand
  <1>4. ASSUME NEW c \in Caller, StoreLowered(c) PROVE ManagerInv'
    <2>1. /\ UNCHANGED <<pending, retry, drain, exposed, chosen, submitted, answered>>
          /\ lowering' = [lowering EXCEPT ![c] = Idle]
      BY <1>4 DEF StoreLowered, queueVars, callVars
    <2>2. LoadInv'
      BY <1>4, StoredIsCounted DEF QueuesInv
    <2>3. QueuesInv'
      BY <2>1 DEF QueuesInv, In
    <2>4. QED
      BY <2>1, <2>2, <2>3 DEF OnlySwapsLose, Queued, InHand
  <1>5. ASSUME NEW w \in Work, TimePasses(w) PROVE ManagerInv'
    <2>1. /\ UNCHANGED <<pending, retry, drain, exposed, submitted, answered>>
          /\ UNCHANGED <<load, scheduled, chosen, lowering, overwritten>>
      BY <1>5 DEF TimePasses, nodeVars, queueVars
    <2>2. QED
      BY <2>1, LoadWaits DEF QueuesInv, In, OnlySwapsLose, Queued, InHand
  <1>6. ASSUME NEW n \in Node, UpdateUsage(n) PROVE ManagerInv'
    <2>1. /\ UNCHANGED <<pending, retry, drain, exposed, submitted, answered>>
          /\ UNCHANGED <<load, scheduled, chosen, lowering, overwritten>>
      BY <1>6 DEF UpdateUsage, queueVars, callVars
    <2>2. QED
      BY <2>1, LoadWaits DEF QueuesInv, In, OnlySwapsLose, Queued, InHand
  <1>7. ASSUME NEW n \in Node, RenewNode(n) PROVE ManagerInv'
    <2>1. /\ UNCHANGED <<pending, retry, drain, exposed, submitted, answered>>
          /\ chosen' = [c \in Caller |-> IF chosen[c] # Idle /\ chosen[c][2] = n
                                           THEN <<chosen[c][1], n, "replaced">> ELSE chosen[c]]
          /\ lowering' = [c \in Caller |-> IF lowering[c] # Idle /\ lowering[c][1] = n
                                             THEN Idle ELSE lowering[c]]
      BY <1>7 DEF RenewNode, queueVars, callVars
    <2>2. LoadInv'
      BY <1>7, RenewedIsCounted
    <2>3. QueuesInv'
      BY <2>1 DEF QueuesInv, In
    <2>4. ASSUME NEW c \in Caller, chosen[c] # Idle
          PROVE  chosen'[c] # Idle /\ chosen'[c][1] = chosen[c][1]
      BY <2>1, <2>4 DEF Idle
    <2>5. InHand \subseteq InHand'
      BY <2>4 DEF InHand
    <2>6. QED
      BY <2>1, <2>2, <2>3, <2>5 DEF OnlySwapsLose, Queued
  <1>8. CASE StartDrain
    <2>1. /\ UNCHANGED <<pending, exposed, submitted, answered>>
          /\ UNCHANGED <<load, scheduled, chosen, lowering, overwritten>>
          /\ drain = "no" /\ drain' = "loop" /\ retry' = <<>>
      BY <1>8 DEF StartDrain, nodeVars, callVars
    <2>2. retry = <<>>
      BY <2>1 DEF QueuesInv
    <2>3. QED
      BY <2>1, <2>2, LoadWaits DEF QueuesInv, OnlySwapsLose, Queued, InHand
  <1>9. CASE DrainNext
    <2> DEFINE w == Head(pending)
    <2>1. /\ drain = "loop" /\ pending # <<>>
          /\ UNCHANGED <<drain, exposed, chosen, lowering, submitted>>
          /\ pending \in Seq(Work) /\ retry \in Seq(Work)
      BY <1>9 DEF DrainNext, QueuesInv
    <2>2. w \in Work /\ Tail(pending) \in Seq(Work) /\ In(pending) = In(Tail(pending)) \cup {w}
      BY <2>1, QueueShrinks
    <2>3. \/ /\ UNCHANGED <<load, scheduled, overwritten, retry>>
             /\ pending' = Tail(pending) /\ answered' = answered \cup {w}
          \/ /\ \E n \in Node : Assigned(w, n, "current")
             /\ pending' = Tail(pending) /\ retry' = retry
          \/ /\ UNCHANGED <<load, scheduled, overwritten, answered>>
             /\ pending' = Append(Tail(pending), w) /\ retry' = Append(retry, w)
      BY <1>9 DEF DrainNext, Best, Accepting, Kept
    <2> HIDE DEF w
    <2>4. /\ pending' \in Seq(Work) /\ retry' \in Seq(Work) /\ answered \subseteq answered'
          /\ In(pending) \cup In(retry) \subseteq In(pending') \cup In(retry') \cup answered'
      <3>1. CASE pending' = Tail(pending) /\ retry' = retry /\ answered' = answered \cup {w}
        BY <2>1, <2>2, <3>1
      <3>2. CASE pending' = Append(Tail(pending), w) /\ retry' = Append(retry, w) /\ answered' = answered
        <4>1. In(pending') = In(Tail(pending)) \cup {w} /\ pending' \in Seq(Work)
          BY <2>2, <3>2, QueueGrows
        <4>2. In(retry') = In(retry) \cup {w} /\ retry' \in Seq(Work)
          BY <2>1, <2>2, <3>2, QueueGrows
        <4>3. QED
          BY <2>2, <3>2, <4>1, <4>2
      <3>3. QED
        BY <2>3, <3>1, <3>2 DEF Assigned
    <2>5. LoadInv'
      <3>1. CASE UNCHANGED <<load, scheduled, overwritten>>
        BY <2>1, <3>1, LoadWaits
      <3>2. ASSUME NEW n \in Node, Assigned(w, n, "current") PROVE LoadInv'
        <4>1. /\ load' \in [Node -> Nat] /\ scheduled' \in [Work -> Node \cup {NoNode}]
              /\ AllCounted'
          BY <2>1, <2>2, <3>2, AssignedIsCounted
        <4>2. QED
          BY <2>1, <4>1 DEF LoadInv, CallsInv
      <3>3. QED
        BY <2>3, <3>1, <3>2
    <2>6. QueuesInv'
      BY <2>1, <2>4 DEF QueuesInv
    <2>7. Queued' = In(pending') \cup In(retry') /\ InHand' = InHand
      BY <2>1 DEF Queued, In, InHand
    <2>8. OnlySwapsLose'
      BY <2>1, <2>4, <2>7, QueuedInBoth DEF OnlySwapsLose
    <2>9. QED
      BY <2>5, <2>6, <2>8
  <1>10. CASE LeaveLoop
    <2>1. /\ UNCHANGED <<pending, retry, exposed, submitted, answered>>
          /\ UNCHANGED <<load, scheduled, chosen, lowering, overwritten>>
          /\ pending = <<>> /\ drain' = "swap"
      BY <1>10 DEF LeaveLoop, nodeVars, callVars
    <2>2. In(pending) = {} /\ In(pending)' = In(pending)
      BY <2>1 DEF In
    <2>3. QueuesInv'
      BY <2>1, <2>2 DEF QueuesInv
    <2>4. QED
      BY <2>1, <2>3, LoadWaits DEF OnlySwapsLose, Queued, InHand
  <1>11. CASE EndDrain
    <2>1. /\ UNCHANGED <<exposed, submitted, answered>>
          /\ UNCHANGED <<load, scheduled, chosen, lowering, overwritten>>
          /\ drain = "swap" /\ drain' = "no" /\ pending' = retry /\ retry' = <<>>
      BY <1>11 DEF EndDrain, nodeVars, callVars
    <2>2. QueuesInv' /\ LoadInv'
      <3>1. QueuesInv'
        BY <2>1 DEF QueuesInv
      <3>2. QED
        BY <2>1, <3>1, LoadWaits
    <2>3. OnlySwapsLose'
      <3>1. In(pending) \subseteq exposed
        BY <2>1 DEF QueuesInv
      <3>2. Queued' = In(retry) \cup In(<<>>) /\ InHand' = InHand
        BY <2>1 DEF Queued, In, InHand
      <3>3. QED
        BY <2>1, <3>1, <3>2, QueuedInBoth DEF OnlySwapsLose
    <2>4. QED
      BY <2>2, <2>3
  <1>12. QED
    BY <1>1, <1>2, <1>3, <1>4, <1>5, <1>6, <1>7, <1>8, <1>9, <1>10, <1>11 DEF ManagerNext

(* An evaluation under way began not long ago, and the time of the last    *)
(* action is not much older than the decisions that are carried out.       *)
ScalerInv ==
  /\ scaleTime \in Nat /\ lastScale \in Int /\ decided \in [Evaluator -> Int]
  /\ evaluating = [e \in Evaluator |-> evaluating[e]]
  /\ \A e \in Evaluator :
       /\ decided[e] <= scaleTime
       /\ evaluating[e] # "no" => scaleTime <= decided[e] + MaxEvaluation
       /\ evaluating[e] = "no" => decided[e] <= lastScale + MaxEvaluation

(* The scaler keeps it.                                                    *)
LEMMA ScalerStep ==
  ASSUME ScalerInv, ScalerNext
  PROVE  ScalerInv'
PROOF
  <1> USE ManagerAssumption
  <1>1. ASSUME NEW e \in Evaluator, Evaluate(e) PROVE ScalerInv'
    <2>1. /\ decided' = [decided EXCEPT ![e] = scaleTime] /\ UNCHANGED <<lastScale, scaleTime>>
          /\ \E decision \in {"up", "down"} : evaluating' = [evaluating EXCEPT ![e] = decision]
      BY <1>1 DEF Evaluate
    <2>2. evaluating'[e] # "no" /\ \A f \in Evaluator : f # e => evaluating'[f] = evaluating[f]
      BY <2>1 DEF ScalerInv
    <2>3. evaluating' = [f \in Evaluator |-> evaluating'[f]]
      BY <2>1 DEF ScalerInv
    <2>4. QED
      BY <2>1, <2>2, <2>3 DEF ScalerInv
  <1>2. ASSUME NEW e \in Evaluator, Scale(e) PROVE ScalerInv'
    <2>1. /\ evaluating[e] # "no" /\ lastScale' = decided[e] /\ UNCHANGED <<scaleTime, decided>>
          /\ evaluating' = [evaluating EXCEPT ![e] = "no"]
      BY <1>2 DEF Scale, Recorded
    <2>2. evaluating'[e] = "no" /\ \A f \in Evaluator : f # e => evaluating'[f] = evaluating[f]
      BY <2>1 DEF ScalerInv
    <2>3. evaluating' = [f \in Evaluator |-> evaluating'[f]]
      BY <2>1 DEF ScalerInv
    <2>4. \A f \in Evaluator : decided[f] <= decided[e] + MaxEvaluation
      BY <2>1 DEF ScalerInv
    <2>5. QED
      BY <2>1, <2>2, <2>3, <2>4 DEF ScalerInv
  <1>3. CASE ScaleTimePasses
    <2>1. /\ scaleTime' = scaleTime + 1 /\ UNCHANGED <<lastScale, evaluating, decided>>
          /\ \A e \in Evaluator : evaluating[e] # "no" => scaleTime - decided[e] < MaxEvaluation
      BY <1>3 DEF ScaleTimePasses
    <2>2. QED
      BY <2>1 DEF ScalerInv
  <1>4. QED
    BY <1>1, <1>2, <1>3 DEF ScalerNext

(* However calls, releases and drains overlap: what runs is counted,       *)
(* unless it was assigned between the two halves of a release; what is     *)
(* queued is kept, unless it was queued between the last look of a drain   *)
(* and its swap; and no thread scales twice in a cooldown: for any nodes,  *)
(* workloads, callers and threads of the scaler (resource_manager.py,      *)
(* schedule, drain_pending, release_workload, evaluate).                   *)
THEOREM WorkStaysAccounted == ManagerSpec => []WorkIsAccounted
PROOF
  <1> DEFINE Inv == ManagerInv /\ ScalerInv
  <1>1. ManagerInit /\ ScalerInit => Inv
    <2> SUFFICES ASSUME ManagerInit, ScalerInit PROVE Inv
      OBVIOUS
    <2> USE ManagerAssumption
    <2>1. QueuesInv
      BY DEF ManagerInit, QueuesInv
    <2>2. \A n \in Node : On(n) = {}
      BY DEF On, ManagerInit
    <2>3. LoadInv
      <3>1. \A n \in Node : Cardinality(On(n)) = 0
        BY <2>2, FS_EmptySet
      <3>2. \A c \in Caller : chosen[c] = Idle /\ lowering[c] = Idle
        BY DEF ManagerInit
      <3>3. AllCounted
        BY <3>1, <3>2 DEF ManagerInit, AllCounted, Counted
      <3>4. QED
        BY <3>2, <3>3 DEF ManagerInit, LoadInv, CallsInv
    <2>4. OnlySwapsLose
      BY DEF ManagerInit, OnlySwapsLose
    <2>5. ScalerInv
      BY DEF ScalerInit, ScalerInv
    <2>6. QED
      BY <2>1, <2>3, <2>4, <2>5 DEF ManagerInv
  <1>2. Inv /\ [(ManagerNext /\ UNCHANGED scalerVars) \/ ScalerNext]_<<managerVars, scalerVars>> => Inv'
    <2> SUFFICES ASSUME Inv, [(ManagerNext /\ UNCHANGED scalerVars) \/ ScalerNext]_<<managerVars, scalerVars>>
                 PROVE  Inv'
      OBVIOUS
    <2>1. ASSUME UNCHANGED scalerVars PROVE ScalerInv'
      BY <2>1 DEF scalerVars, ScalerInv
    <2>2. ASSUME UNCHANGED managerVars PROVE ManagerInv'
      <3>1. /\ UNCHANGED <<pending, retry, drain, exposed, submitted, answered>>
            /\ UNCHANGED <<load, scheduled, chosen, lowering, overwritten>>
        BY <2>2 DEF managerVars, nodeVars, queueVars, callVars
      <3>2. QED
        BY <3>1, LoadWaits DEF ManagerInv, QueuesInv, In, OnlySwapsLose, Queued, InHand
    <2>3. CASE ManagerNext /\ UNCHANGED scalerVars
      BY <2>1, <2>3, ManagerStep
    <2>4. CASE ScalerNext
      <3>1. UNCHANGED managerVars
        BY <2>4 DEF ScalerNext, Evaluate, Scale, ScaleTimePasses
      <3>2. QED
        BY <2>2, <2>4, <3>1, ScalerStep
    <2>5. CASE UNCHANGED <<managerVars, scalerVars>>
      BY <2>1, <2>2, <2>5
    <2>6. QED
      BY <2>3, <2>4, <2>5
  <1>3. Inv => WorkIsAccounted
    <2> SUFFICES ASSUME Inv PROVE WorkIsAccounted
      OBVIOUS
    <2>1. OnlyReleasesMiscount
      BY DEF ManagerInv, LoadInv, AllCounted, Counted, OnlyReleasesMiscount
    <2>2. ThreadsRest
      BY ManagerAssumption DEF ScalerInv, ThreadsRest, Rested
    <2>3. QED
      BY <2>1, <2>2 DEF ManagerInv, WorkIsAccounted
  <1>4. QED
    BY <1>1, <1>2, <1>3, PTL DEF ManagerSpec

-----------------------------------------------------------------------------
(* The delay predictor.  A train's rank is the number of trains before it; *)
(* ranks are as different as the trains, so the n-th of the sorted list is *)
(* the one with n - 1 before it.                                           *)
Call == [km : Nat, delay : Nat]

Preceding(trains, t) == {u \in DOMAIN trains : ComesBefore(trains, u, t)}

LEMMA CallIsFinite ==
  ASSUME NEW D, D \subseteq ToSet(GraphTrain)
  PROVE  /\ IsFiniteSet(D) /\ Cardinality(D) \in Nat
         /\ \A t \in D : GivenAs(t) \in Nat
         /\ \A t, u \in D : GivenAs(t) = GivenAs(u) => t = u
PROOF
  <1> USE GraphAssumption
  <1>1. DOMAIN GraphTrain = 1..Len(GraphTrain) /\ Len(GraphTrain) \in Nat
    OBVIOUS
  <1>2. IsFiniteSet(DOMAIN GraphTrain)
    BY <1>1, FS_Interval
  <1>3. ToSet(GraphTrain) = {GraphTrain[i] : i \in DOMAIN GraphTrain}
    BY DEF ToSet
  <1>4. IsFiniteSet(ToSet(GraphTrain))
    <2>1. GraphTrain \in Surjection(DOMAIN GraphTrain, ToSet(GraphTrain))
      BY <1>3 DEF Surjection
    <2>2. QED
      BY <1>2, <2>1, FS_Surjection
  <1>5. IsFiniteSet(D) /\ Cardinality(D) \in Nat
    BY <1>4, FS_Subset, FS_CardinalityType
  <1>6. \A t \in D : GivenAs(t) \in DOMAIN GraphTrain /\ GraphTrain[GivenAs(t)] = t
    BY <1>3 DEF GivenAs
  <1>7. QED
    BY <1>1, <1>5, <1>6

LEMMA OrderIsTotal ==
  ASSUME NEW trains, trains \in [DOMAIN trains -> Call], DOMAIN trains \subseteq ToSet(GraphTrain)
  PROVE  /\ \A t \in DOMAIN trains : ~ComesBefore(trains, t, t)
         /\ \A t, u \in DOMAIN trains : t = u \/ ComesBefore(trains, t, u) \/ ComesBefore(trains, u, t)
         /\ \A t, u, v \in DOMAIN trains :
              ComesBefore(trains, t, u) /\ ComesBefore(trains, u, v) => ComesBefore(trains, t, v)
PROOF
  <1>1. \A t \in DOMAIN trains : trains[t].km \in Nat /\ GivenAs(t) \in Nat
    BY CallIsFinite DEF Call
  <1>2. \A t, u \in DOMAIN trains : GivenAs(t) = GivenAs(u) => t = u
    BY CallIsFinite
  <1>3. QED
    BY <1>1, <1>2 DEF ComesBefore

LEMMA RanksDiffer ==
  ASSUME NEW trains, trains \in [DOMAIN trains -> Call], DOMAIN trains \subseteq ToSet(GraphTrain)
  PROVE  /\ \A t \in DOMAIN trains : Rank(trains, t) \in Nat /\ Rank(trains, t) < Cardinality(DOMAIN trains)
         /\ \A t, u \in DOMAIN trains : ComesBefore(trains, t, u) => Rank(trains, t) < Rank(trains, u)
         /\ \A t, u \in DOMAIN trains : Rank(trains, t) = Rank(trains, u) => t = u
PROOF
  <1> DEFINE D == DOMAIN trains
             P(t) == Preceding(trains, t)
  <1>1. IsFiniteSet(D) /\ Cardinality(D) \in Nat
    BY CallIsFinite
  <1>2. \A t \in D : Rank(trains, t) = Cardinality(P(t)) /\ P(t) \subseteq D /\ t \notin P(t)
    BY OrderIsTotal DEF Rank, Preceding
  <1>3. \A S \in SUBSET D : IsFiniteSet(S) /\ Cardinality(S) \in Nat
    BY <1>1, FS_Subset, FS_CardinalityType
  <1>4. ASSUME NEW S \in SUBSET D, NEW t \in S PROVE Cardinality(S \ {t}) < Cardinality(S)
    BY <1>3, FS_RemoveElement
  <1>5. ASSUME NEW S \in SUBSET D, NEW T \in SUBSET S, NEW t \in S, t \notin T
        PROVE  Cardinality(T) < Cardinality(S)
    <2>1. T \subseteq S \ {t} /\ S \ {t} \in SUBSET D /\ T \in SUBSET D
      BY <1>5
    <2>2. Cardinality(T) <= Cardinality(S \ {t})
      BY <1>3, <2>1, FS_Subset
    <2>3. Cardinality(S \ {t}) < Cardinality(S)
      BY <1>4
    <2>4. Cardinality(T) \in Nat /\ Cardinality(S) \in Nat /\ Cardinality(S \ {t}) \in Nat
      BY <1>3, <2>1
    <2>5. QED
      BY <2>2, <2>3, <2>4
  <1>6. ASSUME NEW t \in D PROVE Rank(trains, t) \in Nat /\ Rank(trains, t) < Cardinality(D)
    BY <1>2, <1>3, <1>5
  <1>7. ASSUME NEW t \in D, NEW u \in D, ComesBefore(trains, t, u)
        PROVE  Rank(trains, t) < Rank(trains, u)
    <2>1. t \in P(u) /\ P(t) \subseteq P(u)
      BY <1>7, OrderIsTotal DEF Preceding
    <2>2. QED
      BY <1>2, <1>5, <2>1
  <1>8. ASSUME NEW t \in D, NEW u \in D, Rank(trains, t) = Rank(trains, u) PROVE t = u
    BY <1>6, <1>7, <1>8, OrderIsTotal
  <1>9. QED
    BY <1>6, <1>7, <1>8

(* A train with no third one between it and the next has one fewer before. *)
LEMMA NeighboursAreNumbered ==
  ASSUME NEW trains, trains \in [DOMAIN trains -> Call], DOMAIN trains \subseteq ToSet(GraphTrain),
         NEW t \in DOMAIN trains, NEW u \in DOMAIN trains, ComesBefore(trains, t, u),
         \A v \in DOMAIN trains \ {t, u} : ComesBefore(trains, v, t) \/ ComesBefore(trains, u, v)
  PROVE  Rank(trains, u) = Rank(trains, t) + 1
PROOF
  <1>1. t \notin Preceding(trains, t) /\ Preceding(trains, u) = Preceding(trains, t) \cup {t}
    BY OrderIsTotal DEF Preceding
  <1>2. IsFiniteSet(Preceding(trains, t))
    BY CallIsFinite, FS_Subset DEF Preceding
  <1>3. Cardinality(Preceding(trains, u)) = Cardinality(Preceding(trains, t)) + 1
    BY <1>1, <1>2, FS_AddElement
  <1>4. QED
    BY <1>3 DEF Rank, Preceding

(* Different numbers below their count are all the numbers below it.       *)
LEMMA EveryRankIsTaken ==
  ASSUME NEW trains, trains \in [DOMAIN trains -> Call], DOMAIN trains \subseteq ToSet(GraphTrain),
         NEW i \in 1..Cardinality(DOMAIN trains)
  PROVE  \E t \in DOMAIN trains : Rank(trains, t) = i - 1
PROOF
  <1> DEFINE D == DOMAIN trains
             n == Cardinality(D)
             f == [t \in D |-> Rank(trains, t) + 1]
  <1>1. IsFiniteSet(D) /\ n \in Nat
    BY CallIsFinite
  <1>2. f \in Injection(D, 1..n)
    BY <1>1, RanksDiffer DEF Injection, IsInjective
  <1>3. ASSUME NEW m \in Nat PROVE IsFiniteSet(1..m) /\ Cardinality(1..m) = m
    BY FS_Interval
  <1>4. f \in Surjection(D, 1..n)
    BY <1>1, <1>2, <1>3, FS_Injection
  <1>5. PICK t \in D : f[t] = i
    BY <1>4 DEF Surjection
  <1>6. Rank(trains, t) + 1 = i /\ Rank(trains, t) \in Nat
    BY <1>5, RanksDiffer
  <1>7. QED
    BY <1>1, <1>6

LEMMA SortedIsSequence ==
  ASSUME NEW trains, trains \in [DOMAIN trains -> Call], DOMAIN trains \subseteq ToSet(GraphTrain)
  PROVE  /\ Len(Sorted(trains)) = Cardinality(DOMAIN trains)
         /\ \A i \in 1..Cardinality(DOMAIN trains) :
              /\ Sorted(trains)[i] \in DOMAIN trains
              /\ Rank(trains, Sorted(trains)[i]) = i - 1
         /\ \A t \in DOMAIN trains : Sorted(trains)[Rank(trains, t) + 1] = t
PROOF
  <1> DEFINE n == Cardinality(DOMAIN trains)
             list == Sorted(trains)
  <1>1. n \in Nat
    BY CallIsFinite
  <1>2. list = [i \in 1..n |-> CHOOSE t \in DOMAIN trains : Rank(trains, t) = i - 1]
    BY DEF Sorted
  <1>3. Len(list) = n
    <2>1. list \in [1..n -> {list[i] : i \in 1..n}]
      BY <1>2
    <2>2. list \in Seq({list[i] : i \in 1..n}) /\ DOMAIN list = 1..n
      BY <1>1, <1>2, <2>1, SeqDef
    <2>3. QED
      BY <1>1, <2>2, LenProperties
  <1>4. \A t \in DOMAIN trains : Rank(trains, t) + 1 \in 1..n /\ Rank(trains, t) \in Nat
    BY <1>1, RanksDiffer
  <1>5. \A i \in 1..n : \E t \in DOMAIN trains : Rank(trains, t) = i - 1
    BY <1>4, EveryRankIsTaken
  <1>6. \A i \in 1..n : list[i] \in DOMAIN trains /\ Rank(trains, list[i]) = i - 1
    <2> TAKE i \in 1..n
    <2>1. list[i] = CHOOSE t \in DOMAIN trains : Rank(trains, t) = i - 1
      BY <1>2
    <2>2. QED
      BY <1>5, <2>1
  <1>7. ASSUME NEW t \in DOMAIN trains PROVE list[Rank(trains, t) + 1] = t
    <2>1. Rank(trains, t) + 1 \in 1..n /\ Rank(trains, t) \in Nat
      BY <1>4
    <2>2. list[Rank(trains, t) + 1] \in DOMAIN trains
      BY <1>6, <2>1
    <2>3. Rank(trains, list[Rank(trains, t) + 1]) = Rank(trains, t) + 1 - 1
      BY <1>6, <2>1
    <2>4. Rank(trains, list[Rank(trains, t) + 1]) = Rank(trains, t)
      BY <2>1, <2>3
    <2>5. QED
      BY <2>2, <2>4, RanksDiffer
  <1>8. QED
    BY <1>3, <1>6, <1>7

(* Two trains are joined by an edge when they are neighbours in the list   *)
(* and less than 10 km apart; it is such edges that a prediction reads.    *)
Joins(trains, t, u) ==
  /\ Rank(trains, u) = Rank(trains, t) + 1
  /\ trains[t].km < trains[u].km /\ trains[u].km - trains[t].km < 10

LEMMA FollowsJoins ==
  ASSUME NEW trains, trains \in [DOMAIN trains -> Call], DOMAIN trains \subseteq ToSet(GraphTrain),
         NEW t \in DOMAIN trains, NEW u \in DOMAIN trains
  PROVE  <<t, u>> \in Follows(trains) <=> Joins(trains, t, u)
PROOF
  <1> DEFINE n == Cardinality(DOMAIN trains)
             list == Sorted(trains)
             Gap(i) == trains[list[i]].km - trains[list[i - 1]].km
             Near == {i \in 2..n : 0 < Gap(i) /\ Gap(i) < 10}
  <1>1. n \in Nat
    BY CallIsFinite
  <1>2. Len(list) = n
    BY SortedIsSequence
  <1>3. Follows(trains) = {<<list[i - 1], list[i]>> : i \in Near}
    BY <1>2 DEF Follows
  <1>4. trains[t].km \in Nat /\ trains[u].km \in Nat
    BY DEF Call
  <1>5. ASSUME NEW i \in Near, list[i - 1] = t, list[i] = u PROVE Joins(trains, t, u)
    <2>1. i \in 1..n /\ i - 1 \in 1..n
      BY <1>1
    <2>2. Rank(trains, u) = i - 1 /\ Rank(trains, t) = i - 1 - 1
      BY <1>5, <2>1, SortedIsSequence
    <2>3. 0 < trains[u].km - trains[t].km /\ trains[u].km - trains[t].km < 10
      BY <1>5
    <2>4. QED
      BY <1>1, <1>4, <2>2, <2>3 DEF Joins
  <1>6. ASSUME Joins(trains, t, u) PROVE \E i \in Near : list[i - 1] = t /\ list[i] = u
    <2> DEFINE j == Rank(trains, u) + 1
    <2>1. Rank(trains, t) \in Nat /\ Rank(trains, u) \in Nat /\ Rank(trains, u) < n
      BY RanksDiffer
    <2>2. j \in 2..n /\ j - 1 = Rank(trains, t) + 1
      BY <1>1, <1>6, <2>1 DEF Joins
    <2>3. list[j] = u /\ list[Rank(trains, t) + 1] = t
      BY SortedIsSequence
    <2>4. list[j - 1] = t
      BY <2>2, <2>3
    <2>5. 0 < trains[u].km - trains[t].km /\ trains[u].km - trains[t].km < 10
      BY <1>4, <1>6 DEF Joins
    <2>6. Gap(j) = trains[u].km - trains[t].km
      BY <2>3, <2>4
    <2>7. j \in Near
      BY <2>2, <2>5, <2>6
    <2>8. QED
      BY <2>3, <2>4, <2>7
  <1>7. <<t, u>> \in Follows(trains) <=> \E i \in Near : list[i - 1] = t /\ list[i] = u
    BY <1>3
  <1>8. QED
    BY <1>5, <1>6, <1>7

LEMMA AffectedAreAhead ==
  ASSUME NEW trains, NEW a, NEW b, NEW bad
  PROVE  b \in Predict(a, trains, Edges(trains), bad).affected <=> <<a, b>> \in Follows(trains)
PROOF
  <1> DEFINE es == Edges(trains)
             told == {e[3] : e \in {x \in es : x[2] = "follows" /\ x[1] = a}}
  <1>1. Predict(a, trains, es, bad).affected = told
    BY DEF Predict
  <1>2. \A f \in Follows(trains) : f = <<f[1], f[2]>>
    BY DEF Follows
  <1> DEFINE runs == UNION {{<<t, "runs_on", s>> : s \in RunsOn(trains[t].km)} : t \in DOMAIN trains}
             stops == UNION {{<<t, "stops_at", k>> : k \in StopsAt(trains[t].km)} : t \in DOMAIN trains}
             links == {<<f[1], "follows", f[2]>> : f \in Follows(trains)}
  <1>3. es = runs \cup stops \cup links
    BY DEF Edges
  <1>4. (\A e \in runs : e[2] = "runs_on") /\ (\A e \in stops : e[2] = "stops_at")
    OBVIOUS
  <1>5. ASSUME NEW e \in es, e[2] = "follows"
        PROVE  \E f \in Follows(trains) : e = <<f[1], "follows", f[2]>>
    <2>1. e \in links
      BY <1>3, <1>4, <1>5
    <2>2. QED
      BY <2>1
  <1>6. \A f \in Follows(trains) : <<f[1], "follows", f[2]>> \in es
    BY <1>3
  <1>7. b \in told => <<a, b>> \in Follows(trains)
    BY <1>2, <1>5
  <1>8. ASSUME <<a, b>> \in Follows(trains) PROVE b \in told
    <2>1. <<a, "follows", b>> \in es
      BY <1>6, <1>8
    <2>2. QED
      BY <2>1
  <1>9. QED
    BY <1>1, <1>7, <1>8

(* A station belongs to the segment that ends there, and kilometre 0 to    *)
(* the first one: so a train counts once.                                  *)
LEMMA SegmentOfAPlace ==
  ASSUME NEW km \in Nat, NEW s \in SegmentIndex
  PROVE  s \in RunsOn(km) <=>
           \/ CorridorSegments[s][1] < km /\ km <= CorridorSegments[s][2]
           \/ s = 1 /\ km = 0
PROOF
  <1>1. SegmentIndex = 1..5
    BY DEF SegmentIndex, CorridorSegments
  <1>2. /\ LiesOn(km, 1) <=> 0 <= km /\ km <= 14
        /\ LiesOn(km, 2) <=> 14 <= km /\ km <= 27
        /\ LiesOn(km, 3) <=> 27 <= km /\ km <= 43
        /\ LiesOn(km, 4) <=> 43 <= km /\ km <= 54
        /\ LiesOn(km, 5) <=> 54 <= km /\ km <= 72
    BY DEF LiesOn, CorridorSegments
  <1>3. s \in RunsOn(km) <=> LiesOn(km, s) /\ \A r \in 1..5 : LiesOn(km, r) => s <= r
    BY <1>1 DEF RunsOn
  <1>4. (\A r \in 1..5 : LiesOn(km, r) => s <= r) <=>
          /\ LiesOn(km, 1) => s <= 1
          /\ LiesOn(km, 2) => s <= 2
          /\ LiesOn(km, 3) => s <= 3
          /\ LiesOn(km, 4) => s <= 4
          /\ LiesOn(km, 5) => s <= 5
    BY <1>1
  <1>5. s \in {1, 2, 3, 4, 5}
    BY <1>1
  <1> DEFINE Inside ==  \/ CorridorSegments[s][1] < km /\ km <= CorridorSegments[s][2]
                        \/ s = 1 /\ km = 0
  <1>6. CASE s = 1
    <2>1. Inside <=> km <= 14
      BY <1>6 DEF CorridorSegments
    <2>2. QED
      BY <1>2, <1>3, <1>4, <1>6, <2>1
  <1>7. CASE s = 2
    <2>1. Inside <=> 14 < km /\ km <= 27
      BY <1>7 DEF CorridorSegments
    <2>2. QED
      BY <1>2, <1>3, <1>4, <1>7, <2>1
  <1>8. CASE s = 3
    <2>1. Inside <=> 27 < km /\ km <= 43
      BY <1>8 DEF CorridorSegments
    <2>2. QED
      BY <1>2, <1>3, <1>4, <1>8, <2>1
  <1>9. CASE s = 4
    <2>1. Inside <=> 43 < km /\ km <= 54
      BY <1>9 DEF CorridorSegments
    <2>2. QED
      BY <1>2, <1>3, <1>4, <1>9, <2>1
  <1>10. CASE s = 5
    <2>1. Inside <=> 54 < km /\ km <= 72
      BY <1>10 DEF CorridorSegments
    <2>2. QED
      BY <1>2, <1>3, <1>4, <1>10, <2>1
  <1>11. QED
    BY <1>5, <1>6, <1>7, <1>8, <1>9, <1>10

(* A defect that reaches over a whole segment would be longer than it.     *)
LEMMA EndsAreFound ==
  ASSUME NEW start \in Nat, NEW end \in Nat, start <= end, end - start <= 11, NEW s \in SegmentIndex,
         CorridorSegments[s][1] <= end, start <= CorridorSegments[s][2]
  PROVE  LiesOn(start, s) \/ LiesOn(end, s)
PROOF
  <1>1. s \in {1, 2, 3, 4, 5}
    BY DEF SegmentIndex, CorridorSegments
  <1>2. /\ CorridorSegments[s][1] \in Nat /\ CorridorSegments[s][2] \in Nat
        /\ CorridorSegments[s][2] - CorridorSegments[s][1] >= 11
    BY <1>1 DEF CorridorSegments
  <1>3. QED
    BY <1>2 DEF LiesOn

-----------------------------------------------------------------------------
GraphInv ==
  /\ DOMAIN given \subseteq ToSet(GraphTrain) /\ given \in [DOMAIN given -> Call]
  /\ edges = Edges(given) /\ occupancy = Occupancy(given) /\ defective = Defective(defects)
  /\ predictions = [t \in DOMAIN given |-> Predict(t, given, Edges(given), Defective(defects))]
  /\ \A d \in defects : d.start \in Nat /\ d.end \in Nat /\ d.start <= d.end /\ d.end - d.start <= 11

LEMMA GraphInvMeans == GraphInv => GraphIsTheCorridor
PROOF
  <1> SUFFICES ASSUME GraphInv PROVE GraphIsTheCorridor
    OBVIOUS
  <1> DEFINE D == DOMAIN given
  <1>1. D \subseteq ToSet(GraphTrain) /\ given \in [D -> Call]
    BY DEF GraphInv
  <1>2. \A t \in D : given[t].km \in Nat
    BY <1>1 DEF Call
  <1>3. ASSUME NEW s \in SegmentIndex
        PROVE  occupancy[s] = Cardinality({t \in D :
                 \/ CorridorSegments[s][1] < given[t].km /\ given[t].km <= CorridorSegments[s][2]
                 \/ s = 1 /\ given[t].km = 0})
    <2>1. occupancy[s] = Cardinality({t \in D : s \in RunsOn(given[t].km)})
      BY DEF GraphInv, Occupancy
    <2>2. \A t \in D : s \in RunsOn(given[t].km) <=>
                 \/ CorridorSegments[s][1] < given[t].km /\ given[t].km <= CorridorSegments[s][2]
                 \/ s = 1 /\ given[t].km = 0
      BY <1>2, SegmentOfAPlace
    <2>3. {t \in D : s \in RunsOn(given[t].km)} = {t \in D :
                 \/ CorridorSegments[s][1] < given[t].km /\ given[t].km <= CorridorSegments[s][2]
                 \/ s = 1 /\ given[t].km = 0}
      BY <2>2
    <2>4. QED
      BY <2>1, <2>3
  <1>4. ASSUME NEW t \in D, NEW u \in D PROVE u \in predictions[t].affected <=> Joins(given, t, u)
    <2>1. predictions[t] = Predict(t, given, Edges(given), Defective(defects))
      BY DEF GraphInv
    <2>2. QED
      BY <1>1, <2>1, AffectedAreAhead, FollowsJoins
  <1>5. ASSUME NEW t \in D, NEW u \in D, given[t].km < given[u].km, given[u].km - given[t].km < 10,
               \A v \in D \ {t, u} : given[v].km < given[t].km \/ given[u].km < given[v].km
        PROVE  Joins(given, t, u)
    <2>1. ComesBefore(given, t, u)
      BY <1>5 DEF ComesBefore
    <2>2. \A v \in D \ {t, u} : ComesBefore(given, v, t) \/ ComesBefore(given, u, v)
      BY <1>5 DEF ComesBefore
    <2>3. QED
      BY <1>1, <1>5, <2>1, <2>2, NeighboursAreNumbered DEF Joins
  <1>6. ASSUME NEW s \in SegmentIndex, NEW d \in defects,
               CorridorSegments[s][1] <= d.end, d.start <= CorridorSegments[s][2]
        PROVE  s \in defective
    <2>1. LiesOn(d.start, s) \/ LiesOn(d.end, s)
      BY <1>6, EndsAreFound DEF GraphInv
    <2>2. QED
      BY <2>1 DEF GraphInv, Defective
  <1>7. ASSUME NEW t \in D, NEW u \in D, u \in predictions[t].affected
        PROVE  given[t].km < given[u].km /\ given[u].km - given[t].km < 10
    BY <1>4, <1>7 DEF Joins
  <1>8. QED
    BY <1>3, <1>4, <1>5, <1>6, <1>7 DEF GraphIsTheCorridor

(* A prediction tells of the corridor as it was given: whoever stands in a *)
(* segment is counted there once, whoever is next ahead within 10 km is    *)
(* affected and nobody else, and every segment with a defect is known, if  *)
(* no defect is longer than the shortest segment.                          *)
THEOREM GraphStaysTheCorridor ==
  ASSUME \A l \in DefectLength : l <= 11
  PROVE  GraphSpec => []GraphIsTheCorridor
PROOF
  <1> USE GraphAssumption
  <1>1. GraphInit => GraphInv
    <2> SUFFICES ASSUME GraphInit PROVE GraphInv
      OBVIOUS
    <2>1. given = <<>> /\ defects = {} /\ predictions = <<>> /\ DOMAIN given = {}
      BY DEF GraphInit
    <2>2. Follows(given) = {}
      <3> DEFINE list == Sorted(given)
      <3>1. given \in [DOMAIN given -> Call] /\ DOMAIN given \subseteq ToSet(GraphTrain)
        BY <2>1
      <3>2. Len(list) = 0
        BY <2>1, <3>1, SortedIsSequence, FS_EmptySet
      <3>3. 2..Len(list) = {}
        BY <3>2
      <3>4. QED
        BY <3>3 DEF Follows
    <2>3. edges = Edges(given)
      BY <2>1, <2>2 DEF GraphInit, Edges
    <2>4. occupancy = Occupancy(given)
      <3>1. \A s \in SegmentIndex : {t \in DOMAIN given : s \in RunsOn(given[t].km)} = {}
        BY <2>1
      <3>2. Occupancy(given) = [s \in SegmentIndex |-> 0]
        BY <3>1, FS_EmptySet DEF Occupancy
      <3>3. QED
        BY <3>2 DEF GraphInit
    <2>5. defective = Defective(defects)
      BY <2>1 DEF GraphInit, Defective
    <2>6. QED
      BY <2>1, <2>3, <2>4, <2>5 DEF GraphInv
  <1>2. GraphInv /\ [PredictDelays]_graphVars => GraphInv'
    <2> SUFFICES ASSUME GraphInv, [PredictDelays]_graphVars PROVE GraphInv'
      OBVIOUS
    <2>1. CASE PredictDelays
      <3>1. PICK ids \in SUBSET ToSet(GraphTrain) \ {{}}, start \in DefectStart, length \in DefectLength :
              \E trains \in [ids -> [km : TrainPlace, delay : DelayMin]] :
                 /\ given' = trains
                 /\ defects' \in {{}, {[start |-> start, end |-> start + length]}}
                 /\ edges' = Edges(trains)
                 /\ occupancy' = Occupancy(trains)
                 /\ defective' = Defective(defects')
                 /\ predictions' = [t \in ids |-> Predict(t, trains, edges', defective')]
                 /\ predictionCount' = predictionCount + Cardinality(ids)
        BY <2>1, Zenon DEF PredictDelays
      <3>2. PICK trains \in [ids -> [km : TrainPlace, delay : DelayMin]] :
                 /\ given' = trains
                 /\ defects' \in {{}, {[start |-> start, end |-> start + length]}}
                 /\ edges' = Edges(trains)
                 /\ occupancy' = Occupancy(trains)
                 /\ defective' = Defective(defects')
                 /\ predictions' = [t \in ids |-> Predict(t, trains, edges', defective')]
        BY <3>1
      <3>3. DOMAIN given' = ids /\ ids \subseteq ToSet(GraphTrain) /\ given' \in [ids -> Call]
        BY <3>2 DEF Call
      <3>4. start \in Nat /\ length \in Nat /\ length <= 11
        OBVIOUS
      <3>5. \A d \in defects' : d.start \in Nat /\ d.end \in Nat /\ d.start <= d.end /\ d.end - d.start <= 11
        BY <3>2, <3>4
      <3>6. predictions' = [t \in ids |-> Predict(t, given', Edges(given'), Defective(defects'))]
        BY <3>2
      <3>7. QED
        BY <3>2, <3>3, <3>5, <3>6 DEF GraphInv
    <2>2. CASE UNCHANGED graphVars
      BY <2>2 DEF graphVars, GraphInv
    <2>3. QED
      BY <2>1, <2>2
  <1>3. QED
    BY <1>1, <1>2, GraphInvMeans, PTL DEF GraphSpec

=============================================================================
