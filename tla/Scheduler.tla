----------------------------- MODULE Scheduler ------------------------------
(***************************************************************************)
(* The rescheduling engine of the MARL scheduler                           *)
(* (services/marl_scheduler/service/scheduler_service.py) with its         *)
(* conflict checker (constraints/conflict_checker.py): the affected        *)
(* trains, in the order of their priorities, are given a window of time on *)
(* each segment of the route, one after the other; a window that overlaps  *)
(* an occupied one is shifted until it is clear.  Times are minutes from   *)
(* midnight of the first day; every proposal is computed from nothing.     *)
(***************************************************************************)
EXTENDS Integers, Sequences

CONSTANTS
  Class,      \* the classes _get_train_class can return
  Priority,   \* TRAIN_PRIORITIES of each class, 1 is served first
  Speed,      \* TRAIN_SPEEDS of each class, km/h
  Headway,    \* MIN_HEADWAY_S // 60, minutes
  BaseTime,   \* the base times: a full ten minutes of an hour from 6 to 22
  MaxTrains,  \* bound: affected trains of a request
  Unblocked   \* no segment is skipped

(* TRAIN_PRIORITIES and TRAIN_SPEEDS, the values of Priority and Speed.     *)
TrainPriorities ==
  [c \in {"Rajdhani", "Shatabdi", "Vande-Bharat", "Duronto", "Garib-Rath", "Jan-Shatabdi",
          "Mail", "Express", "Passenger", "Freight"} |->
    CASE c \in {"Rajdhani", "Shatabdi", "Vande-Bharat"} -> 1
      [] c = "Duronto" -> 2
      [] c \in {"Garib-Rath", "Jan-Shatabdi"} -> 3
      [] c \in {"Mail", "Express"} -> 4
      [] c = "Passenger" -> 5
      [] c = "Freight" -> 6]

TrainSpeeds ==
  [c \in DOMAIN TrainPriorities |->
    CASE c = "Vande-Bharat" -> 160
      [] c \in {"Rajdhani", "Shatabdi"} -> 130
      [] c = "Duronto" -> 120
      [] c \in {"Garib-Rath", "Jan-Shatabdi"} -> 110
      [] c \in {"Mail", "Express"} -> 100
      [] c = "Passenger" -> 80
      [] c = "Freight" -> 60]

(* CORRIDOR_SEGMENTS, in the order of the line: length (km, 0 for a        *)
(* station), speed limit and platforms.                                    *)
Segment == 1..9
Length == <<14, 13, 0, 16, 0, 11, 0, 18, 0>>
MaxSpeed == <<80, 110, 100, 130, 100, 130, 100, 130, 100>>
Platforms == <<6, 0, 4, 0, 2, 0, 2, 0, 5>>

Larger(m, n) == IF m > n THEN m ELSE n
Smaller(m, n) == IF m < n THEN m ELSE n

(* Minutes on the segment for a train of the class.                        *)
Transit(s, c) ==
  IF Length[s] > 0 THEN Larger(1, (Length[s] * 60) \div Smaller(Speed[c], MaxSpeed[s]))
  ELSE 2

(* What the segment adds to the entry times of the segments after it: the  *)
(* speed limit is not looked at here, and a station counts one minute.     *)
Travel(s, c) == Larger(1, (Length[s] * 60) \div Speed[c])

ASSUME DataAssumption ==
  /\ Headway \in Nat /\ BaseTime \subseteq Nat /\ MaxTrains \in Nat
  /\ Unblocked \notin Segment
  /\ \A s \in Segment, c \in Class : Travel(s, c) \in Nat /\ Transit(s, c) \in Nat

(* A train is longer on every line segment than the headway.               *)
ASSUME HeadwayIsShort ==
  \A s \in Segment, c \in Class : Length[s] > 0 => Transit(s, c) > Headway

VARIABLES
  order,   \* trains_sorted: the classes of the trains
  route,   \* route_segments
  base,    \* base_hour * 60 + base_minute
  train,   \* idx + 1: the train that is placed
  leg,     \* seg_idx + 1: the segment of the route it is placed on
  ahead,   \* travel time to that segment
  shift,   \* conflict_shift
  plan,    \* occupied_slots and assignments: the windows given away
  outcome  \* of the request: none, placing, proposed or infeasible

schedulerVars == <<order, route, base, train, leg, ahead, shift, plan, outcome>>

-----------------------------------------------------------------------------

(* A sorted list: the sort is stable, so trains of one priority keep the   *)
(* order of the request.                                                   *)
Orders ==
  {o \in UNION {[1..n -> Class] : n \in 1..MaxTrains} :
     \A i, j \in DOMAIN o : i < j => Priority[o[i]] <= Priority[o[j]]}

(* _select_route_segments: the first five segments, without the blocked    *)
(* one.                                                                    *)
Route(blocked) ==
  [i \in 1..5 |-> IF blocked \in Segment /\ i >= blocked THEN i + 1 ELSE i]

(* Two windows overlap: the comparison of the scheduling loop, and of      *)
(* _assign_platform.                                                       *)
Overlap(a, b) == a.enter < b.exit /\ a.exit > b.enter

(* The window the loop looks at.  Only the entry to a line segment counts  *)
(* the travel time so far; the else branch of a station does not.          *)
Entry ==
  shift + base + IF Length[route[leg]] > 0
                 THEN (train - 1) * Larger(Headway, 3) + ahead
                 ELSE (train - 1) * 4

Window == [enter |-> Entry, exit |-> Entry + Transit(route[leg], order[train])]

Occupied == {a \in plan : a.segment = route[leg]}
Blocking == {a \in Occupied : Overlap(Window, a)}

(* _assign_platform: the first platform that is free in the window; if     *)
(* there is none, any.                                                     *)
PlatformsFor(w) ==
  LET all == 1..Platforms[route[leg]]
      free == {p \in all : \A a \in Occupied : a.platform = p => ~Overlap(w, a)}
  IN  IF all = {} THEN {0}
      ELSE IF free = {} THEN all
      ELSE {p \in free : \A q \in free : p <= q}

(* divmod and % 24: the time of day of the proposal, HH:MM:00.  The        *)
(* checker compares these strings, which order like the numbers.           *)
TimeOfDay_hour(t) == t % 60
TimeOfDay(t) == t % 1440

(* is_conflict_free of ConflictChecker.                                    *)
IsConflictFree ==
  \A a, b \in plan :
    a # b /\ a.segment = b.segment =>
      ~(Larger(TimeOfDay(a.enter), TimeOfDay(b.enter))
          < Smaller(TimeOfDay(a.exit), TimeOfDay(b.exit)))

-----------------------------------------------------------------------------

SchedulerInit ==
  /\ order = <<>> /\ route = <<>> /\ base = 0
  /\ train = 1 /\ leg = 1 /\ ahead = 0 /\ shift = 0 /\ plan = {}
  /\ outcome = "none"

(* propose(event): the head of _generate_proposal.  An event without an    *)
(* affectedSegment blocks none, whatever its type.                         *)
Propose ==
  /\ outcome = "none"
  /\ \E o \in Orders, blocked \in Segment \cup {Unblocked}, b \in BaseTime :
       order' = o /\ route' = Route(blocked) /\ base' = b
  /\ outcome' = "placing"
  /\ UNCHANGED <<train, leg, ahead, shift, plan>>

(* One turn of the shifting loop: past the last of the windows in the way, *)
(* and the headway.                                                        *)
NewEntry_bare(last) == last.exit
NewEntry(last) == last.exit + Headway

Shift ==
  /\ outcome = "placing" /\ train <= Len(order)
  /\ \E last \in Blocking :
       /\ \A a \in Blocking : a.exit <= last.exit
       /\ shift' = shift + NewEntry(last) - Entry
  /\ UNCHANGED <<order, route, base, train, leg, ahead, plan, outcome>>

(* The loop ends when no window is in the way any more; a single pass of   *)
(* it would be content with having shifted.                                *)
Clear_once == Blocking = {} \/ shift > 0
Clear == Blocking = {}

(* The break out of the loop, the platform, and the next segment or train. *)
Place ==
  /\ outcome = "placing" /\ train <= Len(order) /\ Clear
  /\ \E p \in PlatformsFor(Window) :
       plan' = plan \cup {[train |-> train, segment |-> route[leg], enter |-> Window.enter,
                           exit |-> Window.exit, platform |-> p, shifted |-> shift > 0]}
  /\ shift' = 0
  /\ IF leg < Len(route)
     THEN /\ leg' = leg + 1 /\ UNCHANGED train
          /\ ahead' = ahead + Travel(route[leg], order[train])
     ELSE leg' = 1 /\ train' = train + 1 /\ ahead' = 0
  /\ UNCHANGED <<order, route, base, outcome>>

(* assert_conflict_free, and the answer of propose: the proposal, or 408.  *)
Check ==
  /\ outcome = "placing" /\ train > Len(order)
  /\ outcome' = IF IsConflictFree THEN "proposed" ELSE "infeasible"
  /\ UNCHANGED <<order, route, base, train, leg, ahead, shift, plan>>

Engine == Shift \/ Place \/ Check

SchedulerNext == Propose \/ Engine

(* The engine is one synchronous call.                                     *)
SchedulerSpec == SchedulerInit /\ [][SchedulerNext]_schedulerVars /\ WF_schedulerVars(Engine)

-----------------------------------------------------------------------------

SchedulerTypeOK ==
  /\ order \in Seq(Class) /\ Len(order) <= MaxTrains /\ route \in Seq(Segment)
  /\ base \in BaseTime \cup {0} /\ train \in 1..(MaxTrains + 1) /\ leg \in 1..5
  /\ ahead \in Nat /\ shift \in Nat
  /\ plan \subseteq [train : Nat, segment : Segment, enter : Nat, exit : Nat, platform : Nat,
                     shifted : BOOLEAN]
  /\ outcome \in {"none", "placing", "proposed", "infeasible"}

(* Property 1 of the design: no two trains of a proposal are on one        *)
(* segment at overlapping times, in whatever order the windows were given  *)
(* away and however often a window was shifted.                            *)
PlanIsConflictFree ==
  \A a, b \in plan : a # b /\ a.segment = b.segment => ~Overlap(a, b)

(* A train that was shifted keeps the headway to every window before its   *)
(* own ("leaving at least the minimum headway after the preceding          *)
(* occupant"), though the loop adds it to the last window in the way only. *)
ShiftedKeepsHeadway ==
  \A a, b \in plan :
    a.segment = b.segment /\ a.shifted /\ b.train < a.train /\ b.exit <= a.enter =>
      a.enter - b.exit >= Headway

(* The shifting loop ends, and the checker, which sees times of day only   *)
(* and so windows that cross midnight, accepts every plan of the engine:   *)
(* every request is answered by a proposal.                                *)
EveryRequestGetsAPlan == (outcome = "placing") ~> (outcome = "proposed")

(* The checker, which compares times of day, rejects no plan of the engine *)
(* that ends within a day, on whichever side of midnight its windows are.  *)
RejectedPlansAreLong ==
  outcome = "infeasible" => \E a \in plan : a.exit >= base + 1440

(* "Enforce minimum headway (3 min) between consecutive trains": step 4 of *)
(* the docstring.  The code adds the headway only to a window that         *)
(* overlapped.                                                             *)
HeadwayIsKept ==
  \A a, b \in plan :
    a # b /\ a.segment = b.segment /\ a.exit <= b.enter => b.enter - a.exit >= Headway

(* "staggered by train index + cumulative transit": a train enters a       *)
(* segment when it has left the ones before it.  The code enters a station *)
(* without the transit, and does not carry a shift to the next segment.    *)
TrainsMoveAlong ==
  \A a, b \in plan : a.train = b.train /\ a.segment < b.segment => a.exit <= b.enter
=============================================================================
