---------------------------- MODULE GateContract ----------------------------
(***************************************************************************)
(* What the authorization gate promises, without queue, locks, caches or   *)
(* clock: a submission is released only by enough approvals of controllers *)
(* its tier admits, is released at most once, and a rejected or replaced   *)
(* submission never is.  AuthorizationGate implements it.                  *)
(***************************************************************************)
EXTENDS Naturals, FiniteSets

CONSTANTS
  Request, Controller, Tier,
  Admits      \* <<controller, tier>>: the controller may decide that tier

VARIABLES tier, state, approvals, released

vars == <<tier, state, approvals, released>>

Init ==
  /\ tier = [r \in Request |-> 3]
  /\ state = [r \in Request |-> "absent"]
  /\ approvals = [r \in Request |-> {}]
  /\ released = {}

(* A new submission may take the place of a pending one.                   *)
Submit(r, t) ==
  /\ state[r] = "absent"
  /\ tier' = [tier EXCEPT ![r] = t]
  /\ \/ state' = [state EXCEPT ![r] = "pending"]
     \/ \E old \in Request :
          /\ state[old] = "pending"
          /\ state' = [state EXCEPT ![r] = "pending", ![old] = "replaced"]
  /\ UNCHANGED <<approvals, released>>

(* The first of two approvals leaves the submission pending.               *)
Endorse(r, c) ==
  /\ state[r] = "pending"
  /\ <<c, tier[r]>> \in Admits
  /\ tier[r] = 1
  /\ approvals[r] = {}
  /\ approvals' = [approvals EXCEPT ![r] = {c}]
  /\ UNCHANGED <<tier, state, released>>

(* The approval that suffices decides; the message itself may be lost.     *)
Authorize(r, c) ==
  /\ state[r] = "pending"
  /\ <<c, tier[r]>> \in Admits
  /\ tier[r] = 1 => \E d \in approvals[r] : d # c
  /\ approvals' = [approvals EXCEPT ![r] = @ \cup {c}]
  /\ state' = [state EXCEPT ![r] = "AUTHORIZE"]
  /\ released' \in {released, released \cup {r}}
  /\ UNCHANGED tier

Reject(r) ==
  /\ state[r] = "pending"
  /\ \E c \in Controller : <<c, tier[r]>> \in Admits
  /\ state' = [state EXCEPT ![r] = "REJECT"]
  /\ UNCHANGED <<tier, approvals, released>>

Next == \E r \in Request :
  \/ \E t \in Tier : Submit(r, t)
  \/ \E c \in Controller : Endorse(r, c) \/ Authorize(r, c)
  \/ Reject(r)

Spec == Init /\ [][Next]_vars
=============================================================================
