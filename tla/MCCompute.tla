----------------------------- MODULE MCCompute ------------------------------
(***************************************************************************)
(* The computing services for TLC: the federated coordinator, the          *)
(* resource manager of a zone with its auto-scaler, and the scheduler.     *)
(* They share no variable, so TLC explores them one at a time.             *)
(***************************************************************************)
EXTENDS FederatedCoordinator, ResourceManager, Scheduler

VARIABLE part  \* the one that runs

vars == <<part, coordinatorVars, managerVars, scalerVars, schedulerVars>>

Coordinates(A) ==
  part = "coordinator" /\ A /\ UNCHANGED <<part, managerVars, scalerVars, schedulerVars>>
Manages(A) ==
  part = "manager" /\ A /\ UNCHANGED <<part, coordinatorVars, scalerVars, schedulerVars>>
Scales(A) ==
  part = "scaler" /\ A /\ UNCHANGED <<part, coordinatorVars, schedulerVars>>
Schedules(A) ==
  part = "scheduler" /\ A /\ UNCHANGED <<part, coordinatorVars, managerVars, scalerVars>>

Init ==
  /\ part \in {"coordinator", "manager", "scaler", "scheduler"}
  /\ CoordinatorInit /\ ManagerInit /\ ScalerInit /\ SchedulerInit

Next ==
  \/ Coordinates(CoordinatorNext) \/ Manages(ManagerNext) \/ Scales(ScalerNext)
  \/ Schedules(SchedulerNext)

(* The fairness of CoordinatorSpec and of SchedulerSpec.                   *)
Spec ==
  /\ Init /\ [][Next]_vars
  /\ \A s \in Station \ Drifting : WF_vars(Coordinates(SubmitAccepted(s)))
  /\ WF_vars(Schedules(Engine))
=============================================================================
