\* Coordinator: three stations of which one may drift, three rounds, a budget of four
\* epsilons.  Manager: two nodes of one place each, two workloads, two callers
\* beside the drain.
\* Scaler: two threads, one to three replicas, eight units of time.
\* Scheduler: up to four trains, two base times of which the last runs past midnight.
SPECIFICATION Spec
CONSTANTS
  Station = {s1, s2, s3}
  Drifting = {s3}
  MinParticipants = 2
  MaxParticipants = 3
  Budget = 4
  NoRound = NoRound
  MaxRounds = 3
  Node = {n1, n2}
  Work = {w1, w2}
  NoNode = NoNode
  MaxConcurrent = 1
  Caller = {c1, c2}
  Renewed = {n2}
  MaxRetry = 2
  Evaluator = {e1, e2}
  MinReplicas = 1
  MaxReplicas = 3
  ScaleStep = 1
  ScaleCooldown = 3
  MaxEvaluation = 1
  MaxScaleTime = 8
  Class = {"Vande-Bharat", "Rajdhani", "Express", "Freight"}
  Priority <- TrainPriorities
  Speed <- TrainSpeeds
  Headway = 3
  BaseTime = {600, 1370}
  MaxTrains = 4
  Unblocked = 0
INVARIANTS
  WorkIsAccounted
  PlanIsConflictFree
  ShiftedKeepsHeadway
PROPERTIES
  RoundEndsWithoutDrift
  EveryRequestGetsAPlan
CHECK_DEADLOCK FALSE
