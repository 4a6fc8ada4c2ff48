\* A workload is queued while the queue is drained.
SPECIFICATION ManagerSpec
CONSTANTS
  Node = {n1}
  Work = {w1, w2, w3}
  NoNode = NoNode
  MaxConcurrent = 1
  Caller = {c1}
  Renewed = {}
  MaxRetry = 1
  Evaluator = {}
  MinReplicas = 1
  MaxReplicas = 1
  ScaleStep = 1
  ScaleCooldown = 1
  MaxEvaluation = 1
  MaxScaleTime = 0
INVARIANT QueuedIsKept
CHECK_DEADLOCK FALSE
