\* Sync: batches of two, a deque of three, five events, two failing sends and one
\* failing producer.  Correlation: two threads, a window of one unit of time.
\* Registry: two models of two versions, three places.  Batches of two requests.
\* Nodes: two of them, deques of one and two, two requests, a clock of four periods.
\* Zone: two stations, one of which registers twice, one silence each, two rounds.
SPECIFICATION Spec
CONSTANTS
  axle = axle
  wheel = wheel
  crack = crack
  flat = flat
  fast = fast
  q1 = q1
  q2 = q2
  BatchSize = 2
  Capacity = 3
  MaxEvents = 5
  MaxSendFailures = 2
  MaxInitFailures = 1
  Thread = {th1, th2}
  Flag <- MCFlag
  Batches <- MCBatches
  Window = 1
  MaxWindow = 3
  MaxWait = 1
  Model = {a, b}
  Version = {v1, v2}
  NoSwap = NoSwap
  MaxModels = 3
  Canary = 10
  Preloaded <- MCPreloaded
  Request = {fast, q1, q2}
  ModelOf <- MCModelOf
  Priority <- MCPriority
  MaxBatch = 2
  MaxResults = 2
  NoResult = NoResult
  Micro = {m1, m2}
  StaleAfter = 2
  HousekeepingPeriod = 1
  QueueLength <- MCQueueLength
  MaxTime = 4
  MaxAsked = 2
  Node = {n1, n2}
  Restarting = {n1}
  NoNode = NoNode
  Reported = {"HEALTHY"}
  MaxObjects = 2
  MaxSilences = 1
  MaxRounds = 2
  Excess = {{}, {"queue_depth"}}
  MaxViolations = 1
  MaxRollouts = 1
INVARIANTS
  SentInOrder
  NoneMissed
  LoadedIsServed
  ListedAreRecent
  RoundsAreWhole
PROPERTIES
  WaitingIsExecuted
  SilenceIsNoticed
CHECK_DEADLOCK FALSE
