\* Writer: three messages, three attempts, two restarts.  Clock: six polls, a cooldown of
\* three.  Alerts: four places of two cells, a window of one or three.  Kavach: two trains.
\* Maintenance: windows of five rows, two of them, one end of the service.  Corridor: one
\* train at a time.  Latency: two requests of a chain of three.  Graph: three trains.
\* Authentication: one client, two background refreshes, keys that live for two seconds.
SPECIFICATION Spec
CONSTANTS
  MaxOffset = 3
  MaxAttempts = 3
  MaxRestarts = 2
  Cooldown = 3
  MaxPolls = 6
  Category = {speed}
  Place = {0, 1, 2, 3}
  SuppressionRadius = 2
  CellSize = 2
  SuppressionWindows <- MCWindows
  AdvisedAsset = {a1}
  MaxAlertTime = 5
  MaxShown = 3
  MaxSuppressed = 2
  Train <- MCTrain
  Speed = {0, 44444}
  Vibration <- MCVibration
  Humidity = {50, 90}
  AmbientTemp = {20, 45}
  Gradient = {0}
  MaxBrakingTime = 300
  Asset = {a1}
  Telemetry = {omrs}
  Filled = Filled
  WindowSize = 5
  MaxGap = 1
  InsufficientThreshold = 40
  Gap = {1, 2, 3, 7}
  MaxWindows = 2
  Probability = {5000, 8200, 9500}
  FailureThreshold = 8000
  Quantile = 1500
  MaxServiceEnds = 1
  Fleets <- MCFleets
  DwellTicks = {14, 40}
  DelayJump = {5}
  MaxDelay = 5
  Trace = {t1}
  SpanChain <- MCSpanChain
  StartTime = {0, 1, 3}
  Ttl = 1
  SlaThreshold = 1
  BodyTime = 1
  MaxRequests = 2
  MaxMonitorTime = 3
  GraphTrain <- MCGraphTrain
  TrainPlace = {0, 14, 15, 24, 40, 72}
  DelayMin = {0, 20}
  DefectStart = {12, 27, 38}
  DefectLength = {1, 4}
  MaxPredictions = 1
  Client = {c1}
  Refresher = {r1, r2}
  KeysTtl = 2
  Margin = 1
  FetchTime = 1
  AskedMethod = {"POST"}
  AskedPath = {"rollback", "acknowledge"}
  AskedRoles = {{"Engineering_Team"}, {"Security_Officer"}}
  MaxAuthTime = 5
INVARIANTS
  NothingDiscarded
  RepeatsAreSuppressed
  CapSparesGoodBrakes
  AdvisedOnMeasurements
  MeasuredTogether
  GraphIsTheCorridor
  ServedWithFreshKeys
PROPERTIES
  ClockIsReported
  TrainsKeepRunning
CHECK_DEADLOCK FALSE
