\* Uploader: two overlapping passes, four events in three rows, batches of two,
\* one event rejected, failing requests.  Alerter: checks every minute, alerts at
\* most every five minutes.  Thermal: recovery after six samples, one may be late.
\* Store: two models of two versions, two crashes.  Hub: a buffer of four samples
\* that wraps.  Signal: two windows of eight samples, half of each overlapping.
SPECIFICATION Spec
CONSTANTS
  e1 = e1
  e2 = e2
  e3 = e3
  e4 = e4
  d1 = d1
  d2 = d2
  axle = axle
  temp = temp
  Event = {e1, e2, e3, e4}
  Timestamp <- MCTimestamp
  MaxRows = 3
  Rejected = {e1}
  Flaky = TRUE
  BatchSize = 2
  RetryCount = 2
  Drain = {d1, d2}
  RetryChecks = 5
  HasGateway = TRUE
  MaxUptime = 60
  Recovery = 6
  MaxGap = 2
  Never = Never
  StoredModel = {m1, m2}
  StoredVersion = {v1, v2}
  MaxCrashes = 2
  Channel = {axle, temp}
  Capacity = 4
  Window <- MCWindow
  MinWindow = 2
  FlatlineMin = 2
  BatchForwardSize = 2
  BatchSizes = {1, 2}
  MaxSample <- MCMaxSample
  WindowSize = 8
  Reading <- MCReading
  WaveletLevels = 4
  MaxWindows = 2
INVARIANTS
  WindowsAreRuns
  FeaturesAreOfTheWindow
  LoadedIsWhole
PROPERTIES
  ImplementsHandOver
  DeviceLoopsAreKept
CHECK_DEADLOCK FALSE
