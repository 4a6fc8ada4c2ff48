\* NTES: two trains, three failures in a row.  Twin: three trains, two segments.
\* Streams: three frames of one sensor, with a body of none or two units of bytes.
\* Validator: four records, three failures of the job.
\* Isolator: two zones, two restorers.  Watchdog: two feeds, one Kafka outage.
SPECIFICATION Spec
CONSTANTS
  Api = Api
  Train = {t1, t2}
  Unknown = Unknown
  Source = {t1, t2, Unknown, Api}
  Threshold = 3
  Sensor = {s1}
  Unusable = Unusable
  StreamItself = StreamItself
  StreamThreshold = 2
  HeaderSize = 2
  BodySize = {0, 2}
  RecordSize = 3
  MaxFrames = 3
  MaxRecords = 4
  MaxFailures = 3
  TwinTrain = {p1, p2, p3}
  Segment = {single, double}
  NoSegment = NoSegment
  single = single
  double = double
  Capacity <- CapacityOfSegments
  Cleared = {p3}
  Zone = {north, south}
  ZoneThreshold = 3
  Restorer = {r1, r2}
  NotRestoring = NotRestoring
  MaxAlerts = 1
  Topic = {vibration, location}
  Timeout = 2
  MaxLate = 2
  MaxAge = 4
  MaxOutages = 1
INVARIANTS
  ReportedAfterThree
  FramesAreWhole
  ValidatedOnce
  WithinCapacity
  IsolationIsEarned
PROPERTIES
  LaterSilenceIsReported
CHECK_DEADLOCK FALSE
