\* An outage ends, nothing else goes wrong.
SPECIFICATION Spec
CONSTANTS
  e1 = e1
  e2 = e2
  e3 = e3
  e4 = e4
  Event = {e1}
  Timestamp <- MCTimestamp
  MaxRows = 2
  Rejected = {}
  BatchSize = 2
  MaxRetries = 2
  Window = 66
  RefusedBeat = 23
  TimedOutBeat = 34
  MaxFaults = 0
PROPERTY ReturnsToConnected
CHECK_DEADLOCK FALSE
