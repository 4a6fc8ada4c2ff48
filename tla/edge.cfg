\* Four events in a buffer of three rows, the two oldest never accepted, batches of
\* two: refused events may fill a batch with others behind it.  Two faults.
\* Time in units of 5/11 s: a window of 30 s, beats of 10 s or 15 s and a little more.
SPECIFICATION Spec
CONSTANTS
  e1 = e1
  e2 = e2
  e3 = e3
  e4 = e4
  Event = {e1, e2, e3, e4}
  Timestamp <- MCTimestamp
  MaxRows = 3
  Rejected = {e1, e2}
  BatchSize = 2
  MaxRetries = 2
  Window = 66
  RefusedBeat = 23
  TimedOutBeat = 34
  MaxFaults = 2
INVARIANTS
  DuplicatesAreExcused
PROPERTIES
  ImplementsHandOver
  OutageIsNoticed
  DrainDelivers
CHECK_DEADLOCK FALSE
