\* Two trains of one class are enough.
SPECIFICATION SchedulerSpec
CONSTANTS
  Class = {"Express"}
  Priority <- TrainPriorities
  Speed <- TrainSpeeds
  Headway = 3
  BaseTime = {600}
  MaxTrains = 2
  Unblocked = 0
INVARIANT HeadwayIsKept
CHECK_DEADLOCK FALSE
