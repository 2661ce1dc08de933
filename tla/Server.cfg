SPECIFICATION Spec
CONSTANTS
  Period = 2
  Deadline = 1
  Fresh = 6
  SleepTime = 3
  StopTime = 2
  AdminTime = 1
  Capacity = 4
INVARIANTS ServerInv OutageIsSeen ExitsInTime
CHECK_DEADLOCK FALSE
