SPECIFICATION RollSpec
CONSTANTS
  Old = {o1, o2}
  New = {n1, n2}
  ProbeTime = 1
  MinReady = 2
  Lag = 1
  SleepTime = 3
  StopTime = 3
  RequestTime = 2
  MaxLost = 1
INVARIANTS ListedAccepts SomebodyListed
PROPERTIES NothingCut
CHECK_DEADLOCK FALSE
SYMMETRY Symmetry
