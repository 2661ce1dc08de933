SPECIFICATION FairSpec
CONSTANTS
  MaxReplicas = 1
  Attempts = 2
  EnvLimit = 3
  MaxFaults = 1
  Level = 5
  Calls = {}
  Passes = {p1, p2}
PROPERTIES EventuallyConverged EventuallyExplained
CHECK_DEADLOCK FALSE
