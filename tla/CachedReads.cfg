SPECIFICATION ReadSpec
CONSTANTS
  MaxReplicas = 1
  Attempts = 1
  EnvLimit = 4
  MaxFaults = 1
  Level = 5
  Calls = {c1}
  Pods = {s1}
INVARIANTS ReadInv
PROPERTIES NothingUnseenReplaced
CHECK_DEADLOCK FALSE
