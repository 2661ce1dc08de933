SPECIFICATION FairReadSpec
CONSTANTS
  MaxReplicas = 1
  Attempts = 2
  EnvLimit = 4
  MaxFaults = 0
  Level = 5
  Calls = {c1}
  Pods = {s1}
PROPERTIES RefusalIsTemporary
CHECK_DEADLOCK FALSE
