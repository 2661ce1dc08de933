SPECIFICATION Spec
CONSTANTS
  MaxReplicas = 1
  Attempts = 2
  EnvLimit = 5
  MaxFaults = 0
  Level = 2
  Calls = {c1}
  Passes = {}
PROPERTIES ProtectedNotScaled
CHECK_DEADLOCK FALSE
