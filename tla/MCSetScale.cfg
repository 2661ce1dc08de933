SPECIFICATION HPASpec
CONSTANTS
  MaxReplicas = 1
  Attempts = 2
  EnvLimit = 4
  MaxFaults = 1
  Level = 2
  Calls = {c1, c2}
  Passes = {}
INVARIANTS HPARespected
PROPERTIES SetIsConditional SetIsAtomic
SYMMETRY Symmetry
CHECK_DEADLOCK FALSE
