SPECIFICATION HPASpec
CONSTANTS
  MaxReplicas = 1
  Attempts = 2
  EnvLimit = 4
  MaxFaults = 0
  Level = 5
  Calls = {}
  Passes = {p1, p2}
INVARIANTS SafetyInv ReadyIsTrue HPARespected
PROPERTIES StatusMovesForward PassScalesSafely
SYMMETRY Symmetry
CHECK_DEADLOCK FALSE
