SPECIFICATION FairSpec
CONSTANTS
  Keys = {k1, k2}
  Workers = {w1, w2}
  NoKey = NoKey
  Malformed = {k2}
  MaxRequeues = 1
  MaxWrites = 2
  MaxErrors = 2
INVARIANTS ControllerInv NoKeyForgotten
PROPERTIES EveryIntentApplied RunReturns
CHECK_DEADLOCK FALSE
