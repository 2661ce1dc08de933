SPECIFICATION PartsSpec
CONSTANTS
  MaxReplicas = 2
  Deployments = {1, 2, 3, 4}
  System = {1, 2}
  Limit = 1
  MaxChanges = 2
  MaxLostPages = 1
  LabelMax = 2
  NameMax = 3
  MaxLen = 6
  Duration = 20
  Interval = 3
  Settle = 5
  CheckTime = 4
  MaxRuns = 3
INVARIANTS NoAccidentalWrite PreconditionKept SameFailure ListIsSnapshot ParseKeyIsExact MonitorInv OneIdentitySet NoStrangerServed VerdictIsRight
PROPERTIES RequestAnswered ListEnds StartedMonitorReturns
CHECK_DEADLOCK FALSE
