SPECIFICATION FairLeaseSpec
CONSTANTS
  Procs = {s1, s2}
  LeaseDuration = 7
  RenewDeadline = 3
  RetryPeriod = 1
  Latency = 1
  DrainTime = 2
  MaxFaults = 4
  Nobody = Nobody
  Former = Former
INVARIANTS LeaseInv
PROPERTIES SomebodyLeads
CHECK_DEADLOCK FALSE
