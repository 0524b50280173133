SPECIFICATION FairSpec
CONSTANTS
  Processes = {a, b}
  Nobody = Nobody
  Dead = Dead
  LeaseDuration = 4
  RenewDeadline = 1
  RetryPeriod = 1
  Delay = 1
  MaxFaults = 2
  MaxSignals = 2
INVARIANTS
  TypeOK
  OneLeads
  LeaderHolds
PROPERTIES
  WaitingIsServed
  Ends
CHECK_DEADLOCK FALSE
