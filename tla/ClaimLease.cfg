SPECIFICATION Spec
CONSTANTS
  Processes = {a, b}
  Nobody = Nobody
  Dead = Dead
  LeaseDuration = 4
  RenewDeadline = 1
  RetryPeriod = 1
  Delay = 1
  MaxFaults = 0
  MaxSignals = 1
INVARIANT WorkEndsBeforeRelease
CHECK_DEADLOCK FALSE
