SPECIFICATION FairSpec
CONSTANTS
  ClusterIds = {c1, c2}
  NoCluster = NoCluster
  Pools = {p1}
  NoPools = NoPools
  Imported = FALSE
  MaxOutside = 0
  MaxFaults = 1
  MaxCrashes = 1
  MaxUid = 1
INVARIANTS
  ActiveHasSecret
PROPERTIES
  PhasesImplemented
  Settles
  DeletionProgresses
CHECK_DEADLOCK FALSE
