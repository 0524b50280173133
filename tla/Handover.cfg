SPECIFICATION FairSpec
CONSTANTS
  ClusterIds = {c1, c2}
  NoCluster = NoCluster
  Pools = {p1}
  NoPools = NoPools
  Imported = FALSE
  MaxOutside = 0
  MaxFaults = 0
  MaxUid = 1
INVARIANTS
  HInv
  PhaseTracksCluster
  
PROPERTIES
  PhasesImplemented
  RemovalDeletesCluster
  Settles
CHECK_DEADLOCK FALSE
