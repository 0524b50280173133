SPECIFICATION FairSpec
CONSTANTS
  ClusterIds = {c1}
  NoCluster = NoCluster
  Pools = {p1, p2}
  NoPools = NoPools
  Imported = TRUE
  MaxOutside = 1
  MaxFaults = 1
  MaxCrashes = 1
  MaxUid = 1
INVARIANTS
  TInv
  ImportKeepsPools
  NoUnaskedDelete
PROPERTIES
  Settles
CHECK_DEADLOCK FALSE
