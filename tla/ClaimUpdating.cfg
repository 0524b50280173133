SPECIFICATION Spec
CONSTANTS
  ClusterIds = {c1, c2}
  NoCluster = NoCluster
  Pools = {p1, p2}
  NoPools = NoPools
  Imported = FALSE
  MaxOutside = 1
  MaxFaults = 0
  MaxCrashes = 0
  MaxUid = 1
SYMMETRY Symmetry
PROPERTIES
  ChangeIsAnnounced
CHECK_DEADLOCK FALSE
