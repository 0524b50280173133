SPECIFICATION Spec
CONSTANTS
  ClusterIds = {c1, c2}
  NoCluster = NoCluster
  Pools = {p1}
  NoPools = NoPools
  Imported = FALSE
  MaxOutside = 1
  MaxFaults = 1
  MaxCrashes = 0
  MaxUid = 2
SYMMETRY Symmetry
INVARIANTS
  TypeOK
  IInv
  TInv
  
  
  PhaseTracksCluster
PROPERTIES
  RemovalDeletesCluster
CHECK_DEADLOCK FALSE
