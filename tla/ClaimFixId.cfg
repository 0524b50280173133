SPECIFICATION Spec
CONSTANTS
  Lists <- MCLists
  Default = "default-nodepool"
  NoId = 0
  MaxPools = 4
  MaxEdits = 2
  MaxFaults = 0
  MaxOutside = 0
PROPERTIES
  OnlyEmptyIdsFixed
CHECK_DEADLOCK FALSE
