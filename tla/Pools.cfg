SPECIFICATION FairSpec
CONSTANTS
  Lists <- MCLists
  Default = "default-nodepool"
  NoId = 0
  MaxPools = 4
  MaxEdits = 2
  MaxFaults = 1
  MaxOutside = 1
INVARIANTS
  TypeOK
  BatchInv
  
  
PROPERTIES
  NoDeleteOfAsked
  ScalesExactly
  
CHECK_DEADLOCK FALSE
