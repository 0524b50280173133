SPECIFICATION FairSpec
CONSTANTS
  Texts <- MCTexts
  Split <- MCSplit
  Words <- MCWords
  Atoi <- MCAtoi
  TrueTexts = {"true", "True"}
  MaskWords <- MCMaskWords
  NotNumber = NotNumber
  NotText = NotText
  Absent = Absent
  Specs <- MCSpecs
  Clusters <- MCClusters
  MaxEdits = 1
  MaxChanges = 1
  MaxFaults = 1
INVARIANTS
  TypeOK
  AskedIsKept
PROPERTIES
  OwnFieldsKept
  Mirrors
CHECK_DEADLOCK FALSE
