SPECIFICATION FairSpec
CONSTANTS
  NoFile = NoFile
  PathOrder <- MCPathOrder
  Texts <- MCTexts
  XzStem <- MCXzStem
  FstabNames <- MCFstabNames
  Images <- SessionImages
  Commands <- FaultCommands
  Ramdisks = {}
  MaxCommands = 2
  MaxRuns = 3
  Faults = TRUE
PROPERTIES PartialDumpAgrees Terminates
CHECK_DEADLOCK FALSE
