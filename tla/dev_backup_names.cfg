SPECIFICATION Spec
CONSTANTS
  NoFile = NoFile
  PathOrder <- MCPathOrder
  Texts <- MCTexts
  XzStem <- MCXzStem
  FstabNames <- MCFstabNames
  Images <- StockOnly
  Commands <- MergeCommands
  Ramdisks = {}
  MaxCommands = 1
  MaxRuns = 1
  Faults = FALSE
PROPERTIES BackupStaysBelow
CHECK_DEADLOCK FALSE
