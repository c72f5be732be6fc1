SPECIFICATION Spec
CONSTANTS
  NoFile = NoFile
  PathOrder <- MCPathOrder
  Texts <- MCTexts
  XzStem <- MCXzStem
  FstabNames <- MCFstabNames
  Images <- StockOnly
  Commands <- PatchCommands
  Ramdisks = {}
  MaxCommands = 1
  MaxRuns = 1
  Faults = FALSE
PROPERTIES PatchRemovesVerity
CHECK_DEADLOCK FALSE
