SPECIFICATION Spec
CONSTANTS
  NoFile = NoFile
  PathOrder <- RefinesPathOrder
  Texts <- MCTexts
  XzStem <- MCXzStem
  FstabNames = {}
  Images <- RefinesImages
  Commands <- RefinesCommands
  Ramdisks = {}
  MaxCommands = 2
  MaxRuns = 2
  Faults = FALSE
PROPERTIES RefinesRamdisk
CHECK_DEADLOCK FALSE
