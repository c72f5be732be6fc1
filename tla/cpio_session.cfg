SPECIFICATION Spec
CONSTANTS
  NoFile = NoFile
  PathOrder <- MCPathOrder
  Texts <- MCTexts
  XzStem <- MCXzStem
  FstabNames <- MCFstabNames
  Images <- MCImages
  Commands <- MCCommands
  Ramdisks <- MCRamdisks
  MaxCommands = 2
  MaxRuns = 1
  Faults = FALSE
INVARIANTS TypeOK EntriesIndexed BackupRecovers BackupMinimal
PROPERTIES DumpRoundTrip KeysStaySorted GhostsNeedDuplicates RestoreUndoesBackup
CHECK_DEADLOCK FALSE
