SPECIFICATION FairSpec
CONSTANTS
  Dirs <- MCDirs
  Jobs <- MCJobs
  Faults = TRUE
  Cuts = {0, 1, 3}
  MaxRuns = 2
  Magic = 99
  FormatOf <- MCFormatOf
  SizeLimit = 26
INVARIANTS TypeOK PartsMakeTheImage PatchReplaces CleanupRemovesParts
PROPERTIES OnlyPartsChange SplitEndsAtFirstMagic OtherRunsEnd
CHECK_DEADLOCK FALSE
