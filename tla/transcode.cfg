SPECIFICATION FairSpec
CONSTANTS
  Pieces <- MCPieces
  Texts <- MCTexts
  Directories <- MCDirectories
  Jobs <- MCJobs
  MaxReads = 2
  MaxRuns = 4
  Faults = FALSE
INVARIANTS TypeOK
PROPERTIES OnlyCreateLoses DoneIsExact RunsEnd
CHECK_DEADLOCK FALSE
