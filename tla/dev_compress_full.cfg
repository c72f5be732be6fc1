SPECIFICATION Spec
CONSTANTS
  Pieces <- MCPieces
  Texts <- MCTexts
  Directories <- MCDirectories
  Jobs <- FullJobs
  MaxReads = 1
  MaxRuns = 1
  Faults = TRUE
PROPERTIES OnlyCreateLoses
CHECK_DEADLOCK FALSE
