SPECIFICATION Spec
CONSTANTS
  PathOrder <- MCPathOrder
  Texts <- MCTexts
  XzStem <- MCXzStem
  FstabNames = {}
  Archives <- MCArchives
  Trees <- MCTrees
  Operands <- MCOperands
  MaxRuns = 2
INVARIANTS TypeOK PassedAreThere FreshIsExact
PROPERTIES OnlyFilesAreReplaced
CHECK_DEADLOCK FALSE
