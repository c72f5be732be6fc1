SPECIFICATION FairSpec
CONSTANTS
  Base = 128
  MaxDigits = 4
  Word = 4096
  Half = 2048
  Cells <- MCCells
  Junk = junk
  Payloads <- MCPayloads
  Partitions <- MCPartitions
  BootName <- B
  InitBootName <- I
  Streams <- MCStreams
  FirstMagic = 2
  LongestMagic = 3
  DefaultBlockSize = 2
  Faults = TRUE
INVARIANTS TypeOK ReaderKeepsUp ImageIsExact RefusedPayloadKeepsOut
PROPERTIES ExtractEnds
CHECK_DEADLOCK FALSE
