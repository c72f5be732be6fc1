SPECIFICATION Spec
CONSTANTS
  Base = 128
  MaxDigits = 4
  Word = 4096
  Half = 2048
  Cells <- MCCells
  Junk = junk
  Payloads <- FirstBlob
  Partitions <- MCPartitions
  BootName <- B
  InitBootName <- I
  Streams <- MCStreams
  FirstMagic = 2
  LongestMagic = 3
  DefaultBlockSize = 2
  Faults = FALSE
INVARIANTS LegalPayloadIsExtracted
CHECK_DEADLOCK FALSE
