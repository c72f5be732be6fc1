SPECIFICATION FairSpec
CONSTANTS
  Base = 128
  MaxDigits = 4
  Word = 4194304
  Half = 2048
  Buffers <- MCBuffers
  Samples <- MCSamples
  UnknownFields <- MCUnknownFields
INVARIANTS TypeOK WithinSlices UnmarshalInvertsMarshal ConcatenationMerges
  UnknownFieldsAreSkipped CutsAreNoticed ShortReadsAreHarmless
PROPERTIES DecodingEnds DecoderAdvances
CHECK_DEADLOCK FALSE
