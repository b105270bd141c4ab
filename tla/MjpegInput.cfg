SPECIFICATION FairSpec
CONSTANTS
  Sizes <- FileSizes
  Ring = 3
  Speculative = 2
INVARIANT TypeOK
PROPERTIES InputExact ShortInputExplained SkipTaken DecodeEnds
