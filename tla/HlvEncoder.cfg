SPECIFICATION Spec
CONSTANTS
  NFrames = 5
  MaxQ = 3
  Workers = 2
  Trials = 2
  Window = 2
  Target = 2
  AudioStep = 5
  FpsNum = 3
  Inputs <- MCInputs
  Psnrs <- MCPsnrs
  Sizes <- MCSizes
CHECK_DEADLOCK FALSE
INVARIANTS
  StreamExact
  DecoderFollows
  KeyInterval
  FixedGopIdentical
  SearchChoice
PROPERTY
  EncodeEnds
