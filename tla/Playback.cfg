SPECIFICATION FairSpec
CONSTANTS
  Frames = 8
  KeyFrames = {1, 6}
  LateFrames = 2
  SdFailures = 2
  SampleBytes = 1
  Targets = {0, 3, 9}
INVARIANTS TypeOK SequentialReferenceExact TimelineExact SeekRendersGuarded
PROPERTIES CatchupEnds SeekEnds
