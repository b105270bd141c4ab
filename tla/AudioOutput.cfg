SPECIFICATION FairSpec
CONSTANTS
  Total = 7
  Capacity = 3
  Chunk = 2
  Dma = 1
  Descriptors = 2
  Frames = 4
  FrameSamples = 2
  Seeks = {2, 5}
INVARIANTS TypeOK SamplesAccounted StreamOutlivesUsers
PROPERTIES WaitEnds DiscardEnds
