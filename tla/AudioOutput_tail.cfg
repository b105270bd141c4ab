SPECIFICATION Spec
CONSTANTS
  Total = 7
  Capacity = 4
  Chunk = 3
  Dma = 1
  Descriptors = 2
  Frames = 7
  FrameSamples = 1
  Seeks = {}
PROPERTY TrackPlayedOut
