SPECIFICATION FairSpec
CONSTANTS
  Frames = 3
  MB = 2
  MbRows = 4
  RingMbs = 2
  Radius = 2
  Height = 7
  Lines = 9
  RowMap <- ScaledMap
  Transfer = 2
INVARIANTS
  TypeOK
  PendingRowsIntact
  DecodedPictureWhole
PROPERTIES
  WorkerDeletedIdle
  DecodeAnswered
