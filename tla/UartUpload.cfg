SPECIFICATION FairSpec
CONSTANTS
  Blocks = 3
  Buffers = 2
  MaxAttempts = 3
  DoneCopies = 2
  MaxFaults = 2
INVARIANTS TypeOK  AckMeansStored 
PROPERTIES UploadEnds Delivers
CHECK_DEADLOCK FALSE
