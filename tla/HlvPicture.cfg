SPECIFICATION Spec
CONSTANTS
  Scan = 3
  Samples = 3
  Pictures <- MCPictures
  Fragile <- MCFragile
CHECK_DEADLOCK FALSE
INVARIANTS
  RoundTrip
  
