SPECIFICATION Spec
CONSTANTS
  Machines <- Empty
  ScanCodes = {0, 30}
  MaxKeys = 3
  TRIES = 3
  MapSizes = {1, 2, 3, 4}
INVARIANT WalkStaysInMadt
CHECK_DEADLOCK FALSE
