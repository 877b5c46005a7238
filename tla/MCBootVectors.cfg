SPECIFICATION Spec
CONSTANTS
  Machines <- SomeMachines
  ScanCodes = {0, 30}
  MaxKeys = 3
  TRIES = 3
  MapSizes = {1, 2, 3, 4}
INVARIANT AllVectorsSet
CHECK_DEADLOCK FALSE
