SPECIFICATION Spec
CONSTANTS
  Machines <- SomeMachines
  ScanCodes = {0, 30}
  MaxKeys = 3
  TRIES = 3
  MapSizes = {1, 2, 3, 4}
INVARIANTS TypeOK InterruptsFindHandlers KeyNotForgotten ExitsWithCurrentMap
PROPERTIES KeysRead BootEnds
CHECK_DEADLOCK FALSE
