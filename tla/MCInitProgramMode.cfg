SPECIFICATION SystemSpec
CONSTANTS
  NSLOTS = 16
  W = 3
  H = 3
  ModeTables <- SmallTables
INVARIANT AcceptedMode
CHECK_DEADLOCK FALSE
