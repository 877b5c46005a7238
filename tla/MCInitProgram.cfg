SPECIFICATION SystemSpec
CONSTANTS
  NSLOTS = 16
  W = 3
  H = 3
  ModeTables <- SmallTables
INVARIANTS SystemTypeOK SelectsBestMode MarksInOrder FlagFitsTheScreen
PROPERTY PowersOff
CHECK_DEADLOCK FALSE
