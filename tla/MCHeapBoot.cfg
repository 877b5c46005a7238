SPECIFICATION BootSpec
CONSTANTS
  M = 64
  PAGE = 12
  HEAP = 4
  MaxPages = 4
  Sizes <- BootSizes
INVARIANT BlocksDisjoint
CHECK_DEADLOCK FALSE
