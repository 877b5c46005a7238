SPECIFICATION LaterSpec
CONSTANTS
  M = 32
  PAGE = 6
  HEAP = 4
  MaxPages = 3
  Sizes = {0}
INVARIANT KfreeFindsPlace
CHECK_DEADLOCK FALSE
