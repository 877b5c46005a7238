SPECIFICATION AnySpec
CONSTANTS
  M = 32
  PAGE = 6
  HEAP = 4
  MaxPages = 3
  Sizes = {0, 1, 5}
INVARIANTS TypeOK BlocksDisjointWhileSound ListCircular NothingLost NeverSpins
CHECK_DEADLOCK FALSE
