SPECIFICATION AnySpec
CONSTANTS
  M = 32
  PAGE = 6
  HEAP = 4
  MaxPages = 3
  Sizes = {4}
INVARIANT HeadersOnPages
CHECK_DEADLOCK FALSE
