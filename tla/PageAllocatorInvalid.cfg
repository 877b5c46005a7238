SPECIFICATION Spec
CONSTANTS
  Conventional = {c1, c2}
  BootCode = {b1, b2}
  NULL = NULL
INVARIANT NeverInvalidPages
CHECK_DEADLOCK FALSE
