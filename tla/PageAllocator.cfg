SPECIFICATION Spec
CONSTANTS
  Conventional = {c1, c2}
  BootCode = {b1, b2}
  NULL = NULL
INVARIANTS TypeOK FreeListSound HaltsOnlyWhenExhausted AllocatedPagesUsable
PROPERTY ImplementsPool
CHECK_DEADLOCK FALSE
