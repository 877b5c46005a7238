SPECIFICATION Spec
CONSTANTS
  FifoSize = 3
  Lengths = {0, 1, 3, 7}
  KeyLengths <- Keys
  Interruptible = {TRUE}
  Uart <- GoodPorts
  MaxKeys = 2
INVARIANT NoByteLost
CHECK_DEADLOCK FALSE
