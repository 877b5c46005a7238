SPECIFICATION Spec
CONSTANTS
  FifoSize = 3
  Lengths = {0, 1, 3, 7}
  KeyLengths <- Keys
  Interruptible = {TRUE, FALSE}
  Uart <- GoodPorts
  MaxKeys = 2
INVARIANTS TypeOK OnlyInterruptibleWritesLose
PROPERTY WritesReturn
CHECK_DEADLOCK FALSE
