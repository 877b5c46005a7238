SPECIFICATION Spec
CONSTANTS
  NSLOTS = 3
  Ip = {i1, i2}
  Sp = {s1, s2}
  LowByte <- Low
  MaxForks = 3
INVARIANT UpToNSlotsForks
CHECK_DEADLOCK FALSE
