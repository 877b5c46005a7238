SPECIFICATION Spec
CONSTANTS
  NSLOTS = 3
  Ip = {i1, i2}
  Sp = {s1, s2}
  LowByte <- Low
  MaxForks = 4
INVARIANTS TypeOK TableSound YieldReturns
PROPERTIES ImplementsRoundRobin YieldingStarvesNobody
CHECK_DEADLOCK FALSE
