SPECIFICATION Spec
CONSTANTS
  a = a
  b = b
  c = c
  d = d
  HostOrder <- MCHostOrder
  MaxRMs = 3
INVARIANTS EveryHostKept TwoShareNothing
CHECK_DEADLOCK FALSE
