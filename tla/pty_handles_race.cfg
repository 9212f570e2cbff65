SPECIFICATION Spec
CONSTANTS
  t1 = t1
  t2 = t2
  t3 = t3
  Terminals <- ThreeTerminals
INVARIANT HandleFetched
CHECK_DEADLOCK FALSE
