SPECIFICATION Spec
CONSTANTS
  t1 = t1
  t2 = t2
  t3 = t3
  Terminals <- ThreeTerminals
SYMMETRY Symmetry
INVARIANT SafeUnlessMoved
CHECK_DEADLOCK FALSE
