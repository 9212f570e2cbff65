SPECIFICATION FairSpec
CONSTANTS
  s1 = s1
  s2 = s2
  t1 = t1
  t2 = t2
  Spawners <- TwoSpawners
  Threads <- TwoThreads
  Faults <- AnyFault
  CloexecDefault = FALSE
INVARIANTS
  TypeOK
  SuccessIsReal
  ErrorMeansNoProgram
  MaskRestored
  ClosedForProgram
PROPERTIES
  WaitsOnlyForInheritors
CHECK_DEADLOCK FALSE
