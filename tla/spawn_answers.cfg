SPECIFICATION Spec
CONSTANTS
  s1 = s1
  s2 = s2
  t1 = t1
  t2 = t2
  Spawners <- TwoSpawners
  Threads <- TwoThreads
  Faults <- ExecFault
  CloexecDefault = FALSE
INVARIANT SpawnAnswers
CHECK_DEADLOCK FALSE
