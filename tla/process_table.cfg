SPECIFICATION Spec
CONSTANTS
  t1 = t1
  t2 = t2
  Terminals <- TwoTerminals
  Pids <- TwoPids
  MaxKills = 1
  RevokesOnExit = TRUE
  HostIgnoresSigchld = TRUE
SYMMETRY Symmetry
INVARIANTS
  TypeOK
  ListedWhileRunning
  EntriesAccounted
  UnloadReachesAll
  AstrayOnlyAfterReap
CHECK_DEADLOCK FALSE
