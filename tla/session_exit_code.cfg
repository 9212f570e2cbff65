SPECIFICATION Spec
CONSTANTS
  MaxOut = 1
  OutCap = 1
  InCap = 1
  BufferSize = 1
  WriteSizes <- OnlyEmpty
  MaxWrites = 0
  MaxKills = 0
  ExitCodes <- Codes
  Signals <- OnlyKill
  FatalSignals <- Deadly
  SIGHUP = 1
  RevokesOnExit = FALSE
  HostIgnoresSigchld = TRUE
  HostReopens = FALSE
  Echo = FALSE
INVARIANTS
  ExitTrue
\* A session ends when the program is dead and nothing is left to do.
CHECK_DEADLOCK FALSE
