SPECIFICATION FairSpec
CONSTANTS
  MaxOut = 2
  OutCap = 2
  InCap = 2
  BufferSize = 2
  WriteSizes <- ShortAndLong
  MaxWrites = 1
  MaxKills = 1
  ExitCodes <- Codes
  Signals <- KillAndTerm
  FatalSignals <- Deadly
  SIGHUP = 1
  RevokesOnExit = FALSE
  HostIgnoresSigchld = FALSE
  HostReopens = FALSE
  Echo = FALSE
PROPERTIES
  ExitReported
\* A session ends when the program is dead and nothing is left to do.
CHECK_DEADLOCK FALSE
