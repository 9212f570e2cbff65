SPECIFICATION CooperativeSpec
CONSTANTS
  MaxOut = 4
  OutCap = 1
  InCap = 1
  BufferSize = 2
  WriteSizes <- ShortAndLong
  MaxWrites = 2
  MaxKills = 0
  ExitCodes <- Codes
  Signals <- KillAndTerm
  FatalSignals <- Deadly
  SIGHUP = 1
  RevokesOnExit = FALSE
  HostIgnoresSigchld = TRUE
  HostReopens = FALSE
  Echo = TRUE
PROPERTIES
  WriteReturns
  OutputShown
\* A session ends when the program is dead and nothing is left to do.
CHECK_DEADLOCK FALSE
