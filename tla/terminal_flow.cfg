SPECIFICATION Spec
CONSTANTS
  c1 = c1
  c2 = c2
  Clients <- TwoClients
  Calls <- MostCalls
  MaxCalls = 2
  MaxEvents = 1
  MaxTouches = 0
  Options <- NoCallbacks
  FlowControl = TRUE
  QueueCap = 2
  HostReopens = FALSE
INVARIANT OkMeansWritten
CHECK_DEADLOCK FALSE
