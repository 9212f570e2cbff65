SPECIFICATION Spec
CONSTANTS
  c1 = c1
  c2 = c2
  Clients <- TwoClients
  Calls <- MostCalls
  MaxCalls = 3
  MaxEvents = 1
  MaxTouches = 0
  Options <- NoCallbacks
  FlowControl = FALSE
  QueueCap = 2
  HostReopens = FALSE
INVARIANT PauseStops
CHECK_DEADLOCK FALSE
