SPECIFICATION Spec
CONSTANTS
  c1 = c1
  c2 = c2
  Clients <- TwoClients
  Calls <- MostCalls
  MaxCalls = 3
  MaxEvents = 2
  MaxTouches = 1
  Options <- NoCallbacks
  FlowControl = FALSE
  QueueCap = 2
  HostReopens = TRUE
SYMMETRY Symmetry
INVARIANTS
  TypeOK
  FlowObeyed
  LastEchoWins
  MissedOnlyEarlier
  InputInOrder
CHECK_DEADLOCK FALSE
