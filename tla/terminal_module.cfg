SPECIFICATION Spec
CONSTANTS
  c1 = c1
  c2 = c2
  Clients <- TwoClients
  Calls <- AllCalls
  MaxCalls = 1
  MaxEvents = 2
  MaxTouches = 0
  Options <- ModuleOption
  FlowControl = FALSE
  QueueCap = 2
  HostReopens = FALSE
INVARIANT OptionsHonoured
CHECK_DEADLOCK FALSE
