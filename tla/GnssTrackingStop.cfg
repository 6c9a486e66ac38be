CONSTANTS
  Clients = {c1}
  Options <- MCOptions
  DbtSupported = TRUE
  ClientsWait = TRUE
  MaxStarts = 1
  MaxCommands = 3
  MaxEvents = 1
SPECIFICATION Spec
INVARIANT
  StoppedStaysStopped
CHECK_DEADLOCK FALSE
