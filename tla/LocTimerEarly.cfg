CONSTANTS
  Clients <- MCClients
  Delays <- MCDelays
  MaxStarts = 3
  MaxTime = 3
SPECIFICATION Spec
INVARIANT NotCalledBackEarly
CHECK_DEADLOCK FALSE
