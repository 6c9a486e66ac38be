CONSTANTS
  Clients <- MCClients
  Delays <- MCDelays
  MaxStarts = 3
  MaxTime = 2
SPECIFICATION Spec
INVARIANTS
  TypeOK
  NoDanglingDelegate
  TickingIsArmed
PROPERTIES
  StoppedIsNotCalledBack
  StartedIsCalledBack
CHECK_DEADLOCK FALSE
