CONSTANTS
  Clients = {c1, c2}
  Options <- MCOptions
  DbtSupported = TRUE
  ClientsWait = TRUE
  MaxStarts = 2
  MaxCommands = 3
  MaxEvents = 1
SPECIFICATION Spec
INVARIANTS
  TypeOK
  EngineServesSessions
  EngineServesNoOther
PROPERTY
  StartIsAnswered
CHECK_DEADLOCK FALSE
