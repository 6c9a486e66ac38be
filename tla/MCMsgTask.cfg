CONSTANT MaxMsgs = 5
SPECIFICATION Spec
INVARIANTS
  TypeOK
  ListIsQueue
  NoUseOfDestroyedQueue
PROPERTIES
  ImplementsChannel
  AcceptedIsDeleted
CHECK_DEADLOCK FALSE
