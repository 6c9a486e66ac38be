CONSTANTS
  Clients = {c1}
  MaxRequests = 3
  MaxAnswers = 2
SPECIFICATION Spec
INVARIANTS
  TypeOK
  AnswersAreTheirOwn
PROPERTY
  NotificationClears
CHECK_DEADLOCK FALSE
