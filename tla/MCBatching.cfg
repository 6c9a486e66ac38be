CONSTANTS
  Clients = {c1, c2}
  Options <- MCOptions
  Word = 16
  MaxStarts = 2
  MaxCalls = 3
  MaxTravel = 3
SYMMETRY MCSymmetry
SPECIFICATION Spec
INVARIANTS
  TypeOK
  RoutineServed
  BatchFullRegistered
  TripServed
CHECK_DEADLOCK FALSE
