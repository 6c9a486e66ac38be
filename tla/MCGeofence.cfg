CONSTANTS
  Clients = {c1, c2}
  Callbacks <- MCCallbacks
  Installed = {"gnss", "geofence"}
  Options = {o1, o2}
  HwIds = {h1, h2}
  NoHwId = NoHwId
  MaxFences = 2
  MaxCalls = 3
SYMMETRY MCSymmetry
SPECIFICATION Spec
INVARIANTS
  TypeOK
  ModemHasFences
  FencesServed
  DestroyIsComplete
PROPERTIES
  RespondsInOrder
CHECK_DEADLOCK FALSE
