SPECIFICATION Spec
CONSTANTS
  NumLuns = 3
  MaxCrashes = 2
  MaxFailures = 1
INVARIANTS
  TypeOK
  Bootable
  GrantedIsReady
PROPERTY UpdateCompletes
CHECK_DEADLOCK FALSE
