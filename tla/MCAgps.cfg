CONSTANTS
  h1 = h1
  h2 = h2
  Handles <- MCHandles
  Routes <- MCRoutes
  MaxSsr = 1
  MaxBacklog = 2
SPECIFICATION Spec
INVARIANTS
  TypeOK
  StateMatchesSubscribers
  ModemAgrees
CHECK_DEADLOCK TRUE
PROPERTIES
  OpenIsAnswered
  ClosedHandlesRelease
