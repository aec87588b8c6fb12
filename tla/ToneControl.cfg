SPECIFICATION FairSpec
CONSTANTS
  Tilt <- MCTilt
  Named <- MCNamed
  NoOne = NoOne
INVARIANTS
  TypeOK
PROPERTIES
  SuspendedInTimeIsAtRest
  OnlyOperatorEndsLockout
  ControllerGetsBus
  ClearStops
CHECK_DEADLOCK FALSE
