CONSTANTS
  User = {u1, u2, u3, u4, u5}
  MaxSignal = 3
SPECIFICATION FairSpec
INVARIANTS TypeOK CountIsContenders OneToken
PROPERTIES ImplementsMutex NoLostWakeup
CHECK_DEADLOCK TRUE
