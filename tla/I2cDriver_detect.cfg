CONSTANTS
  Caller = {c1}
  NoCaller = NoCaller
  d1 = d1
  absent = absent
  Device = {d1}
  Transfers <- MCDetects
  LastRegister = 1
  Byte = {0, 1}
  MaxBytes = 2
  SizeMax = 3
SPECIFICATION Spec
INVARIANT DetectMeansAck
CHECK_DEADLOCK TRUE
