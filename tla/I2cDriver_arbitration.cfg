CONSTANTS
  Caller = {c1}
  NoCaller = NoCaller
  d1 = d1
  absent = absent
  Device = {d1}
  Transfers <- MCWrites
  LastRegister = 1
  Byte = {0, 1}
  MaxBytes = 2
  SizeMax = 3
SPECIFICATION FairSpec
PROPERTY LostArbitrationEnds
CHECK_DEADLOCK TRUE
