CONSTANTS
  Caller = {c1, c2}
  NoCaller = NoCaller
  d1 = d1
  absent = absent
  Device = {d1}
  Transfers <- MCTransfers
  LastRegister = 1
  Byte = {0, 1}
  MaxBytes = 2
  SizeMax = 3
SPECIFICATION Spec
INVARIANTS TypeOK SuccessIsExact
PROPERTY StrayOnlyWhenOrphaned
SYMMETRY Callers
CHECK_DEADLOCK TRUE
