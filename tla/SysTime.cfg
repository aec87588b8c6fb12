CONSTANTS
  Minute = 8
  Millisecond = 2
  MaxLatency = 1
  MaxIteration = 3
  Waits = {1, 3}
  MaxMinutes = 2
  Source <- MCSource
  NoSource = NoSource
  Pause <- MCPause
  Inputs <- MCInputs
  InputLength = 2
SPECIFICATION InputSpec
INVARIANTS
  TypeOK
  OneRetry
  DelayIsLongEnough
  InputTypeOK
PROPERTIES
  UptimeIsExact
  MillisecondsNeverBack
  SentAfterPause
  PressIsHeard
CHECK_DEADLOCK TRUE
