CONSTANTS
  Writer = {w1, w2}
  PolledWriter = {e1}
  TxLength = 3
  RxLength = 1
  FifoSize = 2
  MaxBytes = 2
  MaxPolled = 1
  MaxReceived = 2
  NoByte = NoByte
SPECIFICATION FairSpec
INVARIANTS TypeOK NoByteLost LeftOnlyIfMissed ReceivedInOrder
PROPERTIES ReceptionIsCleared PutOnIdleSends
CHECK_DEADLOCK FALSE
