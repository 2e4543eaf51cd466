CONSTANTS
  tcThread = tcThread
  recvThread = recvThread
  Nothing = Nothing
  Units = 2
  Producers <- MCProducers
  MaxPackets = 4
SPECIFICATION ThreadsSpec
INVARIANTS
  ThreadsTypeOK
  CountNeverNegative
  CleanIsFIFO
CHECK_DEADLOCK FALSE
