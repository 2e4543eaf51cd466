CONSTANTS
  Lengths <- MCLengths
  MaxChunk = 7
  QueueMax = 2
SPECIFICATION StreamSpec
INVARIANTS
  HandledAreSent
  NothingLost
  HandledAtOnce
PROPERTY AllHandled
CHECK_DEADLOCK FALSE
