CONSTANTS
  MsgMax = 3
  RecvMax = 2
  RcvMax = 2
  NetMax = 2
  Units = 3
  Credentials <- AnyLogin
  MaxPackets = 6
  MaxLate = 1
SPECIFICATION FairSpec
INVARIANTS
  TypeOK
  DecoderReady
  ServedOnlyIfPassed
PROPERTIES
  FragmentIsLogged
  StreamsInTheEnd
CHECK_DEADLOCK FALSE
