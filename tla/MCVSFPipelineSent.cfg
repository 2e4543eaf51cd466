CONSTANTS
  c1 = c1
  c2 = c2
  Clients <- MCClients
  CtrlMax = 1
  VideoMax = 2
  MsgMax = 2
  Units = 2
  MaxFrames = 3
SPECIFICATION Spec
INVARIANT SentIsItsFrame
CHECK_DEADLOCK FALSE
