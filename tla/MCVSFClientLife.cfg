CONSTANTS
  MaxClients = 2
  Handles = {h1, h2}
  SelectTime = 1
  WaitTime = 3
  MaxTimeouts = 1
SPECIFICATION FairSpec
INVARIANTS
  ObjectOutlivesThreads
  DisplaysOwnClient
  SocketsAreKept
PROPERTIES
  CloseReturns
