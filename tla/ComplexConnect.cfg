SPECIFICATION FairSpec
CONSTANTS
  N = 3
  Timeout = 3
  MinVerify = 2
  MaxPieces = 3
  Interval = 2
  ErrorInterval = 1
  MaxConnect = 2
INVARIANTS SocketsAccounted SelectOnTime
PROPERTY ConnectReturns
CHECK_DEADLOCK FALSE
