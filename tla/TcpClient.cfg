SPECIFICATION FairSpec
CONSTANTS
  Clients = {c1, c2}
  Waiter = c1
  MaxWrites = 2
  MaxLen = 1
INVARIANTS SelectFresh ConnectIsReal
PROPERTIES EventOrder HangUpEnds
CHECK_DEADLOCK FALSE
