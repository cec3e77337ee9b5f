SPECIFICATION CFairSpec
CONSTANTS
  Clients = {c1, c2}
  MaxStarts = 3
  CreateFails = TRUE
INVARIANTS CurrentQueueLives NoOrphanQueue StoppedMeansEnding MutexOutlivesUse
PROPERTIES StopReturns BrokenQueueEnds
CHECK_DEADLOCK FALSE
