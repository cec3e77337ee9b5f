SPECIFICATION FairSpec
CONSTANTS
  Clients = {c1}
  MaxStarts = 3
  CreateFails = TRUE
INVARIANTS OneAtATime RefCounted ReclaimedOnce NothingLeaked AtMostOneLateRun RunsUnlessCancelled
PROPERTIES CancelEnds JoinReturns
