SPECIFICATION Spec
CONSTANTS
  Clients = {c1, c2}
  Titles = {1}
  Timings <- Mixed
  DefaultWait = 3
  MaxSeq = 3
  MaxAlloc = 2
  MaxDepth = 2
  SpuriousWakeups = FALSE
SYMMETRY ClientSymmetry
INVARIANTS TypeOK WaitersHaveNotifier CancelAndWaitQuiesces
