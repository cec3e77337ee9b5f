SPECIFICATION Spec
CONSTANTS
  Clients = {c1}
  Titles = {1}
  Timings <- Periodics
  DefaultWait = 3
  MaxSeq = 2
  MaxAlloc = 1
  MaxDepth = 1
  SpuriousWakeups = TRUE
INVARIANT CancelAndWaitQuiesces
