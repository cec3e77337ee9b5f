SPECIFICATION Spec
CONSTANTS
  Clients = {c1}
  Titles = {1}
  Timings <- Mixed
  DefaultWait = 3
  MaxSeq = 3
  MaxAlloc = 3
  MaxDepth = 2
  SpuriousWakeups = TRUE
INVARIANTS NoOversleep PostIdsUnique CancelledNeverRuns
PROPERTY GoneStaysGone
