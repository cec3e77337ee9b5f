SPECIFICATION FairSpec
CONSTANTS
  Clients = {c1}
  Titles = {1}
  Timings <- OneShots
  DefaultWait = 3
  MaxSeq = 3
  MaxAlloc = 2
  MaxDepth = 2
  SpuriousWakeups = FALSE
PROPERTIES BreakEndsQueue WaitersReturn MessagesHandled
