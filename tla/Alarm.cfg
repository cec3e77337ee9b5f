SPECIFICATION FairSpec
CONSTANTS
  N = 2
  Built <- MCBuilt
  Afters = {1}
  MaxSeq = 2
  MaxTime = 2
INVARIANTS DestroyedIsSilent
PROPERTIES NotEarly OneOutcome EveryStartEnds
CHECK_DEADLOCK FALSE
