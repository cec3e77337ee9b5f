SPECIFICATION FairSpec
CONSTANTS
  Callers = {c1, c2}
  Objects = {1, 2}
  FuncObjects = {2}
  Hosts = {"h1", "h2"}
  BreakerUsers = {c1}
  Tids = {1, 2}
  Millsec = 1
INVARIANTS OwnEntry NoLostWakeup
PROPERTIES AnswerIsOwn CancelReaches LookupReturns
