SPECIFICATION CSpec
CONSTANTS
  Clients = {c1, c2}
  MaxStarts = 3
  CreateFails = FALSE
INVARIANT JoinAssertion
