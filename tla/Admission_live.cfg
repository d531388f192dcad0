SPECIFICATION FairSpec
CONSTANTS
  c1 = c1  c2 = c2  c3 = c3  c4 = c4
  Clients = {c1, c2, c3, c4}
  TryClients = {c4}
  globalMaxClients = 2
  NoClient = nobody
  Faults = {"eintr", "fork", "archive"}
INVARIANTS NeverOverfull
PROPERTIES EveryClientAnswered
CHECK_DEADLOCK FALSE
