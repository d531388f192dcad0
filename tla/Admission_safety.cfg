SPECIFICATION Spec
CONSTANTS
  c1 = c1  c2 = c2  c3 = c3  c4 = c4
  Clients = {c1, c2, c3, c4}
  TryClients = {}
  globalMaxClients = 1
  NoClient = nobody
  Faults = {"eintr", "fork", "sigterm", "archive"}
INVARIANTS TypeOK NeverOverfull QueuedOnce NobodyOverlooked WelcomeKept
SYMMETRY ConnectSymmetry
CHECK_DEADLOCK FALSE
