SPECIFICATION Spec
CONSTANTS
  c1 = c1  c2 = c2
  Clients = {c1, c2}
  Packets = 1
  Scenarios <- ListScenarios
INVARIANT DownloadDownloads
CHECK_DEADLOCK FALSE
