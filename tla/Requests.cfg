SPECIFICATION FairSpec
CONSTANTS
  c1 = c1  c2 = c2
  Clients = {c1, c2}
  Packets = 2
  Scenarios <- MCScenarios
INVARIANTS FilesExclusive InStep NoneHeldUp
PROPERTIES UploadIntact EveryCommandAnswered KillServerEnds
CHECK_DEADLOCK FALSE
