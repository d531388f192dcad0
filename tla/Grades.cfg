SPECIFICATION FairSpec
CONSTANTS
  Scenarios <- MCScenarios
  MaxProcs = 9
  Buffer = 3
  First = 3
  MaxElements = 3
  LongNames = {9}
INVARIANTS AddsKept ListedRight
PROPERTIES EveryoneEnds
CHECK_DEADLOCK FALSE
