SPECIFICATION FairSpec
CONSTANTS
  Scenarios <- MCScenarios
  LongMax = 127
INVARIANTS RightAnswer NamesKept
PROPERTIES EveryoneEnds
CHECK_DEADLOCK FALSE
