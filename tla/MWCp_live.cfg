SPECIFICATION FairSpec
CONSTANTS
  w1 = w1  w2 = w2
  reg1 = reg1  reg2 = reg2  reg3 = reg3  fifo1 = fifo1  dir1 = dir1  sock1 = sock1
  Workers = {w1, w2}
  Manager = manager  Main = main  Handler = handler  NoOne = none
  Root = root
  Entries = {reg1, reg2, dir1, sock1}
  Kind <- MCKind
  Parent <- MCParent
  Size <- TwoBlocks
  BufferSize = 1
  MaxBufferSize = 4
  MaxFds = 8
  SigThreads = {main}
  Faults = {}
  Spurious = FALSE
INVARIANTS AllCopied
PROPERTIES SigintEnds
CHECK_DEADLOCK FALSE
