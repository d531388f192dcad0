SPECIFICATION FairSpec
CONSTANTS
  Clients = {c1, c2}
  Cooks = {k1, k2}
  DeliveryPoolSize = 1
  Main = main  Handler = handler  NoClient = nobody
  ShovelCount = 1
  MaxOrders = 2
  Faults = {}
PROPERTIES EveryOrderAnswered
CHECK_DEADLOCK FALSE
