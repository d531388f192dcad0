SPECIFICATION Spec
CONSTANTS
  Clients = {c1, c2}
  Cooks = {k1, k2}
  DeliveryPoolSize = 1
  Main = main  Handler = handler  NoClient = nobody
  ShovelCount = 1
  MaxOrders = 2
  Faults = {"connect", "send", "sigint server", "sigint clients"}
INVARIANTS OrderInOnePlace ShovelsConserved NoWakeupLost
PROPERTIES ImplementsOrderLife
SYMMETRY ShopSymmetry
CHECK_DEADLOCK FALSE
