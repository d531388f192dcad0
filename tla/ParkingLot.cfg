SPECIFICATION FairSpec
CONSTANTS
  Owners = {o1, o2, o3}
  Kinds <- MCKinds
  PickupMax = 2  AutoMax = 1
  Max <- MCMax
  NoOne = none
INVARIANTS CountWithinBounds
PROPERTIES CountersReturnToZero EveryOwnerAnswered
CHECK_DEADLOCK FALSE
