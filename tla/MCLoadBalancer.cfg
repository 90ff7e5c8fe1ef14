CONSTANTS
  Managers = {m1, m2}
  None = None
  MaxWorks = 4
SPECIFICATION FairSpec
INVARIANTS
  NoneLost
  NoneTwice
  ServedInOrder
  DroppedOnlyWhenStopped
  FairShare
PROPERTIES
  Served
  ManagersStop
  ImplementsDispatch
