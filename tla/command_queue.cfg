CONSTANTS
  Capacity = 3
  MaxCommands = 9
SPECIFICATION Spec
INVARIANTS InOrderInv NoLossWithinCapacity
PROPERTY WaitReturns
CHECK_DEADLOCK FALSE
