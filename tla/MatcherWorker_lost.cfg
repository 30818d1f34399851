SPECIFICATION Spec
CONSTANTS
  Commands <- MCCommands
  MakerOrders <- MCMakers
  MaxCommands = 1
  MaxTicks = 1
  MaxFailures = 0
CHECK_DEADLOCK FALSE
INVARIANTS
  AcceptedIsStored
