SPECIFICATION Spec
CONSTANTS
  Commands <- MCCommands
  MakerOrders <- MCMakers
  MaxCommands = 1
  MaxTicks = 0
  MaxFailures = 1
CHECK_DEADLOCK FALSE
INVARIANTS
  StoredIsPublished
