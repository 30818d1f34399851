SPECIFICATION FairSpec
CONSTANTS
  b1 = b1
  b2 = b2
  order = order
  EventTypes <- MCTypes
  Batches <- MCBatches
  Limit = 2
  MaxTime = 1
  MaxRows = 3
  MaxFailures = 1
CHECK_DEADLOCK FALSE
INVARIANTS
  TypeOK
  PublishedWasSent
  AttemptsCountDeliveries
PROPERTIES
  ImplementsDelivery
  DeliveredWhileUsable
