SPECIFICATION FairSpec
CONSTANTS
  Prices <- MCPrices
  Quantities <- MCQuantities
  MaxOrders = 4
  ClockTies = FALSE
INVARIANTS
  TypeOK
  BookHoldsOpenOrders
  NotCrossed
  FifoWithinLevel
PROPERTIES
  PlaceIsTheRounds
  ImplementsPriceTimePriority
  CallReturns
