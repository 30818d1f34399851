SPECIFICATION FairSpec
CONSTANTS
  Commands <- MCCommands
  MakerOrders <- MCMakers
  MaxCommands = 2
  MaxTicks = 1
  MaxFailures = 1
CHECK_DEADLOCK FALSE
INVARIANTS
  TypeOK
  SequencesContiguous
  OneWriter
  FilledMatchesTrades
  MakerBeforeTaker
  RowsExplainBook
  CacheIsLatest
  CommandsPlaced
  ConsumerKeepsPromises
PROPERTIES
  CommandsHandled
