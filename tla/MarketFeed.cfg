SPECIFICATION FairSpec
CONSTANTS
  btc = btc
  eth = eth
  h1 = h1
  SymbolOrder <- MCSymbols
  Hooks <- MCHooks
  MaxVersions = 2
  MaxMounts = 2
  MaxFaults = 1
CHECK_DEADLOCK FALSE
INVARIANTS
  TypeOK
  NoStaleBook
  NoMissingBook
  OneConnection
PROPERTIES
  ComesBack
