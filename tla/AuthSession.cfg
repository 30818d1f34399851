SPECIFICATION FairSpec
CONSTANTS
  c1 = c1
  c2 = c2
  Calls <- MCCalls
  MaxTokens = 4
  MaxFaults = 2
CHECK_DEADLOCK FALSE
INVARIANTS
  TypeOK
  SerialSession
  SessionCanRefresh
  CookieIsReplaced
PROPERTIES
  CallsEnd
