SPECIFICATION Spec
CONSTANTS
  c1 = c1
  c2 = c2
  Calls <- MCCalls
  MaxTokens = 4
  MaxFaults = 0
CHECK_DEADLOCK FALSE
INVARIANTS
  FailedRefreshIsFinal
