SPECIFICATION Spec
CONSTANTS
  r1 = r1
  r2 = r2
  r3 = r3
  r4 = r4
  r5 = r5
  Requests <- MCRequests
  Capacity = 2
  Minute = 3
  MaxDelay = 1
  MaxTime = 5
  MaxFaults = 1
SYMMETRY MCSymmetry
CHECK_DEADLOCK FALSE
INVARIANTS
  TypeOK
  WithinLimit
PROPERTIES
  RefusedOverLimit
