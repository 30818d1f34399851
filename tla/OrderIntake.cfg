SPECIFICATION Spec
CONSTANTS
  r1 = r1
  r2 = r2
  r3 = r3
  k1 = k1
  u1 = u1
  u2 = u2
  b1 = b1
  b2 = b2
  Requests <- MCRequests
  Keys <- MCKeys
  Origins <- MCOrigins
  NoKey = NoKey
  NoRequest = NoRequest
  MaxFaults = 2
  MaxCleanups = 1
  MaxCrashes = 1
SYMMETRY MCSymmetry
CHECK_DEADLOCK FALSE
INVARIANTS
  TypeOK
  NamedIsEnqueued
  DuplicateHasOrigin
  OneCommandPerKey
PROPERTIES
  RefusedForACause
