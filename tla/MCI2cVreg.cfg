SPECIFICATION Spec

CONSTANTS
  Requests <- MCRequests
  MAX_NOW = 2
  MAX_FAULTS = 1
  MAX_KILLS = 1

INVARIANT TypeOK
INVARIANT SwitchesPaired
INVARIANT FreshReading
