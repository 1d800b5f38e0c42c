SPECIFICATION Spec
CONSTANTS
  Procs = {1, 2}
  NPorts = 2
  MAX_OPS = 0
  Clients = {1, 2}
  Tiles = {1}
  Jobs <- OddJobs
  FILLS = {255}
  MAX_RUNS = 2
  MAX_TIMEOUTS = 0
  MAX_FAULTS = 0
PROPERTY UnknownAnswered
CHECK_DEADLOCK FALSE
