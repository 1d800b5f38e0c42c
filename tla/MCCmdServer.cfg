SPECIFICATION Spec
CONSTANTS
  Procs = {1, 2}
  NPorts = 2
  MAX_OPS = 1
  Clients = {1, 2}
  Tiles = {1, 2}
  Jobs <- CmdJobs
  FILLS = {255}
  MAX_RUNS = 2
  MAX_TIMEOUTS = 1
  MAX_FAULTS = 1
INVARIANT TypeOK
INVARIANT ExclusiveHardware
 
INVARIANT TilesOn
 
INVARIANT AnswersMatch
CHECK_DEADLOCK FALSE
PROPERTY Answered
