SPECIFICATION FaultLiveSpec

CONSTANTS
  RingSize = 3
  EngineResetBit = 2
  MAX_MSG_LEN = 2
  HWM = 2
  MAX_PACKETS = 5
  MAX_FAULTS = 1
  MAX_KILLS = 0

PROPERTY EngineRecovers
