SPECIFICATION AnyLiveSpec

CONSTANTS
  RingSize = 4
  EngineResetBit = 2
  MAX_MSG_LEN = 2
  HWM = 1
  MAX_PACKETS = 4
  MAX_FAULTS = 1
  MAX_KILLS = 1

INVARIANT TypeOK
INVARIANT AtMostOnce
PROPERTY CleanRestartLosesNothing
PROPERTY CleanRestartRecovers
