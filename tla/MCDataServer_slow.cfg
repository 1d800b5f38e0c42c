SPECIFICATION SlowLiveSpec

CONSTANTS
  RingSize = 3
  EngineResetBit = 2
  MAX_MSG_LEN = 4
  HWM = 2
  MAX_PACKETS = 6
  MAX_FAULTS = 0
  MAX_KILLS = 0

INVARIANT RingInv
INVARIANT NoStaleFetch
INVARIANT PacketsInv
PROPERTY IntactUntilGivingUp
PROPERTY ImplementsStream
PROPERTY EverythingPublished
PROPERTY RingGivenBack
