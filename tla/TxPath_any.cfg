SPECIFICATION LiveSpec

CONSTANTS
  RingSize = 4
  EngineResetBit = 2
  TX_BUFFER_CHAN = 2
  TX_BUFFER_DEPTH = 2
  TxInputs = {0, 1, 254}
  MAX_TX = 5
  MAX_FAULTS = 1
  MAX_KILLS = 1
  TxWord = {1, 2, 3, 4, 5}

INVARIANT TypeOK
INVARIANT WireInOrder
INVARIANT AllTransmittedBeforeRecv
INVARIANT NothingTwice
INVARIANT NoStaleFetch
PROPERTY PollEnds
