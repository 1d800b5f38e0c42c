SPECIFICATION Spec

CONSTANTS
  RingSize = 4
  EngineResetBit = 2
  TX_BUFFER_CHAN = 2
  TX_BUFFER_DEPTH = 2
  TxInputs = {0, 1}
  MAX_TX = 5
  MAX_FAULTS = 0
  MAX_KILLS = 0
  TxWord = {1, 2, 3, 4, 5}

INVARIANT RepliedIsTransmitted
