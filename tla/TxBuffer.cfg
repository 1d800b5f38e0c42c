SPECIFICATION BufferSpec

CONSTANTS
  TX_BUFFER_CHAN = 2
  TX_BUFFER_DEPTH = 3
  TxWord = {1, 2}
  TxInputs = {0, 1, 254, 255}

INVARIANT BufferTypeOK
PROPERTY ImplementsQueues
