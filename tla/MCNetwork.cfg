\* Both codecs, every packet, chunks of one byte or all there is.
SPECIFICATION Spec
CONSTANTS
  Batches <- MCBatches
  MaxIncomingSize = 200
  MaxBufferLen = 2
  KeepAlive = 2
  MaxPending = 1
  MaxQuiet = 2
  FineBytes = 3
INVARIANTS
  TypeOK
  InOrder
  NothingLeftBehind
  EndToldRight
  KeepAliveNotEarly
  
CHECK_DEADLOCK FALSE
