\* A publish with properties, written to a subscriber of MQTT 3.1.1.
SPECIFICATION Spec
CONSTANTS
  Batches <- MixedBatches
  MaxIncomingSize = 200
  MaxBufferLen = 2
  KeepAlive = 2
  MaxPending = 1
  MaxQuiet = 2
  FineBytes = 3
INVARIANTS
  WriterNeverPanics
CHECK_DEADLOCK FALSE
