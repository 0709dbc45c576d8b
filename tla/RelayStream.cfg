SPECIFICATION Spec
CONSTANTS
  Stream = TRUE
  MaxRead <- Read21
  Capacity = 1
  CacheSize = 1
  MaxLoss = 1
  Faults = {"peer", "session", "loss", "gate", "setup", "shutdown", "drain"}
INVARIANTS ByteExactOrReset
PROPERTIES ImplementsPipe
CHECK_DEADLOCK FALSE
