SPECIFICATION FairSpec
CONSTANTS
  Stream = TRUE
  MaxRead <- Read11
  Capacity = 1
  CacheSize = 2
  MaxLoss = 0
  Faults = {"peer", "gate", "setup", "shutdown"}
PROPERTIES ResetEnds NoStrandedExport NoStrandedImport HealthyCompletes
