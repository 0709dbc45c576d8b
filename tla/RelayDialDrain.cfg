SPECIFICATION FairSpec
CONSTANTS
  Stream = TRUE
  MaxRead <- Read11
  Capacity = 2
  CacheSize = 2
  MaxLoss = 0
  Faults = {"drain"}
PROPERTIES UncleanExportEndsImport
CHECK_DEADLOCK FALSE
