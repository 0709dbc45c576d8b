SPECIFICATION FairFailoverSpec
CONSTANTS
  Exporter <- Two
  Skew = FALSE
  MaxCut = 0
  Faults = {"crash"}
  MaxSample = 1
  CacheSize = 1
  ClientFaults = {}
PROPERTIES TakenOverOnce
CHECK_DEADLOCK FALSE
