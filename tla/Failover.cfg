SPECIFICATION FairFailoverSpec
CONSTANTS
  Exporter <- Two
  Skew = TRUE
  MaxCut = 1
  Faults = {"crash", "shutdown"}
  MaxSample = 1
  CacheSize = 1
  ClientFaults = {"dial", "backend", "hang"}
PROPERTIES WaitingServed SplitEndsInReset
CHECK_DEADLOCK FALSE
