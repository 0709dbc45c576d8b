SPECIFICATION FairSpec
CONSTANTS
  Exporter <- Two
  Skew = TRUE
  MaxCut = 2
  Faults = {"crash", "shutdown", "session", "blind"}
INVARIANTS AgreedActive
PROPERTIES Converges
CHECK_DEADLOCK FALSE
