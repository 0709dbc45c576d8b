SPECIFICATION FairSpec
CONSTANTS
  Client = {c1, c2}
  MaxTask = 4
  MaxFlap = 1
  MaxTerm = 2
INVARIANTS NoOrphan NoMissedClient GoneIsTornDown IdleServesNobody
PROPERTIES ShutdownEnds
CHECK_DEADLOCK FALSE
