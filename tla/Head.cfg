SPECIFICATION FairSpec
CONSTANTS
  Doors = {"raw", "auto", "terminate", "http", "ws"}
  Profiles <- MCProfiles
  Window = 3
  MaxHeader = 3
  Chunk = 2
  MaxSend = 5
  Faults = {"io", "session", "slow", "churn", "refuse"}
INVARIANTS
  ReplayExact
  RoutedAsNamed
  AnswersInProtocol
  ClosedForCause
  BoundedBuffer
PROPERTIES
  HeadEnds
CHECK_DEADLOCK FALSE
