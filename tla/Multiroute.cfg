SPECIFICATION FairSpec
CONSTANTS
  Loads <- Conversations
  Capacity = 1
  MaxResp = 3
  Faults = {"loss", "refuse", "peer", "session"}
INVARIANTS
  OwnBytesOnly
  AnswersInOrder
  NextAfterWhole
  NotAfterClose
  NoFalsePoison
  CompletedIsWhole
PROPERTIES
  AlwaysEnds
  DrainEnds
