SPECIFICATION Spec
CONSTANTS
  Loads <- Conversations
  Capacity = 1
  MaxResp = 3
  Faults = {}
INVARIANTS
  NeverAGap
