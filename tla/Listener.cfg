SPECIFICATION FairSpec
CONSTANTS
  Client = {c1, c2, c3}
  MaxConn = 2
  Drain = 2
  Grace = 1
  Margin = 5
INVARIANTS PermitsConserved ClosedMeansDrained DrainFits ReadyMeansBound
PROPERTIES SlotIsUsed StopExits
CHECK_DEADLOCK FALSE
