SPECIFICATION Spec
CONSTANTS
  PortDigits = 1
  CommandLines <- MCCommandLines
  Clients = {"c1"}
  Claims = {"e1"}
INVARIANTS
  RegistrationMatches
  KeyMatchesReference
  OneBackendPerScope
  DoorAsWritten
  KeysApart
CHECK_DEADLOCK FALSE
