SPECIFICATION FairTlsSpec
CONSTANTS
  k1 = k1
  k2 = k2
  k3 = k3
  k4 = k4
  Connections <- FourConnections
  MaxPendingHandshakes = 2
INVARIANTS
  PermitsConserved
  DoneExact
PROPERTIES
  BacklogDrains
  PermitReturns
  FinishedIsReturned
CHECK_DEADLOCK FALSE
