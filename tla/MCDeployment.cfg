SPECIFICATION FairDeploymentSpec
CONSTANTS
  k1 = k1
  k2 = k2
  Unset = Unset
  Failure = Failure
  NoArg = NoArg
  Callers <- TwoCallers
  Args <- CommandLines
  Clients <- FiveClients
  Allow <- Policy
  Bodies <- AdvertisedUris
INVARIANTS
  ClientTypeOK
  OneAnswer
  SelectedReaches
PROPERTIES
  FetchesOnce
  WaiterEnds
