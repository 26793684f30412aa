SPECIFICATION DiagLiveSpec
CONSTANTS
  c1 = c1
  c2 = c2
  Nobody = Nobody
  Callers <- CallersDef
  Kinds <- KindsDef
  Capacity = 1
  MaxDial = 2
  MaxEpoch = 2
  MaxRevision = 1
  Cancellable = TRUE
CHECK_DEADLOCK FALSE
INVARIANTS
  TypeOK
  SingleDeviceConnection
  SuppressionHolds
  ShownIsInstalled
  TentativeHasOwner
PROPERTIES
  ComesToRest
  SuppressionOwned
