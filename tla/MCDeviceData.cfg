SPECIFICATION Spec
CONSTANTS
  NoValue = NoValue
  NumShots = 2
  Jobs <- MCJobs
  Absent = Absent
  NotFinite = NotFinite
  TooMany = 4
  Architectures <- MCArchitectures
  GateSets <- MCGateSets
  Observations <- MCObservations
  Unknown = Unknown
  MaxQueue = 2
  MaxChanges = 2
  c1 = c1
  c2 = c2
  None = None
  Calibrations = {s1}
  DefaultId = "iqm.default"
  Computers <- TwoComputers
  AliasOf <- TwoAliases
  Manifest <- TwoDevices
  Settings <- MCSettings
  ExpOf <- MCExpOf
  Now = 100
  Strays <- MCStrays
  NoToken = NoToken
INVARIANTS
  TypeOK
  LayoutOrdersBits
  CountsAgreeWithShots
  SlicesAreLoci
  FidelityIsOfThisGate
  CoherenceIsObserved
  RoutingRespected
  ExpiryIsRead
PROPERTIES
  AnnouncedSizeSuffices
  StatusHeldDuringQuery
CHECK_DEADLOCK FALSE
