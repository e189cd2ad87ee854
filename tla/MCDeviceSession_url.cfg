SPECIFICATION Spec
CONSTANTS
  c1 = c1
  c2 = c2
  s1 = s1
  s2 = s2
  None = None
  Computers <- TwoComputers
  AliasOf <- TwoAliases
  Calibrations <- TwoCalibrations
  Environments <- MCEnvironments
  ErrorCodes <- MCErrors
PROPERTIES
  UrlHasDefault
CHECK_DEADLOCK FALSE
