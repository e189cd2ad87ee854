SPECIFICATION Spec
CONSTANTS
  c1 = c1
  c2 = c2
  s1 = s1
  s2 = s2
  None = None
  Computers <- TwoComputers
  AliasOf <- TwoAliases
  Calibrations <- TwoCalibrations
  Environments <- MCEnvironments
  ErrorCodes <- MCErrors
INVARIANTS
  TypeOK
  CalibrationIsPinned
  SelectionRespected
PROPERTIES
  ImplementsSnapshot
CHECK_DEADLOCK FALSE
