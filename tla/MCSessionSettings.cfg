SPECIFICATION SettingsSpec
CONSTANTS
  c1 = c1
  c2 = c2
  None = None
  Calibrations = {s1}
  DefaultId = "iqm.default"
  Computers <- TwoComputers
  AliasOf <- TwoAliases
  Manifest <- TwoDevices
  Settings <- MCSettings
INVARIANT ExplicitAuthenticationWins
CHECK_DEADLOCK FALSE
