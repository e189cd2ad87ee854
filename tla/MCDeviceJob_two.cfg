SPECIFICATION Spec
CONSTANTS
  h1 = h1
  h2 = h2
  j1 = j1
  j2 = j2
  NoJob = NoJob
  Handles <- TwoHandles
  JobIds <- OneJob
  MaxPrograms = 1
  Params <- OneParam
  ErrorCodes <- NoErrors
  SupportsCalibration = TRUE
INVARIANTS
  StatusFollowsServer
PROPERTIES
  ImplementsLifecycle
CHECK_DEADLOCK FALSE
SYMMETRY HandleSymmetry
VIEW WithoutRet
CONSTRAINT NoDownloads
