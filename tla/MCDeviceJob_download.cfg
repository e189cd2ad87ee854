SPECIFICATION Spec
CONSTANTS
  h1 = h1
  h2 = h2
  j1 = j1
  j2 = j2
  NoJob = NoJob
  Handles <- OneHandle
  JobIds <- OneJob
  MaxPrograms = 1
  Params <- OneParam
  ErrorCodes <- FewErrors
  SupportsCalibration = TRUE
CHECK_DEADLOCK FALSE
PROPERTY DownloadFailureKeepsOutcome
