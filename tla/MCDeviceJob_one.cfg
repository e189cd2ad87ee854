SPECIFICATION Spec
CONSTANTS
  h1 = h1
  h2 = h2
  j1 = j1
  j2 = j2
  NoJob = NoJob
  Handles <- OneHandle
  JobIds <- TwoJobs
  MaxPrograms = 2
  Params <- TwoParams
  ErrorCodes <- FewErrors
  SupportsCalibration = TRUE
INVARIANTS
  TypeOK
  AtMostOneRemoteJob
  LostSubmissionReported
  ResultsMatchRequest
  CacheMatchesJob
PROPERTIES
  FailedRequestKeepsHandle
CHECK_DEADLOCK FALSE
VIEW WithoutRet
