SPECIFICATION FairSpec
CONSTANTS
  Margin = 3
  Retries = 1
  Lifetimes <- MCLifetimes
  NoToken = NoToken
  Unreadable = Unreadable
  Timeouts <- MCTimeouts
  MaxSleep = 4
  RequestTimeout = 4
  HoldBack = 2
  RetryAfters <- MCRetryAfters
  Errors <- MCErrors
INVARIANTS
  TypeOK
  OvershootBounded
  EndIsNoticed
PROPERTIES
  KeptTokenSurvivesHoldBack
  TimelyRenewalAvoidsDenial
  WaitReturns
