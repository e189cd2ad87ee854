SPECIFICATION Spec
CONSTANTS
  TicksPerSecond = 2
  Timeouts <- MCTimeouts
  Window = 3
  RetryCount = 2
  DefaultRetryAfter = 4
  RetryAfters <- LongPauses
  NoHeader = NoHeader
  IntModulus = 16
  ThresholdVariable = Unset
  Unset = Unset
  Readings <- Quotas
INVARIANTS
  HonoursRetryAfter
