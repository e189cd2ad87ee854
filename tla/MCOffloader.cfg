SPECIFICATION FairSpec
CONSTANTS
  c1 = c1
  c2 = c2
  d1 = d1
  d2 = d2
  Calls <- MCCalls
  TimedCalls <- MCTimedCalls
  Dirs <- MCDirs
  NoDir = NoDir
INVARIANTS
  TypeOK
  WorkersReadOwnInputs
  OnlySuccessRemovesInputs
  SuccessLeavesNoInputs
PROPERTIES
  CallsEnd
CHECK_DEADLOCK FALSE
