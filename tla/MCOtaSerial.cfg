SPECIFICATION FairSpec
CONSTANTS
  Requests = {r1, r2, r3}
  OneAtATime = TRUE
  NvsOutcomes = {TRUE}
  PublishOutcomes = {TRUE}
  DelayDrains = TRUE
  MaxRedeliveries = 0
  MaxDisconnects = 1
  MaxCrashes = 0
  NoRequest = NoRequest
  r1 = r1
  r2 = r2
  r3 = r3
INVARIANTS
  FailedNotInstalled
PROPERTIES
  ResultKeptUntilReported
  RecordedAnswered
CHECK_DEADLOCK FALSE
