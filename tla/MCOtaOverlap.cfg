SPECIFICATION FairSpec
CONSTANTS
  Requests = {r1, r2}
  OneAtATime = FALSE
  NvsOutcomes = {TRUE}
  PublishOutcomes = {TRUE}
  DelayDrains = TRUE
  MaxRedeliveries = 0
  MaxDisconnects = 0
  MaxCrashes = 0
  NoRequest = NoRequest
  r1 = r1
  r2 = r2
PROPERTIES
  InstalledReported
CHECK_DEADLOCK FALSE
