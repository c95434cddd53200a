SPECIFICATION Spec
CONSTANTS
  Requests = {r1, r2}
  OneAtATime = FALSE
  NvsOutcomes = {TRUE, FALSE}
  PublishOutcomes = {TRUE}
  DelayDrains = FALSE
  MaxRedeliveries = 1
  MaxDisconnects = 1
  MaxCrashes = 1
  NoRequest = NoRequest
  r1 = r1
  r2 = r2
SYMMETRY Symmetry
INVARIANTS
  SucceededWasInstalled
  PendingIsUnderWay
CHECK_DEADLOCK FALSE
