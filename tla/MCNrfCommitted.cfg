SPECIFICATION Spec
CONSTANTS
  Requests = {r1, r2}
  Profiles = {p1, g1}
  Gateways = {g1}
  None = none
  FailureLimit = 2
  MaxChanges = 2
  MaxConnects = 2
  MaxPresses = 0
  MaxFaults = 2
  MaxNvsFailures = 1
CHECK_DEADLOCK FALSE
PROPERTIES
  StartsCommitted
