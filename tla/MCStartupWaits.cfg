SPECIFICATION StartupSpec
CONSTANTS
  Documents = {u, n, b}
  Upstream = {u}
  Unsupported = {b}
  NoDocument = none
  HandlerInTime = TRUE
  MaxDocuments = 3
  MaxFaults = 3
  MaxErasures = 1
INVARIANT
  WaitsForWifi
CHECK_DEADLOCK FALSE
