SPECIFICATION Spec
CONSTANTS
  Devices = {gw, leaf}
  Calls = {c1, c2, c3}
  MaxOpen = 2
  GatewayOf <- LeafOfGw
  Publishes <- MixedPublishes
  Rules <- FieldRule
  Places = {field, road}
  OtaRequests = {}
  DownRequests = {}
  Versions = {}
  Answers = {Nothing}
  MaxInstant = 2
  MaxFaults = 1
  MaxDeletions = 1
  Nothing = Nothing
  gw = gw
  leaf = leaf
  field = field
  road = road
  c1 = c1
  c2 = c2
  c3 = c3
SYMMETRY Symmetry
INVARIANTS
  AllOrNothing
  HistoryComplete
  RowInHistory
  LostOnlyToFaults
CHECK_DEADLOCK FALSE
