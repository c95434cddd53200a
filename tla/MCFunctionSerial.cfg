SPECIFICATION Spec
CONSTANTS
  Devices = {gw, leaf}
  Calls = {c1, c2, c3}
  MaxOpen = 1
  GatewayOf <- LeafOfGw
  Publishes <- AllPublishes
  Rules <- FieldRule
  Places = {field, road}
  OtaRequests = {o1, o2}
  DownRequests = {q1}
  Versions = {v2}
  Answers = {v2, Nothing}
  MaxInstant = 3
  MaxFaults = 1
  MaxDeletions = 0
  Nothing = Nothing
  gw = gw
  leaf = leaf
  field = field
  road = road
  c1 = c1
  c2 = c2
  c3 = c3
  o1 = o1
  o2 = o2
  q1 = q1
  v2 = v2
SYMMETRY Symmetry
INVARIANTS
  TablesAgree
  UpdatesSettle
CHECK_DEADLOCK FALSE
