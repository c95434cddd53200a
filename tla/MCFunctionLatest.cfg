SPECIFICATION Spec
CONSTANTS
  Devices = {gw, leaf}
  Calls = {c1, c2}
  MaxOpen = 2
  GatewayOf <- LeafOfGw
  Publishes <- OwnPublish
  Rules <- NoRules
  Places = {field, road}
  OtaRequests = {}
  DownRequests = {}
  Versions = {}
  Answers = {Nothing}
  MaxInstant = 2
  MaxFaults = 0
  MaxDeletions = 0
  Nothing = Nothing
  gw = gw
  leaf = leaf
  field = field
  road = road
  c1 = c1
  c2 = c2
SYMMETRY Symmetry
INVARIANTS
  LatestIsNewest
CHECK_DEADLOCK FALSE
