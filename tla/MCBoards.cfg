SPECIFICATION BoardsSpec
CONSTANTS
  Documents = {u, n, b}
  Upstream = {u}
  Unsupported = {b}
  NoDocument = none
  HandlerInTime = TRUE
  MaxDocuments = 3
  MaxFaults = 3
  MaxErasures = 1
  BeaconDepth = 1
  ReadingDepth = 2
  MaxReadings = 2
  MaxOutages = 1
  MaxRefusals = 1
  Nodes = {n1, n2, n3, n4}
  Slots = {s1, s2, s3}
  MaxLinks = 3
  MaxAge = 2
  Scripts = {p, q}
  Invalid = {q}
  NoScript = none
  QueueRoom = 2
  MaxCommands = 3
  MaxScriptFaults = 2
  Leaves = {l1, l2, l3}
  PeerCount = 2
  NoLeaf = none
  MaxAdverts = 5
  MaxLookups = 2
  Users = {ua, ub}
  NoUser = nobody
  MaxLogins = 2
  MaxRefreshes = 2
  MaxSaves = 1
  MaxAppFaults = 2
  Operators = {oa, ob}
  NoOperator = nooperator
  Devices = {d1, d2}
  NoDevice = nodevice
  FarmOne = {d1, d2}
  Ranges = {"1h", "24h"}
  MaxPortalEvents = 2
  MaxHistories = 2
  MaxRuns = 2
  MaxEvents = 2
  BufferSize = 4
  ChunkSize = 2
  MaxWriteSize = 2
  MaxWrites = 2
  MaxExecutions = 2
  MaxBoots = 1
  Trackers = {t}
  Boards = {e}
  Gateways = {h}
  NoTarget = notarget
  Pastures = {p1, p2}
  NoPasture = nopasture
  MaxAttempts = 2
  MaxDialogEvents = 2
INVARIANTS
  BoardsTypeOK
  AcknowledgedIsStored
  NeverDeaf
  SecondClientNeedsOverlap
  OutageLosesOne
  NeighboursListed
  PinsExclusive
  ToldIsTrue
  CommandFindsItsLeaf
  UsersApart
  PortalShowsSelected
  InstallRepeatable
  BlobIsOfItsRun
  SetupIsRight
PROPERTIES
  AcceptedIsUsed
  BoardHeard
CHECK_DEADLOCK FALSE
