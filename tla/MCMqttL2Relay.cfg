SPECIFICATION Spec
CONSTANTS
  Gateways = {g1, g2}
  Leaves = {l1}
  MsgIds = {i1, i2}
  Kinds = {application}
  Lengths = {1, 2}
  FragmentBytes = 2
  AssemblyCount = 2
  QueueDepth = 1
  AllocOutcomes = {TRUE, FALSE}
  MaxSends = 3
  MaxDuplicates = 1
  None = None
  g1 = g1
  g2 = g2
  l1 = l1
  i1 = i1
  i2 = i2
  application = application
SYMMETRY Symmetry
INVARIANTS
  DeliveredWhole
PROPERTIES
  OnlyOldestGivesWay
  FirstFragmentKept
  ImplementsService
CHECK_DEADLOCK FALSE
