SPECIFICATION NodeSpec
CONSTANTS
  Requests = {r1, r2}
  Profiles = {p1, g1}
  Gateways = {g1}
  None = none
  FailureLimit = 2
  MaxChanges = 2
  MaxConnects = 2
  MaxPresses = 1
  MaxFaults = 2
  MaxNvsFailures = 1
  FixMaxAge = 1
  FixInterval = 1
  SampleFailures = 2
  MaxPayload = 2
  MaxWrite = 2
  MaxDocument = 2
  NotifyRetries = 1
  MaxClients = 2
  MaxAsked = 2
  MaxUploads = 2
  MaxRadioFaults = 1
  SentenceUnits = 2
  WithPosition = {2, 3}
  BufferUnits = 2
  RingUnits = 2
  LineUnits = 3
  MaxSentences = 3
  MaxUartFaults = 1
CHECK_DEADLOCK FALSE
INVARIANTS
  AlwaysReachable
  RadioIsStored
  BeaconIsRight
  ClientIsServed
  FixIsReceived
PROPERTIES
  AckedIsStored
  EnabledWhenOff
  RebootFollows
  RadioFollows
