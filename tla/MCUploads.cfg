CONSTANTS
  Scenarios = {"txo", "txo_seq", "generic", "mint", "limiter"}
  Operator = operator
  Payer = operator
  bridge = bridge
  NoKey = NoKey
  Zero = Zero
  ZeroHash = ZeroHash
  p1 = p1
  p2 = p2
  q1 = q1
  q2 = q2
  q3 = q3
  Jobs <- TxoJobs
  MaxRetries = 1
  MaxFaults = 3
  MaxGrow = 3
  Clients = {"parallel"}
  Window = 2
  GenericJobs <- ByteJobs
  Blank = Zero
  MaxIncrease = 2
  GenericClients = {"parallel", "sequential", "js"}
  GenericWindow = 2
  GenericRetries = 2
  GenericFaults = 3
  Tasks = {1, 2, 3, 4}
  Burst = 1
  QueueOnLimit = TRUE
  MaxQueueDepth = 2
  MaxRequests = 7
  MaxDrops = 2
SPECIFICATION FairSpec
INVARIANTS
  BufferIsWhole
  BytesAreExact
  QueueIsBounded
PROPERTY
  UploadsAreAccepted
CHECK_DEADLOCK FALSE
