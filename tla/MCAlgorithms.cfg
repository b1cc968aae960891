CONSTANTS
  IndexTargets = {0, 1, 2, 4}
  BlockNumbers = 16
  TxNumbers = 8
  LeavesPerTx = 4
  LeafSize = 8
SPECIFICATION Spec
INVARIANTS
  FeesAreExact
  
  IndexNamesOutput
  PathProvesPlace
CHECK_DEADLOCK FALSE
