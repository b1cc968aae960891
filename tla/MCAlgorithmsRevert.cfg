CONSTANTS
  IndexTargets = {0, 1, 2, 3, 4, 5, 6, 7}
  BlockNumbers = 16
  TxNumbers = 8
  LeavesPerTx = 4
  LeafSize = 8
SPECIFICATION Spec
INVARIANT
  RootIsReference
CHECK_DEADLOCK FALSE
