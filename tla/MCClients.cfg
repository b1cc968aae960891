CONSTANTS
  Scenarios = {"one_key", "two_keys", "wallet", "mint", "mint_js"}
  Operator = operator
  Bridge = bridge
  Writers = {operator}
  Lockers = {bridge}
  NoKey = NoKey
  NoAccount = NoAccount
  ZeroHash = ZeroHash
  Deposits <- BlockDeposits
  MintData <- GroupRecords
  MintCounts = {0, 25, 49}
  MaxIncrease = 10240
  Confirmations = 2
  RecentSlots = 2
  BacklogLimit = 8
  BitmapBits = 3
  Callers = {"c1", "c2"}
  JsCallers = {}
  Reorgs = {}
  MaxRetries = 1
  MaxFaults = 1
SPECIFICATION ClientsSpec
INVARIANTS
  NeverRefused
  CompletedMeansMinted
PROPERTIES
  TransfersGoThrough
  AllIsMinted
CHECK_DEADLOCK FALSE
