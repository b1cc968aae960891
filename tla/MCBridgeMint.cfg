SPECIFICATION Spec
CONSTANTS
  w1 = w1
  w2 = w2
  other = other
  Bridge = Bridge
  NoKey = NoKey
  NoAccount = NoAccount
  ZeroHash = ZeroHash
  Writers <- MCWriters
  Lockers <- MCLockers
  Deposits <- MCDeposits
  MintCounts <- MCMintCounts
  MintData <- MCMintData
  MaxIncrease = 10240
  Confirmations = 2
  RecentSlots = 2
  BacklogLimit = 8
  BitmapBits = 2
INVARIANTS
  TypeOK
  NoDoubleMint
  OnlyProvenMints
  NothingLeftBehind
  MintedMatchesCursor
  PendingBufferIsProven
  LockedOnlyWhilePending
  RemainingIsUnclaimed
  BacklogIsChain
  StuckOnlyOnTrailingEmpty
PROPERTY
  ImplementsLedger
