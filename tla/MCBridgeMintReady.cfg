SPECIFICATION Spec
CONSTANTS
  w1 = w1
  w2 = w2
  other = other
  Bridge = Bridge
  NoKey = NoKey
  NoAccount = NoAccount
  ZeroHash = ZeroHash
  Writers <- LiveWriters
  Lockers <- LiveLockers
  Deposits <- MCDeposits
  MintCounts <- MCMintCounts
  MintData <- MCMintData
  MaxIncrease = 10240
  Confirmations = 2
  RecentSlots = 2
  BacklogLimit = 8
  BitmapBits = 2
INVARIANT
  ReadyWhenAllMinted
