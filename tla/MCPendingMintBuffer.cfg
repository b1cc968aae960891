SPECIFICATION BufSpec
CONSTANTS
  w1 = w1
  bridge = bridge
  other = other
  NoKey = NoKey
  ZeroHash = ZeroHash
  Writers <- MCWriters
  Lockers <- MCLockers
  MintCounts <- MCMintCounts
  MintData <- MCMintData
  MaxIncrease <- MCMaxIncrease
INVARIANTS
  BufTypeOK
  InitializedIsStored
  LockedIsComplete
PROPERTIES
  LockedIsFrozen
  GroupsAreWrittenOnce
