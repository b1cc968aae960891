CONSTANTS
  Scenarios = {"errors"}
  Kinds = {"request", "process", "other"}
  MaxChain = 5
  BatchSize = 2
  Uses <- LiveUse
  Limit = 9
  KeepsPace = TRUE
  MaxFaults = 0
  PageSize = 2
  ClaimClients = {"rust", "js"}
  MaxUnread = 1
  ChannelSize = 2
  MaxCrashes = 2
  MaxErrors = 1
SPECIFICATION FairSpec
INVARIANT
  NothingSkipped
CHECK_DEADLOCK FALSE
