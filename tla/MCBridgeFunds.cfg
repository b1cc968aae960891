SPECIFICATION MCSpec
CONSTANTS
  a1 = a1
  a3 = a3
  m1 = m1
  m2 = m2
  u1 = u1
  u2 = u2
  Word = 64
  Confirmations = 2
  RecentSlots = 2
  WithdrawalFee <- MCFee
  DepositFee <- MCFee
  ReplayWait = 60
  Start = 60
  Deposits <- MCDeposits
  Outputs <- MCOutputs
  BlockOf <- MCBlockOf
  AmountOf <- MCAmountOf
  OwnerOf <- MCOwnerOf
  AutoClaimed <- MCAuto
  HeaderFees <- MCHeaderFees
  Users <- MCUsers
  Held = {}
  Amounts = {3}
  MaxRequests = 2
  MaxProofs = 2
  MaxPosted = 2
  MaxTime = 120
INVARIANTS
  
  NeverPaidTwice
  RequestsPaidInOrder
  ReplaysAreSpaced
CHECK_DEADLOCK FALSE
