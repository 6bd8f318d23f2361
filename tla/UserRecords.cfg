CONSTANTS
  x1 = x1
  x2 = x2
  t1 = t1
  t2 = t2
  t3 = t3
  Scale = 4
  Step = 2
  Lot = 2
  MinLot = 2
  MaxAsked = 2
  Close = 4
  Headroom = 2
  OrderLife = 2
  Depths <- MCDepths
  Allowances <- MCAllowances
  Sends <- MCThreads
  Txs <- MCTxs
  Confirmations <- MCThreads
  MaxAmount = 2
  GasTank = 1
  Needs <- MCNeeds
  Requests <- MCThreads
  MaxBuy = 2
  MaxSold = 2
  Threads <- MCThreads
  Updates <- MCUpdates
  Messages <- MCMessages
  MaxTrade = 1
  MaxDaily = 1
  MaxTotal = 3
SPECIFICATION MCSpec
SYMMETRY Symmetry
INVARIANTS
  UserTypeOK
  OneTrueAnswer
  ManualBound
  NoWinningsHidden
  RecordCovered
  RefusedForCause
  ToldTruly
  NeverBeyondGrant
PROPERTIES
  ClaimStaysRecorded
CHECK_DEADLOCK FALSE
