CONSTANTS
  Scale = 4
  Step = 1
  Lot = 2
  MinLot = 2
  MaxAsked = 2
  Close = 4
  Headroom = 2
  OrderLife = 2
  Depths <- MCDepths
  Allowances <- MCAllowances
SPECIFICATION Spec
INVARIANT SpendWithinAmount
CHECK_DEADLOCK FALSE
