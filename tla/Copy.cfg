CONSTANTS
  p1 = p1
  p2 = p2
  f1 = f1
  f2 = f2
  f3 = f3
  t1 = t1
  t2 = t2
  g1 = g1
  g2 = g2
  none = none
  NoSource = none
  NoGrant = none
  Pollers <- MCPollers
  Sources <- MCFills3
  Rels <- MCTrader
  RelOf <- OneTrader
  AutoRels <- MCTrader
  Grants <- MCGrant
  MaxTrade = 1
  MaxDaily = 1
  InitMax = 1
  MaxSent = 2
SPECIFICATION Spec
SYMMETRY Symmetry
INVARIANTS
  DailyBound
  TypeOK
  CopiedOnce
  LateSends
PROPERTIES
  FinalKept
