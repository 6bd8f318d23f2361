CONSTANTS
  p1 = p1
  p2 = p2
  f1 = f1
  f2 = f2
  f3 = f3
  t1 = t1
  t2 = t2
  g1 = g1
  g2 = g2
  none = none
  NoSource = none
  NoGrant = none
  Pollers <- MCPoller
  Sources <- MCFills2
  Rels <- MCTraders
  RelOf <- TwoTraders
  AutoRels <- MCTraders
  Grants <- MCGrant
  MaxTrade = 2
  MaxDaily = 2
  InitMax = 2
  MaxSent = 1
SPECIFICATION Spec
INVARIANTS
  DailyCap
