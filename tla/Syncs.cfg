CONSTANTS
  o1 = o1
  c1 = c1
  c2 = c2
  s1 = s1
  s2 = s2
  none = none
  m1 = m1
  p1 = p1
  p2 = p2
  w1 = w1
  w2 = w2
  f1 = f1
  t1 = t1
  k1 = k1
  Fills <- MCFills
  Traders <- MCTraders
  TraderOf <- MCTraderOf
  Web <- MCWeb
  Workers <- MCWorkers
  MaxFail = 1
SPECIFICATION MCSpec
INVARIANT
  CountedAreIndexed
PROPERTIES
  EveryFillBooked
  ViewedMarketsSettle
  FollowedAreEvaluated
CHECK_DEADLOCK FALSE
