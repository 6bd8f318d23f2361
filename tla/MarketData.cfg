CONSTANTS
  x1 = x1
  x2 = x2
  y1 = y1
  y2 = y2
  z1 = z1
  z2 = z2
  u1 = u1
  p1 = p1
  w1 = w1
  w2 = w2
  e1 = e1
  Markets <- MCThreads
  Procs <- MCProcs
  Web <- MCWeb
  Workers <- MCWorkers
  Pages <- MCPages
  Shared = TRUE
  MaxFail = 1
  Events <- MCEvents
  States <- MarketStates
  Runners <- MCThreads
  MaxRuns = 3
  RuleValues <- RuleChoices
  FactValues <- FactChoices
  Grants <- MCGrants
  Spent = 20
  MaxChanges = 2
  Traders <- MCTraders
  Callers <- MCThreads
  Perms <- MCPerms
  Askers <- MCThreads
  Users <- MCUsers
  Settings <- MCSettings
  Ops <- MCOps
  Limit = 2
  Ttl = 1
  NewsTtl = 2
  MaxClock = 3
  MaxAsked = 2
SPECIFICATION MCSpec
CONSTRAINT StillTold
SYMMETRY Symmetry
INVARIANTS
  OneSyncPerProcess
  OneFinding
  EnginesAgree
  WaitsForCause
  FollowedIsAllowed
  CallsSpaced
PROPERTIES
  SettledStays
  StoppedStays
CHECK_DEADLOCK FALSE
