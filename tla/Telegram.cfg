CONSTANTS
  w1 = w1
  w2 = w2
  k1 = k1
  u1 = u1
  u2 = u2
  c1 = c1
  c2 = c2
  r1 = r1
  r2 = r2
  Webs <- MCWebs
  Commands <- MCCommands
  MaxUpdate = 2
  MaxCrash = 1
  Users <- MCUsers
  Chats <- MCChats
  Requests <- MCRequests
  MaxToken = 2
SPECIFICATION MCSpec
INVARIANT
  LinkedByConsent
PROPERTIES
  QueueSpec
  EveryUpdateHandled
CHECK_DEADLOCK FALSE
