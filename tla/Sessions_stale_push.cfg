\* A message is pushed to a user whose session was taken over by another login.
CONSTANTS
  a = a
  b = b
  s1 = s1
  s2 = s2
  Users = {a, b}
  Sessions = {s1, s2}
  NoUser = NoUser
  NoSession = NoSession
  InitOnline <- OnlineAtFirst
  Chosen <- AwayOrUnknown
CHECK_DEADLOCK FALSE
SPECIFICATION Spec
INVARIANTS
  PushReachesReceiver
