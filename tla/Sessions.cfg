\* Two users, two connections; a is online at first without a session, as
\* test1 and test2 are.
CONSTANTS
  a = a
  b = b
  s1 = s1
  s2 = s2
  Users = {a, b}
  Sessions = {s1, s2}
  NoUser = NoUser
  NoSession = NoSession
  InitOnline <- OnlineAtFirst
  Chosen <- AwayOrUnknown
SYMMETRY Interchangeable
\* Both connections may have been used up.
CHECK_DEADLOCK FALSE
SPECIFICATION Spec
INVARIANTS
  TypeOK
  OnlineExplained
  LoneSessionReached
  PushOnlyWhereLoggedIn
  UpdatingFollowsLogin
