\* An invitation is accepted.
CONSTANTS
  a = a
  b = b
  Users = {a, b}
  KeyedUsers <- NoUsers
  InitFriends <- Strangers
  DbFailures = FALSE
  Straddle = FALSE
  MaxInvitations = 2
  MaxNow = 1
SPECIFICATION Spec
INVARIANTS
  AcceptNotifiesSender
