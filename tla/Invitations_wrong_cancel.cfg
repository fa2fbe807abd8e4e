\* Two invitations are pending and the older one is cancelled.
CONSTANTS
  a = a
  b = b
  c = c
  Users = {a, b, c}
  KeyedUsers <- NoUsers
  InitFriends <- Strangers
  DbFailures = FALSE
  Straddle = FALSE
  MaxInvitations = 2
  MaxNow = 1
SPECIFICATION Spec
INVARIANTS
  CancelNotifiesReceiver
