\* A statement fails inside an accept.
CONSTANTS
  a = a
  b = b
  Users = {a, b}
  KeyedUsers <- NoUsers
  InitFriends <- Strangers
  DbFailures = TRUE
  Straddle = FALSE
  MaxInvitations = 2
  MaxNow = 1
SPECIFICATION Spec
PROPERTIES
  ErrorChangesNothing
