\* Three interchangeable users, no statement fails, no friends table has a key.
CONSTANTS
  a = a
  b = b
  c = c
  Users = {a, b, c}
  KeyedUsers <- NoUsers
  InitFriends <- Strangers
  DbFailures = FALSE
  Straddle = TRUE
  MaxInvitations = 3
  MaxNow = 1
SYMMETRY Anonymous
SPECIFICATION Spec
INVARIANTS
  OnePendingPerPair
  FriendshipSymmetric
  ListedAtMostTwice
PROPERTIES
  SettlesOnlyNamed
  SettleSucceeds
  ImplementsFriendGraph
