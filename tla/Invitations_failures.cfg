\* Two users, strangers at first; statements fail, INSERT pairs straddle
\* seconds, a's friends table has a primary key.
CONSTANTS
  a = a
  b = b
  Users = {a, b}
  KeyedUsers <- KeyedA
  InitFriends <- Strangers
  DbFailures = TRUE
  Straddle = TRUE
  MaxInvitations = 3
  MaxNow = 2
SPECIFICATION Spec
INVARIANTS
  PendingAgree
  IndInv
  DivergeOnlyInSameSecond
  FriendsWereAccepted
PROPERTIES
  RecvSettledForever
  ErrorTearsOnlyNamed
