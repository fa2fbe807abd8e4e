\* Two test users, who are friends, and one id for those who register; two
\* starts with whatever crashes; one failing DROP of each loop, or all failing.
CONSTANTS
  NewNames = {ann}
  NoName = NoName
  NTest = 2
  Friendly = 2
  MaxId = 3
  MaxStarts = 2
  MaxEvents = 1
  MaxKept = 1
  Sessions = {s1, s2, s3}
  NoSession = NoSession
SPECIFICATION Spec
INVARIANTS
  AccountsInv
  OnlyTornIncomplete
  FriendsMadeOrInherited
  HandlesInv
PROPERTIES
  StartRestores
  OnlyCloneHeals
CHECK_DEADLOCK FALSE
