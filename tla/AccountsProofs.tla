--------------------------- MODULE AccountsProofs --------------------------
(***************************************************************************)
(* For any numbers of test users, ids, starts, failing statements and      *)
(* requests: a start none of whose statements fails brings the initial     *)
(* data back, and what is true of users and friends afterwards.  For any   *)
(* number of sessions: the shared member of Handles never refers to a      *)
(* connection that was removed or never opened, and only cloneConnection   *)
(* makes failing queries work again.                                       *)
(***************************************************************************)
EXTENDS Accounts, Handles, TLAPS

LEMMA Bounds ==
  /\ NTest \in Nat /\ Friendly \in Nat /\ MaxId \in Nat
  /\ 2 <= Friendly /\ Friendly <= NTest /\ NTest <= MaxId
  /\ FriendlyIds \subseteq TestIds /\ TestIds \subseteq Ids
  /\ MaxStarts \in Nat /\ MaxEvents \in Nat
  BY AccountsAssumption DEF AccountsAssumption, FriendlyIds, TestIds, Ids

LEMMA TestNamesAreNames ==
  \A u \in TestIds : TestName(u) \in Names /\ TestName(u) # NoName
<1>1. \A u \in TestIds : TestName(u) \in Names
  BY DEF Names
<1>2. QED
  BY <1>1, AccountsAssumption DEF AccountsAssumption

LEMMA KeptIsSubset ==
  ASSUME NEW D, NEW kept \in Kept(D)
  PROVE  kept \subseteq D
  BY DEF Kept

LEMMA MeetingIsPair ==
  \A u, v \in Ids : Meeting(u, v) \in Pairs
  BY DEF Meeting, Pairs

\* The positions of the pairs, which run from 1 to AllRanks.
LEMMA RankIsInt ==
  ASSUME NEW u \in FriendlyIds, NEW v \in FriendlyIds
  PROVE  Rank(u, v) \in Int
<1>1. u - 1 \in Int /\ Friendly - 1 \in Int /\ v \in Int
  BY Bounds DEF FriendlyIds
<1>2. (u - 1) * (Friendly - 1) \in Int
  BY <1>1
<1>3. QED
  BY <1>1, <1>2 DEF Rank

LEMMA RankBound ==
  ASSUME NEW u \in FriendlyIds, NEW v \in FriendlyIds, u # v
  PROVE  Rank(u, v) <= AllRanks
<1> DEFINE f == Friendly - 1
           r == IF v > u THEN v - 1 ELSE v
<1>1. /\ Friendly \in Int /\ u \in Int /\ v \in Int /\ f \in Int /\ r \in Int
      /\ u - 1 <= f /\ 0 <= f /\ u - 1 \in Int
  BY Bounds DEF FriendlyIds
<1>2. r <= f
  BY Bounds DEF FriendlyIds
<1>3. \A x, y, z \in Int : x <= y /\ 0 <= z => x * z <= y * z
  OBVIOUS
<1> HIDE DEF f, r
<1>4. (u - 1) * f <= f * f
  BY <1>1, <1>3
<1>5. Friendly * f = f * f + f
  <2>1. Friendly = f + 1
    BY Bounds DEF f
  <2>2. (f + 1) * f = f * f + f
    BY <1>1
  <2>3. QED
    BY <2>1, <2>2
<1>6. Rank(u, v) = (u - 1) * f + r
  BY DEF Rank, f, r
<1>7. AllRanks = Friendly * f
  BY DEF AllRanks, f
<1>8. (u - 1) * f \in Int /\ f * f \in Int
  BY <1>1
<1>9. QED
  BY <1>1, <1>2, <1>4, <1>5, <1>6, <1>7, <1>8

LEMMA AllRanksNat == AllRanks \in Nat
<1>1. \A x, y \in Nat : x * y \in Nat
  OBVIOUS
<1>2. Friendly \in Nat /\ Friendly - 1 \in Nat
  BY Bounds
<1>3. QED
  BY <1>1, <1>2 DEF AllRanks

LEMMA PairsWithin ==
  ASSUME NEW m, NEW pair \in PairsUpTo(m)
  PROVE  /\ pair[1] \in FriendlyIds /\ pair[2] \in FriendlyIds /\ pair[1] # pair[2]
         /\ pair = <<pair[1], pair[2]>>
  BY DEF PairsUpTo

LEMMA PairsGrow ==
  ASSUME NEW m \in Nat, NEW n \in Nat, m <= n
  PROVE  PairsUpTo(m) \subseteq PairsUpTo(n)
<1> SUFFICES ASSUME NEW pair \in FriendlyIds \X FriendlyIds, pair[1] # pair[2],
                    Rank(pair[1], pair[2]) <= m
             PROVE  Rank(pair[1], pair[2]) <= n
  BY DEF PairsUpTo
<1>1. Rank(pair[1], pair[2]) \in Int
  BY RankIsInt
<1>2. QED
  BY <1>1

LEMMA AllPairs ==
  ASSUME NEW u \in FriendlyIds, NEW v \in FriendlyIds, u # v
  PROVE  <<u, v>> \in PairsUpTo(AllRanks)
<1>1. Rank(u, v) <= AllRanks
  BY RankBound
<1>2. QED
  BY <1>1 DEF PairsUpTo
-----------------------------------------------------------------------------
USE DEF NoChats, NoInvitations, AllInvitations, NoTestFriends, NoUsers, TestUsers,
        AllBefriended, UsersDeleted

LEMMA InitInv == AccountsInit => AccountsInv
<1> SUFFICES ASSUME AccountsInit PROVE AccountsInv
  OBVIOUS
<1>1. /\ users \in [Ids -> Names \cup {NoName}]
      /\ friends \in [Ids -> SUBSET Ids]
      /\ \A u \in Ids : users[u] = NoName /\ friends[u] = {}
  BY DEF AccountsInit
<1>2. AccountsTypeOK
  <2>1. step \in Steps /\ failed \in BOOLEAN
    BY DEF AccountsInit, Steps
  <2>2. nextId \in 1..(MaxId + 1) /\ starts \in 0..MaxStarts /\ events \in 0..MaxEvents
    BY Bounds DEF AccountsInit
  <2>3. /\ tables \subseteq Kinds \X Ids /\ chats \subseteq Pairs
        /\ torn \subseteq Ids /\ met \subseteq Pairs /\ leftover \subseteq Ids \X Ids
    BY DEF AccountsInit
  <2>4. QED
    BY <1>1, <2>1, <2>2, <2>3 DEF AccountsTypeOK, Exists
<1>3. Restoring
  BY DEF AccountsInit, Restoring
<1>4. OnlyTornIncomplete /\ FriendsMadeOrInherited
  BY DEF AccountsInit, OnlyTornIncomplete, FriendsMadeOrInherited
<1>5. QED
  BY <1>2, <1>3, <1>4 DEF AccountsInv
-----------------------------------------------------------------------------
(* The start.                                                              *)

\* Before the server serves, only the types and Restoring say anything.
LEMMA NotServing ==
  ASSUME AccountsTypeOK', Restoring', step' # "serving" \/ failed'
  PROVE  AccountsInv'
  BY DEF AccountsInv, OnlyTornIncomplete, FriendsMadeOrInherited

LEMMA StartServerInv ==
  ASSUME AccountsInv, NEW begun \in BOOLEAN, StartServer(begun)
  PROVE  AccountsInv'
<1>1. AccountsTypeOK'
  BY Bounds
  DEF AccountsInv, AccountsTypeOK, StartServer, Steps, Exists, stored, accountHistory
<1>2. Restoring'
  BY DEF AccountsInv, Restoring, StartServer, stored, accountHistory
<1>3. QED
  BY <1>1, <1>2, NotServing DEF StartServer

LEMMA DropChatsInv ==
  ASSUME AccountsInv, DropChats
  PROVE  AccountsInv'
<1>1. PICK kept \in Kept(chats) : chats' = kept /\ failed' = (failed \/ kept # {})
  BY DEF DropChats
<1>2. chats' \subseteq chats
  BY <1>1, KeptIsSubset
<1>3. AccountsTypeOK'
  BY <1>1, <1>2
  DEF AccountsInv, AccountsTypeOK, DropChats, Steps, Exists, accountHistory
<1>4. Restoring'
  BY <1>1 DEF AccountsInv, Restoring, DropChats, accountHistory
<1>5. QED
  BY <1>3, <1>4, NotServing DEF DropChats

LEMMA DropInvitationsInv ==
  ASSUME AccountsInv, DropInvitations
  PROVE  AccountsInv'
<1>1. PICK kept \in Kept(InvitationTables) :
        /\ tables' = (tables \ InvitationTables) \cup kept
        /\ failed' = (failed \/ kept # {})
  BY DEF DropInvitations
<1>2. kept \subseteq InvitationTables
  BY KeptIsSubset
<1>3. tables' \subseteq tables
  BY <1>1, <1>2 DEF InvitationTables
<1>4. \A u \in Ids : <<"friends", u>> \in tables => <<"friends", u>> \in tables'
  BY <1>1 DEF InvitationTables
<1>5. AccountsTypeOK'
  BY <1>1, <1>3, <1>4
  DEF AccountsInv, AccountsTypeOK, DropInvitations, Steps, Exists, accountHistory
<1>6. kept = {} =>
        \A u \in Ids : <<"sent", u>> \notin tables' /\ <<"received", u>> \notin tables'
  BY <1>1 DEF InvitationTables
<1>7. Restoring'
  BY <1>1, <1>6 DEF AccountsInv, Restoring, DropInvitations, accountHistory
<1>8. QED
  BY <1>5, <1>7, NotServing DEF DropInvitations

LEMMA DropFriendsInv ==
  ASSUME AccountsInv, DropFriends
  PROVE  AccountsInv'
<1>1. PICK kept \in Kept(tables \cap ({"friends"} \X DroppedIds)) :
        /\ tables' = (tables \ ({"friends"} \X DroppedIds)) \cup kept
        /\ friends' = [u \in Ids |-> IF u \in DroppedIds /\ <<"friends", u>> \notin kept
                                     THEN {} ELSE friends[u]]
        /\ failed' = (failed \/ kept # {})
  BY DEF DropFriends
<1>2. kept \subseteq tables
  BY KeptIsSubset
<1>3. tables' \subseteq tables
  BY <1>1, <1>2
<1>4. friends' \in [Ids -> SUBSET Ids]
  BY <1>1 DEF AccountsInv, AccountsTypeOK
<1>5. \A u \in Ids : friends'[u] # {} => <<"friends", u>> \in tables'
  BY <1>1 DEF AccountsInv, AccountsTypeOK
<1>6. AccountsTypeOK'
  BY <1>1, <1>3, <1>4, <1>5
  DEF AccountsInv, AccountsTypeOK, DropFriends, Steps, Exists, accountHistory
<1>7. kept = {} =>
        \A u \in TestIds : <<"friends", u>> \notin tables' /\ friends'[u] = {}
  BY <1>1, Bounds DEF DroppedIds
<1>8. Restoring'
  BY <1>1, <1>3, <1>7 DEF AccountsInv, Restoring, DropFriends, accountHistory
<1>9. QED
  BY <1>6, <1>8, NotServing DEF DropFriends

LEMMA DeleteUsersInv ==
  ASSUME AccountsInv, DeleteUsers \/ DeleteUsersFails
  PROVE  AccountsInv'
<1>1. CASE DeleteUsers
  <2>1. users' = [u \in Ids |-> NoName] /\ \A u \in Ids : users'[u] = NoName
    BY <1>1 DEF DeleteUsers
  <2>2. leftover' \subseteq Ids \X Ids
    BY <1>1 DEF DeleteUsers
  <2>3. AccountsTypeOK'
    BY <1>1, <2>1, <2>2, Bounds
    DEF AccountsInv, AccountsTypeOK, DeleteUsers, Steps, Exists
  <2>4. \A u \in Ids : \A v \in friends'[u] : <<u, v>> \in leftover'
    BY <1>1 DEF DeleteUsers, AccountsInv, AccountsTypeOK
  <2>5. Restoring'
    BY <1>1, <2>1, <2>4 DEF AccountsInv, Restoring, DeleteUsers
  <2>6. QED
    BY <1>1, <2>3, <2>5, NotServing DEF DeleteUsers
<1>2. CASE DeleteUsersFails
  <2>1. AccountsTypeOK'
    BY <1>2
    DEF AccountsInv, AccountsTypeOK, DeleteUsersFails, Steps, Exists, stored, accountHistory
  <2>2. QED
    BY <1>2, <2>1, NotServing DEF DeleteUsersFails, Restoring
<1>3. QED
  BY <1>1, <1>2

LEMMA ResetCounterInv ==
  ASSUME AccountsInv, ResetCounter \/ ResetCounterFails
  PROVE  AccountsInv'
<1>1. CASE ResetCounter
  <2>1. AccountsTypeOK'
    BY <1>1, Bounds
    DEF AccountsInv, AccountsTypeOK, ResetCounter, Steps, Exists, accountHistory, Ids
  <2>2. ~failed => nextId' = 1
    <3>1. ~failed => \A u \in Ids : ~Exists(u)
      BY <1>1 DEF AccountsInv, Restoring, ResetCounter, Exists
    <3>2. nextId' \in Int /\ 1 <= nextId' /\ nextId' <= MaxId
      BY <1>1, Bounds DEF ResetCounter, Ids
    <3>3. \A k \in Int : 1 < k /\ k <= MaxId => k - 1 \in Ids
      BY Bounds DEF Ids
    <3>4. QED
      BY <1>1, <3>1, <3>2, <3>3 DEF ResetCounter
  <2>3. Restoring'
    BY <1>1, <2>2 DEF AccountsInv, Restoring, ResetCounter, accountHistory
  <2>4. QED
    BY <1>1, <2>1, <2>3, NotServing DEF ResetCounter
<1>2. CASE ResetCounterFails
  <2>1. AccountsTypeOK'
    BY <1>2
    DEF AccountsInv, AccountsTypeOK, ResetCounterFails, Steps, Exists, stored, accountHistory
  <2>2. QED
    BY <1>2, <2>1, NotServing DEF ResetCounterFails, Restoring
<1>3. QED
  BY <1>1, <1>2

LEMMA CrashInv ==
  ASSUME AccountsInv, Crash
  PROVE  AccountsInv'
<1>1. AccountsTypeOK'
  BY DEF AccountsInv, AccountsTypeOK, Crash, Steps, Exists, stored, accountHistory
<1>2. Restoring'
  BY DEF Crash, Restoring
<1>3. QED
  BY <1>1, <1>2, NotServing DEF Crash
-----------------------------------------------------------------------------
(* The part of the start that may throw.                                   *)

LEMMA InsertInv ==
  ASSUME AccountsInv, NEW n \in 0..NTest, NEW used \in 0..(NTest + 1),
         InsertTestUsers(n, used)
  PROVE  AccountsInv'
<1>1. /\ n \in Int /\ used \in Int /\ nextId \in Int /\ NTest \in Int /\ MaxId \in Int
      /\ 0 <= n /\ n <= NTest /\ n <= used /\ 1 <= nextId
      /\ nextId + used <= MaxId + 1
      /\ nextId' = nextId + used
  BY Bounds DEF InsertTestUsers, AccountsInv, AccountsTypeOK
<1>2. ASSUME NEW u \in Ids
      PROVE  users'[u] = IF u \in nextId..(nextId + n - 1)
                         THEN TestName(u - nextId + 1) ELSE users[u]
  BY DEF InsertTestUsers
<1>3. ASSUME NEW u \in Ids, u \in nextId..(nextId + n - 1)
      PROVE  u - nextId + 1 \in TestIds /\ u < nextId'
  BY <1>1, <1>3 DEF Ids, TestIds
<1>4. ASSUME NEW u \in Ids
      PROVE  users'[u] \in Names \cup {NoName} /\ (users'[u] # NoName => u < nextId')
  <2>1. CASE u \in nextId..(nextId + n - 1)
    BY <1>2, <1>3, <2>1, TestNamesAreNames
  <2>2. CASE u \notin nextId..(nextId + n - 1)
    <3>1. users'[u] = users[u]
      BY <1>2, <2>2
    <3>2. users[u] \in Names \cup {NoName} /\ (users[u] # NoName => u < nextId)
      BY DEF AccountsInv, AccountsTypeOK, Exists
    <3>3. u \in Int
      BY DEF Ids
    <3>4. QED
      BY <1>1, <3>1, <3>2, <3>3
  <2>3. QED
    BY <2>1, <2>2
<1>5. users' \in [Ids -> Names \cup {NoName}]
  <2>1. users' = [u \in Ids |-> users'[u]]
    BY DEF InsertTestUsers
  <2>2. QED
    BY <1>4, <2>1
<1>6. nextId' \in 1..(MaxId + 1)
  BY <1>1
<1>7. AccountsTypeOK'
  BY <1>4, <1>5, <1>6
  DEF AccountsInv, AccountsTypeOK, InsertTestUsers, Proceed, Steps, Exists, accountHistory
<1>8. CASE ~failed'
  <2>1. ~failed /\ n = NTest /\ used = n /\ step' = "create"
    BY <1>8 DEF InsertTestUsers, Proceed
  <2>2. nextId = 1 /\ \A u \in Ids : users[u] = NoName
    BY <2>1 DEF AccountsInv, Restoring, InsertTestUsers
  <2>3. ASSUME NEW u \in Ids
        PROVE  users'[u] = IF u \in TestIds THEN TestName(u) ELSE NoName
    <3>1. u \in nextId..(nextId + n - 1) <=> u \in TestIds
      BY <1>1, <2>1, <2>2 DEF TestIds
    <3>2. u - nextId + 1 = u
      BY <2>2 DEF Ids
    <3>3. QED
      BY <1>2, <2>2, <3>1, <3>2
  <2>4. TestUsersOnly'
    <3>1. nextId' = NTest + 1
      BY <1>1, <2>1, <2>2
    <3>2. users' = [u \in Ids |-> IF u \in TestIds THEN TestName(u) ELSE NoName]
      BY <1>5, <2>3
    <3>3. QED
      BY <3>1, <3>2 DEF TestUsersOnly
  <2>5. Restoring'
    BY <2>1, <2>4 DEF AccountsInv, Restoring, InsertTestUsers, accountHistory
  <2>6. QED
    BY <1>7, <2>1, <2>5, NotServing
<1>9. CASE failed'
  BY <1>7, <1>9, NotServing DEF Restoring
<1>10. QED
  BY <1>8, <1>9

LEMMA CreateInvitationTablesInv ==
  ASSUME AccountsInv, NEW m \in 0..(2 * NTest), CreateInvitationTables(m)
  PROVE  AccountsInv'
<1>1. tables' = tables \cup {<<"sent", u>> : u \in {v \in TestIds : 2 * v - 1 <= m}}
                       \cup {<<"received", u>> : u \in {v \in TestIds : 2 * v <= m}}
  BY DEF CreateInvitationTables
<1>2. tables' \subseteq Kinds \X Ids /\ tables \subseteq tables'
  BY <1>1, Bounds DEF AccountsInv, AccountsTypeOK, Kinds
<1>3. AccountsTypeOK'
  BY <1>2
  DEF AccountsInv, AccountsTypeOK, CreateInvitationTables, Proceed, Steps, Exists,
      accountHistory
<1>4. CASE ~failed'
  <2>1. ~failed /\ m = 2 * NTest /\ step = "create" /\ step' = "befriend"
    BY <1>4 DEF CreateInvitationTables, Proceed
  <2>2. \A v \in TestIds : 2 * v - 1 <= m /\ 2 * v <= m
    BY <2>1, Bounds DEF TestIds
  <2>3. \A u \in Ids : /\ <<"sent", u>> \notin tables
                      /\ <<"received", u>> \notin tables
    BY <2>1 DEF AccountsInv, Restoring
  <2>4. \A u \in Ids : \A kind \in {"sent", "received"} :
          <<kind, u>> \in tables' <=> u \in TestIds
    BY <1>1, <2>2, <2>3
  <2>5. \A u \in TestIds : <<"friends", u>> \in tables' => <<"friends", u>> \in tables
    BY <1>1
  <2>6. TestUsersOnly'
    BY <2>1 DEF AccountsInv, Restoring, TestUsersOnly, CreateInvitationTables
  <2>7. Restoring'
    BY <2>1, <2>4, <2>5, <2>6
    DEF AccountsInv, Restoring, CreateInvitationTables, accountHistory
  <2>8. QED
    BY <1>3, <2>1, <2>7, NotServing
<1>5. CASE failed'
  BY <1>3, <1>5, NotServing DEF Restoring
<1>6. QED
  BY <1>4, <1>5

LEMMA BefriendTestUsersInv ==
  ASSUME AccountsInv, NEW m \in 0..AllRanks, NEW begun \in 0..AllRanks,
         BefriendTestUsers(m, begun)
  PROVE  AccountsInv'
<1>1. PairsUpTo(m) \subseteq PairsUpTo(begun)
  <2>1. m \in Nat /\ begun \in Nat /\ m <= begun
    BY AllRanksNat DEF BefriendTestUsers
  <2>2. QED
    BY <2>1, PairsGrow
<1>2. tables' = tables \cup {<<"friends", pair[1]>> : pair \in PairsUpTo(begun)}
  BY DEF BefriendTestUsers
<1>3. ASSUME NEW u \in Ids
      PROVE  friends'[u] = friends[u] \cup {v \in Ids : <<u, v>> \in PairsUpTo(m)}
  BY DEF BefriendTestUsers
<1>4. met' = met \cup {Meeting(pair[1], pair[2]) : pair \in PairsUpTo(m)}
  BY DEF BefriendTestUsers
<1>5. tables' \subseteq Kinds \X Ids /\ tables \subseteq tables'
  BY <1>2, PairsWithin, Bounds DEF AccountsInv, AccountsTypeOK, Kinds
<1>6. friends' \in [Ids -> SUBSET Ids]
  BY DEF BefriendTestUsers, AccountsInv, AccountsTypeOK
<1>7. ASSUME NEW u \in Ids, friends'[u] # {}
      PROVE  <<"friends", u>> \in tables'
  <2>1. CASE friends[u] # {}
    BY <1>5, <2>1 DEF AccountsInv, AccountsTypeOK
  <2>2. CASE friends[u] = {}
    <3>1. PICK v \in Ids : <<u, v>> \in PairsUpTo(m)
      BY <1>3, <1>7, <2>2
    <3>2. <<u, v>> \in PairsUpTo(begun)
      BY <1>1, <3>1
    <3>3. QED
      BY <1>2, <3>2
  <2>3. QED
    BY <2>1, <2>2
<1>8. met' \subseteq Pairs
  BY <1>4, PairsWithin, MeetingIsPair, Bounds DEF AccountsInv, AccountsTypeOK
<1>9. AccountsTypeOK'
  BY <1>5, <1>6, <1>7, <1>8
  DEF AccountsInv, AccountsTypeOK, BefriendTestUsers, Proceed, Steps, Exists
<1>10. CASE ~failed'
  <2>1. /\ ~failed /\ m = AllRanks /\ begun = AllRanks
        /\ step = "befriend" /\ step' = "keyed"
    <3>1. ~failed /\ m = AllRanks /\ step = "befriend" /\ step' = "keyed"
      BY <1>10 DEF BefriendTestUsers, Proceed
    <3>2. QED
      BY <3>1, AllRanksNat DEF BefriendTestUsers
  <2>2. \A u \in TestIds : friends[u] = {}
    BY <2>1 DEF AccountsInv, Restoring
  <2>3. \A u \in FriendlyIds : <<"friends", u>> \in tables'
    <3>1. TAKE u \in FriendlyIds
    <3>2. PICK v \in FriendlyIds : u # v
      <4>1. 1 \in FriendlyIds /\ 2 \in FriendlyIds
        BY Bounds DEF FriendlyIds
      <4>2. QED
        BY <4>1
    <3>3. <<u, v>> \in PairsUpTo(begun)
      BY <2>1, <3>2, AllPairs
    <3>4. QED
      BY <1>2, <3>3
  <2>4. \A u \in TestIds :
          friends'[u] = IF u \in FriendlyIds THEN FriendlyIds \ {u} ELSE {}
    <3>1. TAKE u \in TestIds
    <3>2. u \in Ids /\ FriendlyIds \subseteq Ids
      BY Bounds
    <3>3. friends'[u] = {v \in Ids : <<u, v>> \in PairsUpTo(AllRanks)}
      BY <1>3, <2>1, <2>2, <3>2
    <3>4. \A v \in Ids : <<u, v>> \in PairsUpTo(AllRanks) <=>
                          u \in FriendlyIds /\ v \in FriendlyIds /\ u # v
      BY AllPairs, PairsWithin
    <3>5. QED
      BY <3>2, <3>3, <3>4
  <2>5. \A u, v \in FriendlyIds : u # v => Meeting(u, v) \in met'
    <3>1. SUFFICES ASSUME NEW u \in FriendlyIds, NEW v \in FriendlyIds, u # v
                   PROVE  Meeting(u, v) \in met'
      OBVIOUS
    <3>2. <<u, v>> \in PairsUpTo(m)
      BY <2>1, <3>1, AllPairs
    <3>3. QED
      BY <1>4, <3>2
  <2>6. TestFriendsOnly'
    BY <2>3, <2>4, <2>5 DEF TestFriendsOnly
  <2>7. \A u \in Ids \ TestIds : friends'[u] = friends[u]
    <3>1. TAKE u \in Ids \ TestIds
    <3>2. \A v \in Ids : <<u, v>> \notin PairsUpTo(m)
      BY PairsWithin, Bounds
    <3>3. QED
      BY <1>3, <3>2
  <2>8. \A u \in Ids : \A kind \in {"sent", "received"} :
          <<kind, u>> \in tables' <=> <<kind, u>> \in tables
    BY <1>2
  <2>9. TestUsersOnly'
    BY <2>1 DEF AccountsInv, Restoring, TestUsersOnly, BefriendTestUsers
  <2>10. Restoring'
    BY <2>1, <2>6, <2>7, <2>8, <2>9 DEF AccountsInv, Restoring, BefriendTestUsers
  <2>11. QED
    BY <1>9, <2>1, <2>10, NotServing
<1>11. CASE failed'
  BY <1>9, <1>11, NotServing DEF Restoring
<1>12. QED
  BY <1>10, <1>11

LEMMA CreateFriendsTablesInv ==
  ASSUME AccountsInv, NEW m \in 0..NTest, CreateFriendsTables(m)
  PROVE  AccountsInv'
<1>1. tables' = tables \cup ({"friends"} \X ((Friendly + 1)..m))
  BY DEF CreateFriendsTables
<1>2. (Friendly + 1)..m \subseteq Ids
  BY Bounds DEF Ids
<1>3. tables' \subseteq Kinds \X Ids /\ tables \subseteq tables'
  BY <1>1, <1>2 DEF AccountsInv, AccountsTypeOK, Kinds
<1>4. AccountsTypeOK'
  BY <1>3
  DEF AccountsInv, AccountsTypeOK, CreateFriendsTables, Proceed, Steps, Exists,
      accountHistory
<1>5. CASE ~failed'
  <2>1. ~failed /\ m = NTest /\ step = "keyed" /\ step' = "messages"
    BY <1>5 DEF CreateFriendsTables, Proceed
  <2>2. TestFriendsOnly /\ TestUsersOnly
    BY <2>1 DEF AccountsInv, Restoring
  <2>3. TestFriendsOnly'
    BY <1>3, <2>2 DEF TestFriendsOnly, CreateFriendsTables, accountHistory
  <2>4. TestUsersOnly'
    BY <2>2 DEF TestUsersOnly, CreateFriendsTables
  <2>5. \A u \in TestIds : <<"friends", u>> \in tables'
    <3>1. \A u \in TestIds : u \in FriendlyIds \/ u \in (Friendly + 1)..NTest
      BY Bounds DEF TestIds, FriendlyIds
    <3>2. QED
      BY <1>1, <2>1, <2>3, <3>1 DEF TestFriendsOnly
  <2>6. \A u \in Ids : \A kind \in {"sent", "received"} :
          <<kind, u>> \in tables' <=> <<kind, u>> \in tables
    BY <1>1
  <2>7. Restoring'
    BY <2>1, <2>3, <2>4, <2>5, <2>6
    DEF AccountsInv, Restoring, CreateFriendsTables, accountHistory
  <2>8. QED
    BY <1>4, <2>1, <2>7, NotServing
<1>6. CASE failed'
  BY <1>4, <1>6, NotServing DEF Restoring
<1>7. QED
  BY <1>5, <1>6

\* The last step of a start: what it finished with.
LEMMA StoreTestMessagesInv ==
  ASSUME AccountsInv, NEW m \in 0..AllRanks, StoreTestMessages(m)
  PROVE  AccountsInv' /\ (~failed' => InitialData')
<1>1. \A pair \in PairsUpTo(m) : Meeting(pair[1], pair[2]) \in Pairs
  BY PairsWithin, MeetingIsPair, Bounds
<1>2. AccountsTypeOK'
  BY <1>1
  DEF AccountsInv, AccountsTypeOK, StoreTestMessages, Proceed, Steps, Exists,
      accountHistory
<1>3. CASE ~failed'
  <2>1. ~failed /\ m = AllRanks /\ step = "messages" /\ step' = "serving"
    BY <1>3 DEF StoreTestMessages, Proceed
  <2>2. UNCHANGED <<users, nextId, tables, friends, met, leftover, torn>>
    BY DEF StoreTestMessages, accountHistory
  <2>3. TestUsersOnly /\ TestFriendsOnly
    BY <2>1 DEF AccountsInv, Restoring
  <2>4. \A u \in TestIds : <<"friends", u>> \in tables
    BY <2>1 DEF AccountsInv, Restoring
  <2>5. \A u \in Ids : \A kind \in {"sent", "received"} :
          <<kind, u>> \in tables <=> u \in TestIds
    BY <2>1 DEF AccountsInv, Restoring
  <2>6. chats' = {Meeting(pair[1], pair[2]) : pair \in PairsUpTo(AllRanks)}
    BY <2>1 DEF AccountsInv, Restoring, StoreTestMessages
  <2>7. InvitationTables' = {"sent", "received"} \X TestIds
    <3>1. InvitationTables' = InvitationTables
      BY <2>2 DEF InvitationTables
    <3>2. \A kind \in {"sent", "received"} : \A u \in Ids :
            <<kind, u>> \in InvitationTables <=> u \in TestIds
      BY <2>5 DEF InvitationTables
    <3>3. InvitationTables \subseteq {"sent", "received"} \X Ids
      BY DEF InvitationTables
    <3>4. InvitationTables = {"sent", "received"} \X TestIds
      BY <3>2, <3>3, Bounds
    <3>5. QED
      BY <3>1, <3>4
  <2>8. InitialData'
    BY <2>2, <2>3, <2>4, <2>6, <2>7 DEF InitialData, TestUsersOnly, TestFriendsOnly
  <2>9. \A u \in Ids : Exists(u)' => u \in TestIds
    BY <2>2, <2>3 DEF Exists, TestUsersOnly
  <2>10. \A u \in TestIds : Complete(u)'
    BY <2>2, <2>4, <2>5, Bounds DEF Complete, Kinds
  <2>11. OnlyTornIncomplete'
    BY <2>9, <2>10 DEF OnlyTornIncomplete
  <2>12. FriendsMadeOrInherited'
    <3>1. SUFFICES ASSUME NEW u \in Ids, NEW v \in Ids, v \in friends[u]
                   PROVE  \/ Meeting(u, v) \in met /\ u \in friends[v]
                          \/ u \notin TestIds /\ <<u, v>> \in leftover
      BY <2>2 DEF FriendsMadeOrInherited
    <3>2. CASE u \in TestIds
      <4>1. u \in FriendlyIds /\ v \in FriendlyIds /\ u # v
        BY <2>3, <3>1, <3>2 DEF TestFriendsOnly
      <4>2. v \in TestIds
        BY <4>1, Bounds
      <4>3. QED
        BY <2>3, <4>1, <4>2 DEF TestFriendsOnly
    <3>3. CASE u \notin TestIds
      BY <2>1, <3>1, <3>3 DEF AccountsInv, Restoring
    <3>4. QED
      BY <3>2, <3>3
  <2>13. Restoring'
    BY <2>1 DEF Restoring
  <2>14. QED
    BY <1>2, <2>8, <2>11, <2>12, <2>13 DEF AccountsInv
<1>4. CASE failed'
  BY <1>2, <1>4, NotServing DEF Restoring
<1>5. QED
  BY <1>3, <1>4
-----------------------------------------------------------------------------
(* The handlers.                                                           *)

\* A user is added whose tables are complete, or whose registration is torn.
LEMMA NewUserInv ==
  ASSUME AccountsInv, NEW name \in Names, NEW made \in SUBSET Kinds,
         step = "serving", step' = "serving", nextId <= MaxId,
         users' = [users EXCEPT ![nextId] = name],
         nextId' = nextId + 1,
         tables' = tables \cup (made \X {nextId}),
         torn' = torn \/ torn' = torn \cup {nextId},
         made = Kinds \/ nextId \in torn',
         UNCHANGED <<friends, chats, failed, starts, events, met, leftover>>
  PROVE  AccountsInv'
<1>1. nextId \in Ids /\ nextId \in Int /\ MaxId \in Int
  BY Bounds DEF AccountsInv, AccountsTypeOK, Ids
<1>2. users' \in [Ids -> Names \cup {NoName}]
  BY DEF AccountsInv, AccountsTypeOK
<1>3. \A u \in Ids : u # nextId => users'[u] = users[u]
  BY DEF AccountsInv, AccountsTypeOK
<1>4. \A u \in Ids : users'[u] # NoName => u < nextId'
  <2>1. SUFFICES ASSUME NEW u \in Ids, users'[u] # NoName
                 PROVE  u < nextId'
    OBVIOUS
  <2>2. u = nextId \/ u < nextId
    BY <1>3, <2>1 DEF AccountsInv, AccountsTypeOK, Exists
  <2>3. u \in Int
    BY DEF Ids
  <2>4. QED
    BY <1>1, <2>2, <2>3
<1>5. nextId' \in 1..(MaxId + 1)
  BY <1>1 DEF AccountsInv, AccountsTypeOK
<1>6. tables' \subseteq Kinds \X Ids /\ tables \subseteq tables'
  BY <1>1 DEF AccountsInv, AccountsTypeOK
<1>7. torn' \subseteq Ids /\ torn \subseteq torn'
  BY <1>1 DEF AccountsInv, AccountsTypeOK
<1>8. AccountsTypeOK'
  BY <1>2, <1>4, <1>5, <1>6, <1>7 DEF AccountsInv, AccountsTypeOK, Exists
<1>9. Restoring'
  BY DEF Restoring
<1>10. OnlyTornIncomplete'
  <2>1. SUFFICES ASSUME ~failed, NEW u \in Ids, Exists(u)', ~Complete(u)'
                 PROVE  u \in torn'
    BY DEF OnlyTornIncomplete
  <2>2. CASE u = nextId
    BY <2>1, <2>2 DEF Complete
  <2>3. CASE u # nextId
    BY <1>3, <1>6, <1>7, <2>1, <2>3
    DEF AccountsInv, OnlyTornIncomplete, Exists, Complete
  <2>4. QED
    BY <2>2, <2>3
<1>11. FriendsMadeOrInherited'
  BY DEF AccountsInv, FriendsMadeOrInherited
<1>12. QED
  BY <1>8, <1>9, <1>10, <1>11 DEF AccountsInv

LEMMA RegisterInv ==
  ASSUME AccountsInv, NEW name \in Names,
         RegisterUser(name) \/ \E made \in Made : RegisterTornApart(name, made)
  PROVE  AccountsInv'
<1>1. CASE RegisterUser(name)
  BY <1>1, NewUserInv DEF RegisterUser, TablesOf, accountHistory
<1>2. ASSUME NEW made \in Made, RegisterTornApart(name, made)
      PROVE  AccountsInv'
  <2>1. made \in SUBSET Kinds
    BY DEF Made, Kinds
  <2>2. QED
    BY <1>2, <2>1, NewUserInv DEF RegisterTornApart
<1>3. QED
  BY <1>1, <1>2

LEMMA RegisterRolledBackInv ==
  ASSUME AccountsInv, RegisterRolledBack
  PROVE  AccountsInv'
<1>1. nextId' \in 1..(MaxId + 1) /\ \A u \in Ids : u < nextId => u < nextId'
  BY Bounds DEF AccountsInv, AccountsTypeOK, RegisterRolledBack, Ids
<1>2. AccountsTypeOK'
  BY <1>1 DEF AccountsInv, AccountsTypeOK, RegisterRolledBack, Exists, accountHistory
<1>3. QED
  BY <1>2
  DEF AccountsInv, Restoring, OnlyTornIncomplete, FriendsMadeOrInherited, Exists,
      Complete, RegisterRolledBack, accountHistory

LEMMA AcceptInv ==
  ASSUME AccountsInv, NEW u \in Ids, NEW v \in Ids, AcceptFriendInvitation(u, v)
  PROVE  AccountsInv'
<1>1. tables' = tables \cup ({"friends"} \X {u, v})
  BY DEF AcceptFriendInvitation
<1>2. /\ u # v
      /\ friends'[u] = friends[u] \cup {v} /\ friends'[v] = friends[v] \cup {u}
      /\ \A w \in Ids \ {u, v} : friends'[w] = friends[w]
  BY DEF AcceptFriendInvitation, AccountsInv, AccountsTypeOK
<1>3. friends' \in [Ids -> SUBSET Ids]
  BY DEF AcceptFriendInvitation, AccountsInv, AccountsTypeOK
<1>4. met' = met \cup {Meeting(u, v)} /\ Meeting(u, v) \in Pairs
  BY MeetingIsPair DEF AcceptFriendInvitation
<1>5. events' \in 0..MaxEvents
  BY Bounds DEF AcceptFriendInvitation, AccountsInv, AccountsTypeOK
<1>6. tables' \subseteq Kinds \X Ids /\ tables \subseteq tables'
  BY <1>1 DEF AccountsInv, AccountsTypeOK, Kinds
<1>7. \A w \in Ids : friends'[w] # {} => <<"friends", w>> \in tables'
  BY <1>1, <1>2 DEF AccountsInv, AccountsTypeOK
<1>8. AccountsTypeOK'
  BY <1>3, <1>4, <1>5, <1>6, <1>7
  DEF AcceptFriendInvitation, AccountsInv, AccountsTypeOK, Exists
<1>9. step = "serving" /\ UNCHANGED <<step, users, failed, torn, leftover>>
  BY DEF AcceptFriendInvitation
<1>10. OnlyTornIncomplete'
  BY <1>6, <1>9 DEF AccountsInv, OnlyTornIncomplete, Exists, Complete
<1>11. FriendsMadeOrInherited'
  <2>1. SUFFICES ASSUME ~failed, NEW w \in Ids, NEW x \in Ids, x \in friends'[w]
                 PROVE  \/ Meeting(w, x) \in met' /\ w \in friends'[x]
                        \/ w \notin TestIds /\ <<w, x>> \in leftover
    BY <1>9 DEF FriendsMadeOrInherited
  <2>2. CASE x \in friends[w]
    <3>1. \/ Meeting(w, x) \in met /\ w \in friends[x]
          \/ w \notin TestIds /\ <<w, x>> \in leftover
      BY <1>9, <2>1, <2>2 DEF AccountsInv, FriendsMadeOrInherited
    <3>2. friends[x] \subseteq friends'[x]
      BY <1>2
    <3>3. QED
      BY <1>4, <3>1, <3>2
  <2>3. CASE x \notin friends[w]
    <3>1. (w = u /\ x = v) \/ (w = v /\ x = u)
      BY <1>2, <2>1, <2>3
    <3>2. Meeting(w, x) = Meeting(u, v)
      BY <3>1 DEF Meeting
    <3>3. QED
      BY <1>2, <1>4, <3>1, <3>2
  <2>4. QED
    BY <2>2, <2>3
<1>12. QED
  BY <1>8, <1>9, <1>10, <1>11 DEF AccountsInv, Restoring

LEMMA RemoveFriendInv ==
  ASSUME AccountsInv, NEW u \in Ids, NEW v \in Ids, RemoveFriend(u, v)
  PROVE  AccountsInv'
<1>1. ASSUME NEW w \in Ids
      PROVE  friends'[w] = IF w = u THEN friends[u] \ {v}
                           ELSE IF w = v THEN friends[v] \ {u} ELSE friends[w]
  BY DEF RemoveFriend
<1>2. friends' \in [Ids -> SUBSET Ids]
  BY DEF RemoveFriend, AccountsInv, AccountsTypeOK
<1>3. /\ step = "serving"
      /\ UNCHANGED <<step, users, nextId, tables, chats, failed, starts, events, torn,
                     met, leftover>>
  BY DEF RemoveFriend, accountHistory
<1>4. \A w \in Ids : friends'[w] \subseteq friends[w]
  BY <1>1
<1>5. AccountsTypeOK'
  BY <1>2, <1>3, <1>4 DEF AccountsInv, AccountsTypeOK, Exists
<1>6. FriendsMadeOrInherited'
  <2>1. SUFFICES ASSUME ~failed, NEW w \in Ids, NEW x \in Ids, x \in friends'[w]
                 PROVE  \/ Meeting(w, x) \in met /\ w \in friends'[x]
                        \/ w \notin TestIds /\ <<w, x>> \in leftover
    BY <1>3 DEF FriendsMadeOrInherited
  <2>2. x \in friends[w]
    BY <1>4, <2>1
  <2>3. w \in friends[x] => w \in friends'[x]
    BY <1>1, <2>1
  <2>4. \/ Meeting(w, x) \in met /\ w \in friends[x]
        \/ w \notin TestIds /\ <<w, x>> \in leftover
    BY <1>3, <2>1, <2>2 DEF AccountsInv, FriendsMadeOrInherited
  <2>5. QED
    BY <2>3, <2>4
<1>7. OnlyTornIncomplete' /\ Restoring'
  BY <1>3 DEF AccountsInv, OnlyTornIncomplete, Exists, Complete, Restoring
<1>8. QED
  BY <1>5, <1>6, <1>7 DEF AccountsInv

LEMMA StoreMessageInv ==
  ASSUME AccountsInv, NEW u \in Ids, NEW v \in Ids, StoreMessage(u, v)
  PROVE  AccountsInv'
<1>1. events' \in 0..MaxEvents
  BY Bounds DEF StoreMessage, AccountsInv, AccountsTypeOK
<1>2. chats' \subseteq Pairs
  BY MeetingIsPair DEF StoreMessage, AccountsInv, AccountsTypeOK
<1>3. AccountsTypeOK'
  BY <1>1, <1>2 DEF StoreMessage, AccountsInv, AccountsTypeOK, Exists
<1>4. QED
  BY <1>3
  DEF AccountsInv, Restoring, OnlyTornIncomplete, FriendsMadeOrInherited, Exists,
      Complete, StoreMessage
-----------------------------------------------------------------------------
\* The step condition of StartRestores.
Restored == step # "serving" /\ step' = "serving" /\ ~failed' => InitialData'

LEMMA NextInv ==
  ASSUME AccountsInv, [AccountsNext]_accountsVars
  PROVE  AccountsInv' /\ Restored
<1>1. ASSUME NEW begun \in BOOLEAN, StartServer(begun)
      PROVE  AccountsInv' /\ Restored
  BY <1>1, StartServerInv
  DEF StartServer, Restored
<1>2. CASE DropChats
  BY <1>2, DropChatsInv
  DEF DropChats, Restored
<1>3. CASE DropInvitations
  BY <1>3, DropInvitationsInv
  DEF DropInvitations, Restored
<1>4. CASE DropFriends
  BY <1>4, DropFriendsInv
  DEF DropFriends, Restored
<1>5. CASE DeleteUsers \/ DeleteUsersFails
  BY <1>5, DeleteUsersInv
  DEF DeleteUsers, DeleteUsersFails, Restored
<1>6. CASE ResetCounter \/ ResetCounterFails
  BY <1>6, ResetCounterInv
  DEF ResetCounter, ResetCounterFails, Restored
<1>7. ASSUME NEW n \in 0..NTest, NEW used \in 0..(NTest + 1), InsertTestUsers(n, used)
      PROVE  AccountsInv' /\ Restored
  BY <1>7, InsertInv
  DEF InsertTestUsers, Proceed, Restored
<1>8. ASSUME NEW m \in 0..(2 * NTest), CreateInvitationTables(m)
      PROVE  AccountsInv' /\ Restored
  BY <1>8, CreateInvitationTablesInv
  DEF CreateInvitationTables, Proceed, Restored
<1>9. ASSUME NEW m \in 0..AllRanks, NEW begun \in 0..AllRanks,
             BefriendTestUsers(m, begun)
      PROVE  AccountsInv' /\ Restored
  BY <1>9, BefriendTestUsersInv
  DEF BefriendTestUsers, Proceed, Restored
<1>10. ASSUME NEW m \in 0..NTest, CreateFriendsTables(m)
       PROVE  AccountsInv' /\ Restored
  BY <1>10, CreateFriendsTablesInv
  DEF CreateFriendsTables, Proceed, Restored
<1>11. ASSUME NEW m \in 0..AllRanks, StoreTestMessages(m)
       PROVE  AccountsInv' /\ Restored
  BY <1>11, StoreTestMessagesInv DEF Restored
<1>12. CASE Crash
  BY <1>12, CrashInv
  DEF Crash, Restored
<1>13. ASSUME NEW name \in Names,
              RegisterUser(name) \/ \E made \in Made : RegisterTornApart(name, made)
       PROVE  AccountsInv' /\ Restored
  BY <1>13, RegisterInv
  DEF RegisterUser, RegisterTornApart, Restored
<1>14. CASE RegisterRolledBack
  BY <1>14, RegisterRolledBackInv
  DEF RegisterRolledBack, Restored
<1>15. ASSUME NEW u \in Ids, NEW v \in Ids, AcceptFriendInvitation(u, v)
       PROVE  AccountsInv' /\ Restored
  BY <1>15, AcceptInv
  DEF AcceptFriendInvitation, Restored
<1>16. ASSUME NEW u \in Ids, NEW v \in Ids, RemoveFriend(u, v)
       PROVE  AccountsInv' /\ Restored
  BY <1>16, RemoveFriendInv
  DEF RemoveFriend, Restored
<1>17. ASSUME NEW u \in Ids, NEW v \in Ids, StoreMessage(u, v)
       PROVE  AccountsInv' /\ Restored
  BY <1>17, StoreMessageInv
  DEF StoreMessage, Restored
<1>18. CASE UNCHANGED accountsVars
  <2>1. UNCHANGED <<step, users, nextId, tables, friends, chats, failed, starts, events,
                    torn, met, leftover>>
    BY <1>18 DEF accountsVars, stored, accountHistory
  <2>2. AccountsTypeOK'
    BY <2>1 DEF AccountsInv, AccountsTypeOK, Exists
  <2>3. Restoring'
    BY <2>1 DEF AccountsInv, Restoring, TestUsersOnly, TestFriendsOnly
  <2>4. OnlyTornIncomplete' /\ FriendsMadeOrInherited'
    BY <2>1 DEF AccountsInv, OnlyTornIncomplete, FriendsMadeOrInherited, Exists, Complete
  <2>5. QED
    BY <2>1, <2>2, <2>3, <2>4 DEF AccountsInv, Restored
<1>19. QED
  BY <1>1, <1>2, <1>3, <1>4, <1>5, <1>6, <1>7, <1>8, <1>9, <1>10, <1>11, <1>12, <1>13,
     <1>14, <1>15, <1>16, <1>17, <1>18
  DEF AccountsNext

\* The inductive invariant: the types, and what a start without a failing
\* statement has done at each of its steps.
THEOREM AccountsInvHolds == AccountsSpec => []AccountsInv
<1>1. AccountsInv /\ [AccountsNext]_accountsVars => AccountsInv'
  BY NextInv
<1>2. QED
  BY InitInv, <1>1, PTL DEF AccountsSpec

\* A start without a failing statement brings the initial data back, whatever
\* happened before.
THEOREM StartRestoresHolds == AccountsSpec => StartRestores
<1>1. AccountsInv /\ [AccountsNext]_accountsVars
        => [(step # "serving" /\ step' = "serving" /\ ~failed') => InitialData']_accountsVars
  BY NextInv DEF Restored
<1>2. QED
  BY AccountsInvHolds, <1>1, PTL DEF AccountsSpec, StartRestores

\* After such a start, users who lack a table are those whose registration was
\* reported as failed.
THEOREM OnlyTornIncompleteHolds == AccountsSpec => []OnlyTornIncomplete
<1>1. AccountsInv => OnlyTornIncomplete
  BY DEF AccountsInv
<1>2. QED
  BY AccountsInvHolds, <1>1, PTL

\* After such a start, friends were made since then, but for those that came
\* with an id above those of the test users.
THEOREM FriendsMadeOrInheritedHolds == AccountsSpec => []FriendsMadeOrInherited
<1>1. AccountsInv => FriendsMadeOrInherited
  BY DEF AccountsInv
<1>2. QED
  BY AccountsInvHolds, <1>1, PTL
-----------------------------------------------------------------------------
(* The database handle.                                                    *)

LEMMA HandlesInitInv == HandlesInit => HandlesInv
  BY DEF HandlesInit, HandlesInv, HandlesTypeOK, MemberWasOpened

\* A clone that fails removes a connection that is not the member's, because the
\* member's is open or lost and the handlers clone for a session only when it
\* has none or one that is closed.
LEMMA CloneInv ==
  ASSUME HandlesInv, NEW s \in Sessions, NEW opens \in BOOLEAN,
         own[s] \in {"none", "closed"}, CloneConnection(s, opens), UNCHANGED up
  PROVE  HandlesInv' /\ (~Works /\ Works' => healed')
<1>1. database # s
  BY HandlesAssumption DEF HandlesInv, HandlesTypeOK, MemberWasOpened, HandlesAssumption
<1>2. own' \in [Sessions -> {"none", "closed", "open", "lost"}]
  BY DEF HandlesInv, HandlesTypeOK, CloneConnection
<1>3. \A t \in Sessions \ {s} : own'[t] = own[t]
  BY DEF HandlesInv, HandlesTypeOK, CloneConnection
<1>4. CASE opens
  <2>1. own'[s] = "open" /\ database' = s /\ healed'
    BY <1>4 DEF HandlesInv, HandlesTypeOK, CloneConnection
  <2>2. QED
    BY <1>2, <1>4, <2>1, HandlesAssumption
    DEF HandlesInv, HandlesTypeOK, MemberWasOpened, Works, HandlesAssumption
<1>5. CASE ~opens
  <2>1. database' = database /\ ~healed'
    BY <1>5 DEF HandlesInv, HandlesTypeOK, CloneConnection
  <2>2. database # NoSession => own'[database] = own[database]
    BY <1>1, <1>3 DEF HandlesInv, HandlesTypeOK
  <2>3. healed' \in BOOLEAN
    BY <1>5 DEF CloneConnection
  <2>4. QED
    BY <1>2, <2>1, <2>2, <2>3 DEF HandlesInv, HandlesTypeOK, MemberWasOpened, Works
<1>6. QED
  BY <1>4, <1>5

LEMMA HandlesNextInv ==
  ASSUME HandlesInv, [HandlesNext]_handlesVars
  PROVE  HandlesInv' /\ (~Works /\ Works' => healed')
<1>1. ASSUME NEW s \in Sessions, NEW opens \in BOOLEAN, NewSession(s, opens)
      PROVE  HandlesInv' /\ (~Works /\ Works' => healed')
  BY <1>1, CloneInv DEF NewSession
<1>2. ASSUME NEW s \in Sessions, NEW opens \in BOOLEAN, LoginClones(s, opens)
      PROVE  HandlesInv' /\ (~Works /\ Works' => healed')
  BY <1>2, CloneInv DEF LoginClones
<1>3. ASSUME NEW s \in Sessions, LoginReopens(s)
      PROVE  HandlesInv' /\ (~Works /\ Works' => healed')
  <2>1. database # s
    BY <1>3, HandlesAssumption
    DEF HandlesInv, HandlesTypeOK, MemberWasOpened, LoginReopens, HandlesAssumption
  <2>2. database # NoSession => own'[database] = own[database]
    BY <1>3, <2>1 DEF HandlesInv, HandlesTypeOK, LoginReopens
  <2>3. QED
    BY <1>3, <2>2 DEF HandlesInv, HandlesTypeOK, MemberWasOpened, Works, LoginReopens
<1>4. CASE DatabaseStops
  BY <1>4 DEF DatabaseStops, HandlesInv, HandlesTypeOK, MemberWasOpened, Works
<1>5. CASE DatabaseStarts
  BY <1>5 DEF DatabaseStarts, HandlesInv, HandlesTypeOK, MemberWasOpened, Works
<1>6. ASSUME NEW s \in Sessions, ConnectionLost(s)
      PROVE  HandlesInv' /\ (~Works /\ Works' => healed')
  BY <1>6 DEF ConnectionLost, HandlesInv, HandlesTypeOK, MemberWasOpened, Works
<1>7. CASE UNCHANGED handlesVars
  BY <1>7 DEF handlesVars, HandlesInv, HandlesTypeOK, MemberWasOpened, Works
<1>8. QED
  BY <1>1, <1>2, <1>3, <1>4, <1>5, <1>6, <1>7 DEF HandlesNext
-----------------------------------------------------------------------------
\* The member is a connection that was opened, whatever becomes of MySQL; one
\* that was cloned with success is the member's; a failing clone never leaves the
\* other sessions with a connection that was removed.
THEOREM HandlesInvHolds == HandlesSpec => []HandlesInv
<1>1. HandlesInv /\ [HandlesNext]_handlesVars => HandlesInv'
  BY HandlesNextInv
<1>2. QED
  BY HandlesInitInv, <1>1, PTL DEF HandlesSpec

\* Queries that fail go on failing until cloneConnection opens a connection.
THEOREM OnlyCloneHealsHolds == HandlesSpec => OnlyCloneHeals
<1>1. HandlesInv /\ [HandlesNext]_handlesVars => HandlesInv'
  BY HandlesNextInv
<1>2. HandlesInv /\ [HandlesNext]_handlesVars => [(~Works /\ Works') => healed']_handlesVars
  BY HandlesNextInv
<1>3. QED
  BY HandlesInitInv, <1>1, <1>2, PTL DEF HandlesSpec, OnlyCloneHeals
=============================================================================
