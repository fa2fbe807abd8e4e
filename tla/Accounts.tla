------------------------------ MODULE Accounts -----------------------------
(***************************************************************************)
(* The tables of the database over the whole life of the program: what the *)
(* start of the server does to them (fillTestData), what a registration    *)
(* adds, and what a crash or a failing statement leaves.                   *)
(*                                                                         *)
(* CREATE, DROP and ALTER TABLE commit the transaction they are in, so of  *)
(* the one transaction that fillTestData opens nothing is left when it     *)
(* reaches the first of them: every statement of it lasts.  We assume that *)
(* such a statement commits even when it fails itself.  The steps of the   *)
(* start are actions of their own, since the process may be killed between *)
(* them; each may also stop half-way.                                      *)
(***************************************************************************)
EXTENDS Integers, FiniteSets

CONSTANTS
  NewNames,    \* names that clients register
  NoName,
  NTest,       \* the test users have the ids 1..NTest (6 in main.cpp) ...
  Friendly,    \* ... of whom 1..Friendly (3 in main.cpp) are friends
  MaxId,       \* bound: the ids that are given out
  MaxStarts,   \* bound: how often the server is started
  MaxEvents,   \* bound: how many friendships and chats clients begin between starts
  MaxKept      \* bound: how many DROPs of one loop have no effect, unless all do

TestIds == 1..NTest
Ids == 1..MaxId
FriendlyIds == 1..Friendly
TestName(u) == <<"test", u>>
Names == NewNames \cup {TestName(u) : u \in TestIds}

ASSUME AccountsAssumption ==
  /\ NTest \in Nat /\ Friendly \in 2..NTest /\ MaxId \in Nat /\ NTest <= MaxId
  /\ NoName \notin Names
  /\ MaxStarts \in Nat /\ MaxEvents \in Nat /\ MaxKept \in Nat

Kinds == {"friends", "sent", "received"}
Pairs == {{u, v} : u, v \in Ids}
Steps == {"down", "chats", "invitations", "friends", "users", "counter", "insert",
          "create", "befriend", "keyed", "messages", "serving"}

VARIABLES
  step,      \* how far the start has come
  users,     \* the rows of `users`: the name of each id
  nextId,    \* its AUTO_INCREMENT counter
  tables,    \* which user_<id>_friends and user_<id>_..._invitations exist
  friends,   \* the friends named in user_<id>_friends
  chats,     \* the pairs that have a table chat_<id>_<id>
  failed,    \* history: a statement of the last start failed
  starts, events,  \* history: counted for the bounds
  torn,      \* history: ids whose registration was reported as failed
  met,       \* history: pairs made friends since the users were last deleted
  leftover   \* history: friend rows that outlived the last deletion of users

stored == <<users, nextId, tables, friends, chats>>
accountHistory == <<events, torn, met, leftover>>
accountsVars == <<step, stored, failed, starts, accountHistory>>

Exists(u) == users[u] # NoName
Taken == {users[u] : u \in Ids}
Complete(u) == \A k \in Kinds : <<k, u>> \in tables
Meeting(u, v) == {u, v}

AccountsTypeOK ==
  /\ step \in Steps
  /\ users \in [Ids -> Names \cup {NoName}]
  /\ nextId \in 1..(MaxId + 1)
  /\ \A u \in Ids : Exists(u) => u < nextId
  /\ tables \subseteq Kinds \X Ids
  /\ friends \in [Ids -> SUBSET Ids]
  /\ \A u \in Ids : friends[u] # {} => <<"friends", u>> \in tables
  /\ chats \subseteq Pairs
  /\ failed \in BOOLEAN
  /\ starts \in 0..MaxStarts
  /\ events \in 0..MaxEvents
  /\ torn \subseteq Ids
  /\ met \subseteq Pairs
  /\ leftover \subseteq Ids \X Ids

\* A new database; what createTablesIfNotExist does to `users` is done.
AccountsInit ==
  /\ step = "down"
  /\ users = [u \in Ids |-> NoName]
  /\ nextId = 1
  /\ tables = {}
  /\ friends = [u \in Ids |-> {}]
  /\ chats = {}
  /\ failed = FALSE
  /\ starts = 0
  /\ events = 0
  /\ torn = {}
  /\ met = {}
  /\ leftover = {}
-----------------------------------------------------------------------------
(* The start: main and fillTestData.                                       *)

\* init succeeds, and so does fillTestData's first BEGIN or it does not.  The
\* server runs after fillTestData whatever became of it.
StartServer(begun) ==
  /\ step = "down"
  /\ starts < MaxStarts
  /\ step' = IF begun THEN "chats" ELSE "serving"
  /\ failed' = ~begun
  /\ starts' = starts + 1
  /\ UNCHANGED <<stored, accountHistory>>

\* The tables a loop of DROPs leaves of those it should drop: a failing DROP is
\* logged and the loop goes on; the query that lists the tables may fail too.
Kept(dropped) ==
  {kept \in SUBSET dropped : Cardinality(kept) <= MaxKept} \cup {dropped}

\* Mutation: the chats that only test users took part in are dropped.
DropTestChats ==
  /\ step = "chats"
  /\ \E kept \in Kept(chats \cap SUBSET TestIds) :
       /\ chats' = (chats \ SUBSET TestIds) \cup kept
       /\ failed' = (failed \/ kept # {})
  /\ step' = "invitations"
  /\ UNCHANGED <<users, nextId, tables, friends, starts, accountHistory>>

DropChats ==
  /\ step = "chats"
  /\ \E kept \in Kept(chats) :
       /\ chats' = kept
       /\ failed' = (failed \/ kept # {})
  /\ step' = "invitations"
  /\ UNCHANGED <<users, nextId, tables, friends, starts, accountHistory>>

InvitationTables == tables \cap ({"sent", "received"} \X Ids)

DropInvitations ==
  /\ step = "invitations"
  /\ \E kept \in Kept(InvitationTables) :
       /\ tables' = (tables \ InvitationTables) \cup kept
       /\ failed' = (failed \/ kept # {})
  /\ step' = "friends"
  /\ UNCHANGED <<users, nextId, friends, chats, starts, accountHistory>>

\* Mutation: the friends table of the last test user is forgotten.
DroppedButLast == 1..(NTest - 1)

\* The ids whose friends tables are dropped.
DroppedIds == TestIds

DropFriends ==
  /\ step = "friends"
  /\ \E kept \in Kept(tables \cap ({"friends"} \X DroppedIds)) :
       /\ tables' = (tables \ ({"friends"} \X DroppedIds)) \cup kept
       /\ friends' = [u \in Ids |-> IF u \in DroppedIds /\ <<"friends", u>> \notin kept
                                    THEN {} ELSE friends[u]]
       /\ failed' = (failed \/ kept # {})
  /\ step' = "users"
  /\ UNCHANGED <<users, nextId, chats, starts, accountHistory>>

\* DELETE FROM users, with the checks of foreign keys off.
DeleteUsers ==
  /\ step = "users"
  /\ users' = [u \in Ids |-> NoName]
  /\ events' = 0
  /\ torn' = {}
  /\ met' = {}
  /\ leftover' = {row \in Ids \X Ids : row[2] \in friends[row[1]]}
  /\ step' = "counter"
  /\ UNCHANGED <<nextId, tables, friends, chats, failed, starts>>

DeleteUsersFails ==
  /\ step = "users"
  /\ failed' = TRUE
  /\ step' = "counter"
  /\ UNCHANGED <<stored, starts, accountHistory>>

\* Mutation: the counter is set to 1 whatever users are left.
ResetCounterTo1 ==
  /\ step = "counter"
  /\ nextId' = 1
  /\ step' = "insert"
  /\ UNCHANGED <<users, tables, friends, chats, failed, starts, accountHistory>>

\* ALTER TABLE users AUTO_INCREMENT = 1: the smallest value above all ids.
ResetCounter ==
  /\ step = "counter"
  /\ nextId' \in Ids
  /\ \A u \in Ids : Exists(u) => u < nextId'
  /\ nextId' > 1 => Exists(nextId' - 1)
  /\ step' = "insert"
  /\ UNCHANGED <<users, tables, friends, chats, failed, starts, accountHistory>>

ResetCounterFails ==
  /\ step = "counter"
  /\ failed' = TRUE
  /\ step' = "insert"
  /\ UNCHANGED <<stored, starts, accountHistory>>

\* The rest may throw: then the server starts with what has been done.
Proceed(complete, next) ==
  /\ step' = IF complete THEN next ELSE "serving"
  /\ failed' = (failed \/ ~complete)

\* The test users get the next ids, whichever those are.  A name that exists
\* makes the INSERT fail, and may use up an id.
InsertTestUsers(n, used) ==
  /\ step = "insert"
  /\ n \in 0..NTest
  /\ used \in {n, n + 1} /\ (n = NTest => used = n)
  /\ nextId + used <= MaxId + 1
  /\ \A u \in 1..n : TestName(u) \notin Taken
  /\ users' = [u \in Ids |-> IF u \in nextId..(nextId + n - 1)
                             THEN TestName(u - nextId + 1) ELSE users[u]]
  /\ nextId' = nextId + used
  /\ Proceed(n = NTest, "create")
  /\ UNCHANGED <<tables, friends, chats, starts, accountHistory>>

\* The first m of user_1_sent_..., user_1_received_..., user_2_sent_... are made,
\* for the ids that the test users should have.
CreateInvitationTables(m) ==
  /\ step = "create"
  /\ m \in 0..(2 * NTest)
  /\ tables' = tables \cup {<<"sent", u>> : u \in {v \in TestIds : 2 * v - 1 <= m}}
                      \cup {<<"received", u>> : u \in {v \in TestIds : 2 * v <= m}}
  /\ Proceed(m = 2 * NTest, "befriend")
  /\ UNCHANGED <<users, nextId, friends, chats, starts, accountHistory>>

\* Where the pair is in the order 1-2, 1-3, 2-1, 2-3, 3-1, 3-2.
Rank(u, v) == (u - 1) * (Friendly - 1) + (IF v > u THEN v - 1 ELSE v)
PairsUpTo(m) ==
  {pair \in FriendlyIds \X FriendlyIds :
     pair[1] # pair[2] /\ Rank(pair[1], pair[2]) <= m}
AllRanks == Friendly * (Friendly - 1)

\* The first m calls of addFriend succeed; the next may have made its table.
BefriendTestUsers(m, begun) ==
  /\ step = "befriend"
  /\ m \in 0..AllRanks
  /\ begun \in {m, m + 1} /\ begun <= AllRanks
  /\ \A pair \in PairsUpTo(begun) : Exists(pair[1]) /\ Exists(pair[2])
  /\ tables' = tables \cup {<<"friends", pair[1]>> : pair \in PairsUpTo(begun)}
  /\ friends' = [u \in Ids |-> friends[u] \cup {v \in Ids : <<u, v>> \in PairsUpTo(m)}]
  /\ met' = met \cup {Meeting(pair[1], pair[2]) : pair \in PairsUpTo(m)}
  /\ Proceed(m = AllRanks, "keyed")
  /\ UNCHANGED <<users, nextId, chats, starts, events, torn, leftover>>

CreateFriendsTables(m) ==
  /\ step = "keyed"
  /\ m \in Friendly..NTest
  /\ tables' = tables \cup ({"friends"} \X ((Friendly + 1)..m))
  /\ Proceed(m = NTest, "messages")
  /\ UNCHANGED <<users, nextId, friends, chats, starts, accountHistory>>

\* 50 messages for each pair; the first m pairs get a chat table.
StoreTestMessages(m) ==
  /\ step = "messages"
  /\ m \in 0..AllRanks
  /\ chats' = chats \cup {Meeting(pair[1], pair[2]) : pair \in PairsUpTo(m)}
  /\ Proceed(m = AllRanks, "serving")
  /\ UNCHANGED <<users, nextId, tables, friends, starts, accountHistory>>

\* The process is killed (after the last start that is of no interest).
Crash ==
  /\ step # "down"
  /\ starts < MaxStarts
  /\ step' = "down"
  /\ UNCHANGED <<stored, failed, starts, accountHistory>>
-----------------------------------------------------------------------------
(* The handlers that add or remove rows and tables of users.               *)

\* Mutation: the friends list of a new user is not created.
TablesWithoutFriends(u) == {"sent", "received"} \X {u}

TablesOf(u) == Kinds \X {u}

\* registerUser for a name that is free: the row of users and, if they do not
\* exist, three tables; a friends table that exists keeps its rows.
RegisterUser(name) ==
  /\ step = "serving"
  /\ name \notin Taken
  /\ nextId <= MaxId
  /\ users' = [users EXCEPT ![nextId] = name]
  /\ nextId' = nextId + 1
  /\ tables' = tables \cup TablesOf(nextId)
  /\ UNCHANGED <<step, friends, chats, failed, starts, accountHistory>>

\* It fails after createFriendsList has begun, which committed the row of users:
\* the rollback takes neither that nor a table back.
RegisterTornApart(name, made) ==
  /\ step = "serving"
  /\ name \notin Taken
  /\ nextId <= MaxId
  /\ users' = [users EXCEPT ![nextId] = name]
  /\ nextId' = nextId + 1
  /\ tables' = tables \cup (made \X {nextId})
  /\ torn' = torn \cup {nextId}
  /\ UNCHANGED <<step, friends, chats, failed, starts, events, met, leftover>>

\* It fails before that, or the name is taken and the query that should have
\* found out failed: only an id is used up.
RegisterRolledBack ==
  /\ step = "serving"
  /\ nextId <= MaxId
  /\ nextId' = nextId + 1
  /\ UNCHANGED <<step, users, tables, friends, chats, failed, starts, accountHistory>>

\* v accepts an invitation of u (Invitations.tla): the invitation needs two
\* tables, addFriend makes a friends table that is missing.
AcceptFriendInvitation(u, v) ==
  /\ step = "serving"
  /\ events < MaxEvents
  /\ u # v /\ Exists(u) /\ Exists(v)
  /\ <<"sent", u>> \in tables /\ <<"received", v>> \in tables
  /\ tables' = tables \cup ({"friends"} \X {u, v})
  /\ friends' = [friends EXCEPT ![u] = @ \cup {v}, ![v] = @ \cup {u}]
  /\ met' = met \cup {Meeting(u, v)}
  /\ events' = events + 1
  /\ UNCHANGED <<step, users, nextId, chats, failed, starts, torn, leftover>>

RemoveFriend(u, v) ==
  /\ step = "serving"
  /\ Exists(u) /\ Exists(v)
  /\ <<"friends", u>> \in tables /\ <<"friends", v>> \in tables
  /\ friends' = [w \in Ids |-> IF w = u THEN friends[u] \ {v}
                               ELSE IF w = v THEN friends[v] \ {u} ELSE friends[w]]
  /\ UNCHANGED <<step, users, nextId, tables, chats, failed, starts, accountHistory>>

\* storeMessage does not ask whether the receiver exists.
StoreMessage(u, v) ==
  /\ step = "serving"
  /\ events < MaxEvents
  /\ Exists(u)
  /\ chats' = chats \cup {Meeting(u, v)}
  /\ events' = events + 1
  /\ UNCHANGED <<step, users, nextId, tables, friends, failed, starts, torn, met,
                 leftover>>

Made == {{}, {"friends"}, {"friends", "sent"}, Kinds}

AccountsNext ==
  \/ \E begun \in BOOLEAN : StartServer(begun)
  \/ DropChats \/ DropInvitations \/ DropFriends
  \/ DeleteUsers \/ DeleteUsersFails \/ ResetCounter \/ ResetCounterFails
  \/ \E n \in 0..NTest : \E used \in 0..(NTest + 1) : InsertTestUsers(n, used)
  \/ \E m \in 0..(2 * NTest) : CreateInvitationTables(m)
  \/ \E m, begun \in 0..AllRanks : BefriendTestUsers(m, begun)
  \/ \E m \in 0..NTest : CreateFriendsTables(m)
  \/ \E m \in 0..AllRanks : StoreTestMessages(m)
  \/ Crash
  \/ \E name \in Names : \/ RegisterUser(name)
                         \/ \E made \in Made : RegisterTornApart(name, made)
  \/ RegisterRolledBack
  \/ \E u, v \in Ids : \/ AcceptFriendInvitation(u, v)
                       \/ RemoveFriend(u, v)
                       \/ StoreMessage(u, v)

AccountsSpec == AccountsInit /\ [][AccountsNext]_accountsVars
-----------------------------------------------------------------------------
(* Properties.                                                             *)

\* A start none of whose statements fails brings the initial data back, whatever
\* crashes, failures and requests came before it.
InitialData ==
  /\ users = [u \in Ids |-> IF u \in TestIds THEN TestName(u) ELSE NoName]
  /\ nextId = NTest + 1
  /\ InvitationTables = {"sent", "received"} \X TestIds
  /\ \A u \in TestIds : /\ <<"friends", u>> \in tables
                        /\ friends[u] = IF u \in FriendlyIds THEN FriendlyIds \ {u} ELSE {}
  /\ chats = {Meeting(pair[1], pair[2]) : pair \in PairsUpTo(AllRanks)}

StartRestores ==
  [][(step # "serving" /\ step' = "serving" /\ ~failed') => InitialData']_accountsVars

\* After such a start, a user who lacks a table is one whose registration was
\* reported as failed.
OnlyTornIncomplete ==
  (step = "serving" /\ ~failed) =>
    \A u \in Ids : (Exists(u) /\ ~Complete(u)) => u \in torn

\* After such a start, a user's friends are mutual friends made since the users
\* were deleted.  An id above those of the test users may also come with friends
\* of an earlier user of that id, whose table no start drops.
FriendsMadeOrInherited ==
  (step = "serving" /\ ~failed) =>
    \A u, v \in Ids :
      v \in friends[u] =>
        \/ Meeting(u, v) \in met /\ u \in friends[v]
        \/ u \notin TestIds /\ <<u, v>> \in leftover

\* The inductive strengthening: what a start has done when it reaches a step, if
\* none of its statements failed.  (The sets name the steps at which each part
\* of that holds.)
NoChats == {"invitations", "friends", "users", "counter", "insert", "create",
            "befriend", "keyed", "messages"}
NoInvitations == {"friends", "users", "counter", "insert", "create"}
AllInvitations == {"befriend", "keyed", "messages"}
NoTestFriends == {"users", "counter", "insert", "create", "befriend"}
NoUsers == {"counter", "insert"}
TestUsers == {"create", "befriend", "keyed", "messages"}
AllBefriended == {"keyed", "messages"}
UsersDeleted == NoUsers \cup TestUsers

TestUsersOnly ==
  /\ users = [u \in Ids |-> IF u \in TestIds THEN TestName(u) ELSE NoName]
  /\ nextId = NTest + 1

TestFriendsOnly ==
  /\ \A u \in FriendlyIds : <<"friends", u>> \in tables
  /\ \A u \in TestIds :
       friends[u] = IF u \in FriendlyIds THEN FriendlyIds \ {u} ELSE {}
  /\ \A u, v \in FriendlyIds : u # v => Meeting(u, v) \in met

Restoring ==
  ~failed =>
    /\ step \in NoChats => chats = {}
    /\ step \in NoInvitations =>
         \A u \in Ids : <<"sent", u>> \notin tables /\ <<"received", u>> \notin tables
    /\ step \in AllInvitations =>
         \A u \in Ids : \A kind \in {"sent", "received"} :
           <<kind, u>> \in tables <=> u \in TestIds
    /\ step \in NoTestFriends =>
         \A u \in TestIds : <<"friends", u>> \notin tables /\ friends[u] = {}
    /\ step \in NoUsers => \A u \in Ids : users[u] = NoName
    /\ step = "insert" => nextId = 1
    /\ step \in TestUsers => TestUsersOnly
    /\ step \in AllBefriended => TestFriendsOnly
    /\ step = "messages" => \A u \in TestIds : <<"friends", u>> \in tables
    /\ step \in UsersDeleted =>
         \A u \in Ids \ TestIds : \A v \in friends[u] : <<u, v>> \in leftover

AccountsInv ==
  /\ AccountsTypeOK
  /\ Restoring
  /\ OnlyTornIncomplete
  /\ FriendsMadeOrInherited
=============================================================================
