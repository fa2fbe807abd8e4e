---------------------------- MODULE Invitations ----------------------------
(***************************************************************************)
(* Friend invitations and friend lists of JupiterServer: the message       *)
(* handlers of ClientSession and the DatabaseManager methods they call.    *)
(*                                                                         *)
(* MySQL keeps, for every user, a table of sent and one of received        *)
(* invitations and a table of friends.  `sent` is the union of the first   *)
(* kind and `recv` of the second: row n of both was inserted by the n-th   *)
(* friend request.  The code does not know that number: it relates the two *)
(* copies of an invitation by the users and the second of their creation,  *)
(* which is what the actions below do.  The request_id a client names is   *)
(* the row n of its own table.                                             *)
(*                                                                         *)
(* The clock is that of the database, and is taken never to be set back.   *)
(* The server is one Qt event loop, so handlers never overlap.  What       *)
(* breaks a handler is a database error: a transaction that is really open *)
(* rolls back, but BEGIN and DDL commit an open transaction implicitly, so *)
(* acceptFriendInvitation can stop after any of several commits.           *)
(***************************************************************************)
EXTENDS Integers

CONSTANTS
  Users,            \* the accounts of the `users` table
  KeyedUsers,       \* those whose friends table has PRIMARY KEY (friend_id)
  InitFriends,      \* [Users -> SUBSET Users], the friendships of the test data
  DbFailures,       \* may a database statement fail?
  Straddle,         \* may the clock tick between two INSERTs of a transaction?
  MaxInvitations,   \* bound: friend requests made
  MaxNow            \* bound: seconds that pass

ASSUME InvitationsAssumption ==
  /\ KeyedUsers \subseteq Users
  /\ InitFriends \in [Users -> SUBSET Users]
  /\ \A u, v \in Users : v \in InitFriends[u] => u \in InitFriends[v] /\ u # v
  /\ DbFailures \in BOOLEAN /\ Straddle \in BOOLEAN
  /\ MaxInvitations \in Nat /\ MaxNow \in Nat

VARIABLES
  now,      \* CURRENT_TIMESTAMP, whole seconds
  made,     \* how many friend requests have been stored
  sent,     \* the user_<from>_sent_invitations rows, 1..made -> row
  recv,     \* the user_<to>_received_invitations rows, 1..made -> row
  friends,  \* friends[u][v]: how many rows of user_<u>_friends name v
  chats,    \* the pairs {u, v} for which an accept created a chat table
  reply     \* the last request handled, its answer, and whom it notified

tables == <<made, sent, recv, friends, chats>>
vars == <<now, tables, reply>>

Statuses == {"pending", "accepted", "rejected", "cancelled"}
Rows == [from : Users, to : Users, status : Statuses, at : Nat]
Operations == {"none", "add", "accept", "reject", "cancel", "remove"}
Replies == [op : Operations, inv : Nat, ok : BOOLEAN, told : SUBSET Users]

NoReply == [op |-> "none", inv |-> 0, ok |-> TRUE, told |-> {}]

\* The answer to operation op on row inv, and the users notified with it.
Answer(op, inv, ok, told) ==
  reply' = [op |-> op, inv |-> inv, ok |-> ok, told |-> told]

TypeOK ==
  /\ now \in Nat
  /\ made \in Nat
  /\ sent \in [1..made -> Rows]
  /\ recv \in [1..made -> Rows]
  /\ friends \in [Users -> [Users -> Nat]]
  /\ chats \subseteq SUBSET Users
  /\ reply \in Replies

Init ==
  /\ now = 0
  /\ made = 0
  /\ sent = [n \in 1..0 |-> NoReply]
  /\ recv = [n \in 1..0 |-> NoReply]
  /\ friends = [u \in Users |->
                  [v \in Users |-> IF v \in InitFriends[u] THEN 1 ELSE 0]]
  /\ chats = {}
  /\ reply = NoReply
-----------------------------------------------------------------------------
(* Table operations.                                                       *)

\* UPDATE ... SET status = st, for the rows `hits` of table t.
SetStatus(t, hits, st) ==
  [n \in 1..made |->
     IF n \in hits THEN [t[n] EXCEPT !.status = st] ELSE t[n]]

\* INSERT INTO the table t of a new pending row.
Insert(t, u, v, second) ==
  [n \in 1..(made + 1) |->
     IF n = made + 1
     THEN [from |-> u, to |-> v, status |-> "pending", at |-> second]
     ELSE t[n]]

\* Mutation: the UPDATE forgets the user the invitation went to.
MatchingSenderOnly(t, row) ==
  {m \in 1..made : t[m].from = row.from /\ t[m].at = row.at}

\* The rows of t with the users and the second of creation of a given row.
Matching(t, row) ==
  {m \in 1..made : /\ t[m].from = row.from
                   /\ t[m].to = row.to
                   /\ t[m].at = row.at}

Pending(t) == {n \in 1..made : t[n].status = "pending"}

\* INSERT INTO user_<u>_friends, which a PRIMARY KEY may refuse.
AddFriend(f, u, v) == [f EXCEPT ![u][v] = @ + 1]
KeyClash(f, u, v) == u \in KeyedUsers /\ f[u][v] > 0

\* The newest pending row of u's sent table, the first of GET_SENT; rows of
\* the same second come in any order.
NewestSent(u) ==
  {n \in Pending(sent) :
     /\ sent[n].from = u
     /\ \A m \in Pending(sent) : sent[m].from = u => sent[m].at <= sent[n].at}
-----------------------------------------------------------------------------
(* ADD_FRIEND_REQUEST: sendFriendRequest is one real transaction.          *)

\* Mutations: CHECK_PENDING_INVITATION is dropped, or the look at the friends.
AddRefusedToFriends(u, v) == friends[u][v] > 0
AddRefusedToWaiting(u, v) ==
  \E n \in Pending(sent) : sent[n].from = u /\ sent[n].to = v

AddRefused(u, v) == \/ friends[u][v] > 0
                    \/ \E n \in Pending(sent) : sent[n].from = u /\ sent[n].to = v

SendFriendRequest(u, v, second) ==
  /\ u # v
  /\ ~AddRefused(u, v)
  /\ made < MaxInvitations
  /\ second \in {now, now + 1}
  /\ second > now => Straddle /\ second <= MaxNow
  /\ now' = second
  /\ made' = made + 1
  /\ sent' = Insert(sent, u, v, now)
  /\ recv' = Insert(recv, u, v, second)
  /\ Answer("add", made + 1, TRUE, {})
  /\ UNCHANGED <<friends, chats>>

SendFriendRequestFails(u, v) ==
  /\ u # v
  /\ AddRefused(u, v) \/ DbFailures
  /\ Answer("add", 0, FALSE, {})
  /\ UNCHANGED <<now, tables>>
-----------------------------------------------------------------------------
(* FRIEND_REQUEST_ACCEPT by the receiver of row n.                         *)

\* Mutation: the UPDATE of the sent rows drops created_at.
AcceptHitsAnySecond(n) ==
  {m \in 1..made : /\ sent[m].from = recv[n].from /\ sent[m].to = recv[n].to
                   /\ sent[m].status # "accepted"}

\* The sent rows the second UPDATE changes: it does not look at their status,
\* and rows that are accepted already do not count as affected.
AcceptHits(n) == {m \in Matching(sent, recv[n]) : sent[m].status # "accepted"}

\* Mutation: the status of the received row is not looked at.
AcceptAnyStatus(n) == AcceptHits(n) # {}

AcceptPossible(n) == recv[n].status = "pending" /\ AcceptHits(n) # {}

\* Mutation: the UPDATE of the received row is missing.
CommitSentOnly(n) ==
  /\ AcceptPossible(n)
  /\ sent' = SetStatus(sent, AcceptHits(n), "accepted")
  /\ recv' = recv

\* addFriend begins a transaction of its own, which commits the two UPDATEs.
CommitAccept(n) ==
  /\ AcceptPossible(n)
  /\ sent' = SetStatus(sent, AcceptHits(n), "accepted")
  /\ recv' = SetStatus(recv, {n}, "accepted")

\* The friends tables after the first `added` of the two addFriend calls.
FriendsAfter(n, added) ==
  LET u == recv[n].to
      v == recv[n].from
      one == AddFriend(friends, u, v)
  IN  IF added = 0 THEN friends ELSE IF added = 1 THEN one ELSE AddFriend(one, v, u)

CanAdd(n, added) ==
  /\ added >= 1 => ~KeyClash(friends, recv[n].to, recv[n].from)
  /\ added = 2 => ~KeyClash(friends, recv[n].from, recv[n].to)

\* CREATE TABLE IF NOT EXISTS chat_<x>_<y>, which commits by itself.
CreateChatTable(n) == chats' = chats \cup {{recv[n].to, recv[n].from}}

AcceptFriendInvitation(n) ==
  /\ CommitAccept(n)
  /\ CanAdd(n, 2)
  /\ friends' = FriendsAfter(n, 2)
  /\ CreateChatTable(n)
     \* The handler looks for n among the rows that are still pending.
  /\ Answer("accept", n, TRUE,
            IF recv'[n].status = "pending" THEN {recv[n].from} ELSE {})
  /\ UNCHANGED <<now, made>>

\* A statement fails before the first implicit commit: all rolled back.
AcceptRolledBack(n) ==
  /\ ~AcceptPossible(n) \/ DbFailures
  /\ Answer("accept", n, FALSE, {})
  /\ UNCHANGED <<now, tables>>

\* A statement fails after it, with `added` friend rows inserted and, if only
\* the last COMMIT fails, the chat table created: the client is told that
\* accepting failed, and what was committed stays.
AcceptTornApart(n, added) ==
  /\ CommitAccept(n)
  /\ CanAdd(n, added)
  /\ DbFailures \/ (added < 2 /\ ~CanAdd(n, added + 1))
  /\ friends' = FriendsAfter(n, added)
  /\ UNCHANGED chats \/ (added = 2 /\ CreateChatTable(n))
  /\ Answer("accept", n, FALSE, {})
  /\ UNCHANGED <<now, made>>
-----------------------------------------------------------------------------
(* FRIEND_REQUEST_REJECT by the receiver of row n: one real transaction.   *)

RejectHits(n) == Matching(sent, recv[n]) \cap Pending(sent)

RejectPossible(n) == n \in Pending(recv) /\ RejectHits(n) # {}

RejectFriendInvitation(n) ==
  /\ RejectPossible(n)
  /\ recv' = SetStatus(recv, {n}, "rejected")
  /\ sent' = SetStatus(sent, RejectHits(n), "rejected")
  /\ Answer("reject", n, TRUE, {})
  /\ UNCHANGED <<now, made, friends, chats>>

RejectRolledBack(n) ==
  /\ ~RejectPossible(n) \/ DbFailures
  /\ Answer("reject", n, FALSE, {})
  /\ UNCHANGED <<now, tables>>
-----------------------------------------------------------------------------
(* CANCEL_FRIEND_REQUEST by the sender of row n.  getFriendRequestTarget-  *)
(* UserId picks whom to notify, and cancelFriendInvitation whether there   *)
(* is anything to cancel, from the newest pending row, not from row n.     *)

\* Mutations: the UPDATE by time stamp drops status = 'pending', or swaps users.
CancelHitsAnyStatus(n) == Matching(recv, sent[n])
CancelHitsSwapped(n) ==
  {m \in Pending(recv) : /\ recv[m].from = sent[n].to /\ recv[m].to = sent[n].from
                         /\ recv[m].at = sent[n].at}

CancelHits(n) == Matching(recv, sent[n]) \cap Pending(recv)

CancelPossible(n) ==
  /\ NewestSent(sent[n].from) # {}
  /\ n \in Pending(sent)
  /\ CancelHits(n) # {}

\* updateBothInvitationStatuses commits; the commit of the caller that
\* follows has nothing to commit but may still report a lost connection.
CommitCancel(n) ==
  /\ CancelPossible(n)
  /\ sent' = SetStatus(sent, {n}, "cancelled")
  /\ recv' = SetStatus(recv, CancelHits(n), "cancelled")
  /\ UNCHANGED <<now, made, friends, chats>>

CancelFriendInvitation(n) ==
  /\ CommitCancel(n)
  /\ \E newest \in NewestSent(sent[n].from) :
       Answer("cancel", n, TRUE, {sent[newest].to})

CancelReportedFailed(n) ==
  /\ DbFailures
  /\ CommitCancel(n)
  /\ Answer("cancel", n, FALSE, {})

CancelRolledBack(n) ==
  /\ ~CancelPossible(n) \/ DbFailures
  /\ Answer("cancel", n, FALSE, {})
  /\ UNCHANGED <<now, tables>>
-----------------------------------------------------------------------------
(* REMOVE_FRIEND: both DELETEs in one real transaction, pending            *)
(* invitations stay.                                                       *)

\* Mutation: one DELETE is missing.
RemoveOneSide(u, v) ==
  /\ friends' = [friends EXCEPT ![u][v] = 0]
  /\ Answer("remove", 0, TRUE, {v})
  /\ UNCHANGED <<now, made, sent, recv, chats>>

RemoveFriend(u, v) ==
  /\ friends' = [friends EXCEPT ![u][v] = 0, ![v][u] = 0]
  /\ Answer("remove", 0, TRUE, {v})
  /\ UNCHANGED <<now, made, sent, recv, chats>>

RemoveRolledBack ==
  /\ DbFailures
  /\ Answer("remove", 0, FALSE, {})
  /\ UNCHANGED <<now, tables>>

\* A second passes; CURRENT_TIMESTAMP does not go back.
Tick ==
  /\ now < MaxNow
  /\ now' = now + 1
  /\ UNCHANGED <<tables, reply>>

AcceptStep(n) == \/ AcceptFriendInvitation(n)
                 \/ AcceptRolledBack(n)
                 \/ \E added \in 0..2 : AcceptTornApart(n, added)

Next ==
  \/ \E u, v \in Users :
       \/ \E second \in {now, now + 1} : SendFriendRequest(u, v, second)
       \/ SendFriendRequestFails(u, v)
       \/ RemoveFriend(u, v)
  \/ \E n \in 1..made :
       \/ AcceptStep(n)
       \/ RejectFriendInvitation(n)
       \/ RejectRolledBack(n)
       \/ CancelFriendInvitation(n)
       \/ CancelReportedFailed(n)
       \/ CancelRolledBack(n)
  \/ RemoveRolledBack
  \/ Tick

Spec == Init /\ [][Next]_vars
-----------------------------------------------------------------------------
(* Properties.                                                             *)

\* n and m are invitations of the same user to the same user.
SamePair(n, m) == sent[n].from = sent[m].from /\ sent[n].to = sent[m].to

\* The two copies of an invitation are pending together or settled together,
\* although accept, reject and cancel find the second copy only by users and
\* second of creation: no clock tick, error or resend in that second makes
\* one of them settle the copy of another pending invitation.
PendingAgree ==
  \A n \in 1..made : n \in Pending(sent) <=> n \in Pending(recv)

\* At most one invitation from u to v waits for an answer, in either table:
\* CHECK_PENDING_INVITATION looks at the sender's table only.
OnePendingPerPair ==
  \A n, m \in 1..made :
    (SamePair(n, m) /\ n # m) =>
       /\ ~(n \in Pending(sent) /\ m \in Pending(sent))
       /\ ~(n \in Pending(recv) /\ m \in Pending(recv))

\* The answer to an invitation, as its receiver sees it, is final: no later
\* accept, reject, cancel or resend changes a settled received row.
RecvSettledForever ==
  [][\A n \in 1..made \ Pending(recv) : recv'[n].status = recv[n].status]_vars

\* A step settles no pending invitation but the one its client named, in
\* either table: the UPDATEs by users and second hit no pending bystander.
SettlesOnlyNamed ==
  [][\A n \in 1..made :
       (n \in Pending(sent) /\ n \notin Pending(sent)') \/
       (n \in Pending(recv) /\ n \notin Pending(recv)') => reply'.inv = n]_vars

\* The copies disagree in one way only: the sender's copy says accepted
\* because a later invitation of the same users, accepted since, was received
\* in the second this one was sent.
DivergeOnlyInSameSecond ==
  \A n \in 1..made :
    sent[n].status # recv[n].status =>
      /\ sent[n].status = "accepted"
      /\ \E m \in (n + 1)..made : /\ SamePair(n, m)
                                  /\ recv[m].status = "accepted"
                                  /\ recv[m].at = sent[n].at

\* The inductive strengthening of PendingAgree.  Both copies name the same two
\* users, seconds grow along the rows, and an invitation that is still pending
\* is the last of its users: so a second copy found in the same second either
\* is the right one or was settled before.
SamePeople ==
  \A n \in 1..made : /\ sent[n].from = recv[n].from
                     /\ sent[n].to = recv[n].to
                     /\ sent[n].from # sent[n].to

Ordered ==
  /\ \A n \in 1..made : sent[n].at <= recv[n].at /\ recv[n].at <= now
  /\ \A n, m \in 1..made : n < m => recv[n].at <= sent[m].at

LastIsPending ==
  \A n, m \in 1..made :
    (n < m /\ SamePair(n, m)) => sent[n].status # "pending"

IndInv == TypeOK /\ SamePeople /\ Ordered /\ LastIsPending /\ PendingAgree

\* Nobody appears in a friend list whom no accepted invitation put there:
\* either it was in the initial data, or one of the two accepted the other.
FriendsWereAccepted ==
  \A u, v \in Users :
    (friends[u][v] > 0 /\ v \notin InitFriends[u]) =>
      \E n \in 1..made : /\ {sent[n].from, sent[n].to} = {u, v}
                         /\ recv[n].status = "accepted"

\* While no statement fails, u lists v as a friend exactly when v lists u.
FriendshipSymmetric ==
  \A u, v \in Users : friends[u][v] > 0 <=> friends[v][u] > 0

\* While no statement fails, the server accepts, rejects and cancels every
\* pending invitation it is asked to, whatever other invitations exist; the
\* exceptions are a pair of INSERTs that straddled a second and, for accepting,
\* the primary key of a friends table.
SettleSucceeds ==
  [][\A n \in Pending(recv) :
       (/\ reply'.inv = n /\ reply' # reply
        /\ reply'.op \in {"accept", "reject", "cancel"}
        /\ sent[n].at = recv[n].at)
       => reply'.ok \/ (reply'.op = "accept" /\ ~CanAdd(n, 2))]_vars

\* A request answered with an error leaves the tables as they were.  This fails
\* when a statement inside an accept does.
ErrorChangesNothing == [][~reply'.ok => UNCHANGED tables]_vars

\* What is left of an accept or a cancel that named row n and stopped after an
\* implicit commit.  Both copies of n are settled.  Of the other rows, at most
\* sent copies of invitations of the same two users change, which were settled
\* before.  An accept has put each of the two at most once more into the other's
\* friend list and created at most their chat table.
Torn(n) ==
  /\ n \in Pending(recv) /\ reply'.inv = n /\ made' = made
  /\ sent'[n].status = recv'[n].status
  /\ \A m \in 1..made \ {n} :
       /\ recv'[m] = recv[m]
       /\ sent'[m] = sent[m] \/ (/\ reply'.op = "accept"
                               /\ SamePair(m, n) /\ m \notin Pending(sent))
  /\ \/ /\ reply'.op = "cancel" /\ recv'[n].status = "cancelled"
        /\ UNCHANGED <<friends, chats>>
     \/ /\ reply'.op = "accept" /\ recv'[n].status = "accepted"
        /\ chats' \in {chats, chats \cup {{recv[n].to, recv[n].from}}}
        /\ \A w, x \in Users :
             /\ friends[w][x] <= friends'[w][x] /\ friends'[w][x] <= friends[w][x] + 1
             /\ {w, x} # {recv[n].to, recv[n].from} => friends'[w][x] = friends[w][x]

\* What an error may leave behind: whatever statements fail, a request answered
\* with one has changed nothing, or it settled the pending invitation its client
\* named and has done nothing to anybody else's.
ErrorTearsOnlyNamed ==
  [][~reply'.ok => UNCHANGED tables \/ \E n \in 1..made : Torn(n)]_vars

\* A friends table never lists the same friend twice, as the schema of
\* scripts/initDatabase.sql and the tables main.cpp makes for users 4-6 demand.
NoDuplicateFriends == \A u, v \in Users : friends[u][v] <= 1

\* Does u wait for v's answer?
Waits(u, v) == \E n \in Pending(recv) : recv[n].from = u /\ recv[n].to = v

\* While no statement fails, a friend is listed at most twice: an invitation is
\* only made between users who are not friends, so two that cross add two rows,
\* and while one of them waits there is room for what it adds.
ListedAtMostTwice ==
  \A u, v \in Users :
    /\ friends[u][v] <= 2
    /\ Waits(u, v) \/ Waits(v, u) => friends[u][v] <= 1
    /\ Waits(u, v) /\ Waits(v, u) => friends[u][v] = 0

\* When an invitation is cancelled, its receiver is the one who is told.
CancelNotifiesReceiver ==
  (reply.op = "cancel" /\ reply.ok) => reply.told = {sent[reply.inv].to}

\* When an invitation is accepted, the one who sent it is told.
AcceptNotifiesSender ==
  (reply.op = "accept" /\ reply.ok) => reply.told = {recv[reply.inv].from}

\* The tables implement the promised friend graph while no statement fails:
\* the received rows are the invitations, a friend row a friendship.
FG == INSTANCE FriendGraph WITH
        offer <- [n \in 1..made |-> [from |-> recv[n].from,
                                     to |-> recv[n].to,
                                     status |-> recv[n].status]],
        friendOf <- [u \in Users |-> {v \in Users : friends[u][v] > 0}]

ImplementsFriendGraph == FG!Spec
=============================================================================
