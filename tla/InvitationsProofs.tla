------------------------- MODULE InvitationsProofs -------------------------
(***************************************************************************)
(* Proofs about Invitations, for any number of users, invitations and      *)
(* seconds.  IndInv is the inductive invariant; its steps use three        *)
(* lemmas on which rows an UPDATE by users and second can hit.             *)
(***************************************************************************)
EXTENDS Invitations, TLAPS

\* Rejecting row n changes the sent copy of n and no other row.
LEMMA RejectHitsOne ==
  ASSUME IndInv, NEW n \in 1..made, RejectPossible(n)
  PROVE  RejectHits(n) = {n}
<1>1. n \in Pending(sent)
  BY DEF RejectPossible, IndInv, PendingAgree
<1>2. ASSUME NEW m \in RejectHits(n)
      PROVE  m = n
  <2>1. m \in 1..made /\ m \in Pending(sent) /\ SamePair(n, m)
    BY DEF RejectHits, Matching, Pending, SamePair, IndInv, SamePeople
  <2>2. SamePair(m, n)
    BY <2>1 DEF SamePair
  <2>3. ~(n < m) /\ ~(m < n)
    BY <1>1, <2>1, <2>2 DEF IndInv, LastIsPending, Pending
  <2> QED
    BY <2>1, <2>3 DEF IndInv, TypeOK
<1> QED
  BY <1>2 DEF RejectPossible

\* Cancelling row n changes the received copy of n and no other row.
LEMMA CancelHitsOne ==
  ASSUME IndInv, NEW n \in 1..made, CancelPossible(n)
  PROVE  CancelHits(n) = {n}
<1>1. n \in Pending(sent)
  BY DEF CancelPossible
<1>2. ASSUME NEW m \in CancelHits(n)
      PROVE  m = n
  <2>1. m \in 1..made /\ m \in Pending(sent) /\ SamePair(n, m)
    BY DEF CancelHits, Matching, Pending, SamePair, IndInv, SamePeople, PendingAgree
  <2>2. SamePair(m, n)
    BY <2>1 DEF SamePair
  <2>3. ~(n < m) /\ ~(m < n)
    BY <1>1, <2>1, <2>2 DEF IndInv, LastIsPending, Pending
  <2> QED
    BY <2>1, <2>3 DEF IndInv, TypeOK
<1> QED
  BY <1>2 DEF CancelPossible

\* Accepting row n changes the sent copy of n, and beside it at most copies of
\* earlier invitations that were settled before.
LEMMA AcceptHitsSettled ==
  ASSUME IndInv, NEW n \in 1..made, AcceptPossible(n)
  PROVE  /\ n \in AcceptHits(n)
         /\ \A m \in AcceptHits(n) : m \in 1..made
         /\ \A m \in AcceptHits(n) \ {n} : m < n /\ m \notin Pending(sent)
<1>1. n \in Pending(recv) /\ n \in Pending(sent)
  BY DEF AcceptPossible, Pending, IndInv, PendingAgree
<1>2. ASSUME NEW m \in AcceptHits(n)
      PROVE  /\ m \in 1..made /\ SamePair(n, m) /\ SamePair(m, n)
             /\ sent[m].at = recv[n].at
  BY DEF AcceptHits, Matching, SamePair, IndInv, SamePeople
<1>3. ASSUME NEW m \in AcceptHits(n), m # n
      PROVE  m < n /\ m \notin Pending(sent)
  <2>1. m \in 1..made /\ SamePair(n, m) /\ SamePair(m, n)
    BY <1>2
  <2>2. ~(n < m)
    BY <1>1, <2>1 DEF IndInv, LastIsPending, Pending
  <2>3. m < n
    BY <1>3, <2>1, <2>2 DEF IndInv, TypeOK
  <2> QED
    BY <2>1, <2>3 DEF IndInv, LastIsPending, Pending
<1>4. n \in AcceptHits(n)
  <2>1. PICK m \in AcceptHits(n) : TRUE
    BY DEF AcceptPossible
  <2>2. CASE m = n
    BY <2>1, <2>2
  <2>3. CASE m # n
    <3>1. m \in 1..made /\ m < n /\ sent[m].at = recv[n].at
      BY <1>2, <1>3, <2>3
    <3>2. /\ sent[m].at \in Nat /\ recv[m].at \in Nat
          /\ sent[n].at \in Nat /\ recv[n].at \in Nat
      BY <3>1 DEF IndInv, TypeOK, Rows
    <3>3. /\ sent[m].at <= recv[m].at
          /\ recv[m].at <= sent[n].at
          /\ sent[n].at <= recv[n].at
      BY <3>1 DEF IndInv, Ordered
    <3>4. sent[n].at = recv[n].at
      BY <3>1, <3>2, <3>3
    <3> QED
      BY <1>1, <3>4 DEF AcceptHits, Matching, Pending, IndInv, SamePeople
  <2> QED
    BY <2>2, <2>3
<1> QED
  BY <1>2, <1>3, <1>4

\* A step that settles rows S of the sent and T of the received copies keeps
\* the invariant if S and T hold the same pending invitations.
LEMMA SettleKeepsRows ==
  ASSUME IndInv, NEW S, NEW T, NEW st \in Statuses \ {"pending"},
         sent' = SetStatus(sent, S, st), recv' = SetStatus(recv, T, st),
         made' = made, now' = now,
         \A n \in 1..made : (n \in S /\ n \in Pending(sent))
                               <=> (n \in T /\ n \in Pending(recv))
  PROVE  /\ sent' \in [1..made' -> Rows] /\ recv' \in [1..made' -> Rows]
         /\ SamePeople' /\ Ordered' /\ LastIsPending' /\ PendingAgree'
<1>1. /\ sent \in [1..made -> Rows] /\ recv \in [1..made -> Rows]
      /\ made \in Nat /\ now \in Nat
  BY DEF IndInv, TypeOK
<1>2. sent' \in [1..made' -> Rows] /\ recv' \in [1..made' -> Rows]
  BY <1>1 DEF SetStatus, Rows
<1>3. ASSUME NEW n \in 1..made
      PROVE  /\ sent'[n].from = sent[n].from /\ recv'[n].from = recv[n].from
             /\ sent'[n].to = sent[n].to /\ recv'[n].to = recv[n].to
             /\ sent'[n].at = sent[n].at /\ recv'[n].at = recv[n].at
             /\ sent'[n].status = IF n \in S THEN st ELSE sent[n].status
             /\ recv'[n].status = IF n \in T THEN st ELSE recv[n].status
  BY <1>1, <1>3 DEF SetStatus, Rows
<1>4. SamePeople'
  BY <1>3 DEF IndInv, SamePeople
<1>5. Ordered'
  BY <1>3 DEF IndInv, Ordered
<1>6. LastIsPending'
  BY <1>3 DEF IndInv, LastIsPending, SamePair, Statuses
<1>7. PendingAgree'
  BY <1>3 DEF IndInv, PendingAgree, Pending, Statuses
<1> QED
  BY <1>2, <1>4, <1>5, <1>6, <1>7

\* A friend request is stored only when the sender has no pending one for that
\* user, so the new row is the only pending row of its pair.
LEMMA SendKeepsIndInv ==
  ASSUME IndInv, NEW u \in Users, NEW v \in Users, NEW second \in {now, now + 1},
         SendFriendRequest(u, v, second)
  PROVE  IndInv'
<1> DEFINE top == made + 1
<1>1. /\ sent \in [1..made -> Rows] /\ recv \in [1..made -> Rows]
      /\ made \in Nat /\ now \in Nat /\ second \in Nat
      /\ now <= second /\ now' = second /\ made' = top
  BY DEF IndInv, TypeOK, SendFriendRequest
<1>2. 1..top = 1..made \cup {top} /\ top \notin 1..made /\ 1..made' = 1..top
  BY <1>1
<1>3. /\ \A n \in 1..made : sent'[n] = sent[n] /\ recv'[n] = recv[n]
      /\ sent'[top] = [from |-> u, to |-> v, status |-> "pending", at |-> now]
      /\ recv'[top] = [from |-> u, to |-> v, status |-> "pending", at |-> second]
  BY <1>1, <1>2 DEF SendFriendRequest, Insert
<1>4. TypeOK'
  <2>1. sent' \in [1..made' -> Rows] /\ recv' \in [1..made' -> Rows]
    BY <1>1, <1>2 DEF SendFriendRequest, Insert, Rows, Statuses
  <2>2. reply' \in Replies
    BY <1>1 DEF SendFriendRequest, Answer, Replies, Operations
  <2> QED
    BY <1>1, <2>1, <2>2 DEF IndInv, TypeOK, SendFriendRequest
<1>5. SamePeople'
  BY <1>1, <1>2, <1>3 DEF IndInv, SamePeople, SendFriendRequest
<1>6. Ordered'
  <2>1. \A n \in 1..made : /\ sent[n].at \in Nat /\ recv[n].at \in Nat
                           /\ sent[n].at <= recv[n].at /\ recv[n].at <= now
    BY <1>1 DEF IndInv, Ordered, Rows
  <2> QED
    <3>1. \A n \in 1..top : sent'[n].at <= recv'[n].at /\ recv'[n].at <= now'
      BY <1>1, <1>2, <1>3, <2>1
    <3>2. \A n, m \in 1..made : n < m => recv'[n].at <= sent'[m].at
      BY <1>3 DEF IndInv, Ordered
    <3>3. \A n \in 1..made : recv'[n].at <= sent'[top].at
      BY <1>3, <2>1
    <3>4. \A m \in 1..top : ~(top < m)
      BY <1>1
    <3> QED
      BY <1>2, <3>1, <3>2, <3>3, <3>4 DEF Ordered
<1>7. LastIsPending'
  <2>1. ASSUME NEW n \in 1..made, sent[n].from = u, sent[n].to = v
        PROVE  sent[n].status # "pending"
    BY <2>1 DEF SendFriendRequest, AddRefused, Pending
  <2> QED
    BY <1>1, <1>2, <1>3, <2>1 DEF IndInv, LastIsPending, SamePair
<1>8. PendingAgree'
  BY <1>1, <1>2, <1>3 DEF IndInv, PendingAgree, Pending
<1> QED
  BY <1>4, <1>5, <1>6, <1>7, <1>8 DEF IndInv

\* Both addFriend calls, either, or none, leave friend rows that are counts.
LEMMA FriendsAfterType ==
  ASSUME TypeOK, NEW n \in 1..made, NEW added \in 0..2
  PROVE  FriendsAfter(n, added) \in [Users -> [Users -> Nat]]
<1>1. recv[n].from \in Users /\ recv[n].to \in Users
  BY DEF TypeOK, Rows
<1>2. ASSUME NEW f \in [Users -> [Users -> Nat]], NEW u \in Users, NEW v \in Users
      PROVE  AddFriend(f, u, v) \in [Users -> [Users -> Nat]]
  BY DEF AddFriend
<1>3. friends \in [Users -> [Users -> Nat]]
  BY DEF TypeOK
<1>4. CASE added = 0
  BY <1>3, <1>4 DEF FriendsAfter
<1>5. CASE added = 1
  BY <1>1, <1>2, <1>3, <1>5 DEF FriendsAfter
<1>6. CASE added = 2
  BY <1>1, <1>2, <1>3, <1>6 DEF FriendsAfter
<1> QED
  BY <1>4, <1>5, <1>6

\* Committing the two UPDATEs of an accept keeps the rows' invariants.
LEMMA CommitAcceptKeepsRows ==
  ASSUME IndInv, NEW n \in 1..made, CommitAccept(n), made' = made, now' = now
  PROVE  /\ sent' \in [1..made' -> Rows] /\ recv' \in [1..made' -> Rows]
         /\ SamePeople' /\ Ordered' /\ LastIsPending' /\ PendingAgree'
<1>1. AcceptPossible(n)
  BY DEF CommitAccept
<1>2. n \in Pending(recv) /\ n \in Pending(sent)
  BY <1>1 DEF AcceptPossible, Pending, IndInv, PendingAgree
<1>3. \A m \in 1..made : (m \in AcceptHits(n) /\ m \in Pending(sent))
                            <=> (m \in {n} /\ m \in Pending(recv))
  BY <1>1, <1>2, AcceptHitsSettled
<1> QED
  BY <1>3, SettleKeepsRows DEF CommitAccept, Statuses

\* The invariant holds at every step, whichever handler runs and wherever a
\* database error stops it.
LEMMA NextKeepsIndInv ==
  ASSUME IndInv, [Next]_vars
  PROVE  IndInv'
<1> USE DEF IndInv
<1>1. ASSUME UNCHANGED <<made, sent, recv>>, now' \in Nat, now <= now',
             friends' \in [Users -> [Users -> Nat]],
             chats' \subseteq SUBSET Users, reply' \in Replies
      PROVE  IndInv'
  <2>1. TypeOK' /\ SamePeople'
    BY <1>1 DEF TypeOK, SamePeople
  <2>2. Ordered'
    <3>1. now \in Nat /\ \A n \in 1..made : recv[n].at \in Nat
      BY DEF TypeOK, Rows
    <3> QED
      BY <1>1, <3>1 DEF Ordered
  <2>3. LastIsPending' /\ PendingAgree'
    BY <1>1 DEF LastIsPending, PendingAgree, SamePair, Pending
  <2> QED
    BY <2>1, <2>2, <2>3
<1>2. ASSUME NEW op \in Operations, NEW n \in Nat, NEW ok \in BOOLEAN,
             NEW told \in SUBSET Users, Answer(op, n, ok, told)
      PROVE  reply' \in Replies
  BY <1>2 DEF Answer, Replies
<1>3. ASSUME NEW op \in Operations, NEW n \in Nat,
             Answer(op, n, FALSE, {}), UNCHANGED <<now, tables>>
      PROVE  IndInv'
  <2>1. reply' \in Replies
    BY <1>3 DEF Answer, Replies
  <2> QED
    BY <1>1, <1>3, <2>1 DEF tables, TypeOK
<1>4. ASSUME NEW u \in Users, NEW v \in Users, NEW second \in {now, now + 1},
             SendFriendRequest(u, v, second)
      PROVE  IndInv'
  BY <1>4, SendKeepsIndInv
<1>5. ASSUME NEW u \in Users, NEW v \in Users, SendFriendRequestFails(u, v)
      PROVE  IndInv'
  BY <1>3, <1>5 DEF SendFriendRequestFails, Operations
<1>6. ASSUME NEW u \in Users, NEW v \in Users, RemoveFriend(u, v)
      PROVE  IndInv'
  <2>1. reply' \in Replies
    BY <1>6 DEF RemoveFriend, Answer, Replies, Operations
  <2>2. friends' \in [Users -> [Users -> Nat]]
    BY <1>6 DEF RemoveFriend, TypeOK
  <2>3. /\ UNCHANGED <<made, sent, recv>> /\ chats' \subseteq SUBSET Users
        /\ now' \in Nat /\ now <= now'
    BY <1>6 DEF RemoveFriend, TypeOK
  <2> QED
    BY <1>1, <2>1, <2>2, <2>3
<1>7. ASSUME NEW n \in 1..made, AcceptFriendInvitation(n)
      PROVE  IndInv'
  <2>1. /\ sent' \in [1..made' -> Rows] /\ recv' \in [1..made' -> Rows]
        /\ SamePeople' /\ Ordered' /\ LastIsPending' /\ PendingAgree'
    BY <1>7, CommitAcceptKeepsRows DEF AcceptFriendInvitation
  <2>2. n \in Nat /\ recv[n].from \in Users /\ recv[n].to \in Users
    BY DEF TypeOK, Rows
  <2>3. reply' \in Replies
    BY <1>7, <2>2 DEF AcceptFriendInvitation, Answer, Replies, Operations
  <2>4. friends' \in [Users -> [Users -> Nat]]
    BY <1>7, FriendsAfterType DEF AcceptFriendInvitation
  <2>5. chats' \subseteq SUBSET Users
    BY <1>7, <2>2 DEF AcceptFriendInvitation, CreateChatTable, TypeOK
  <2> QED
    BY <1>7, <2>1, <2>2, <2>3, <2>4, <2>5 DEF AcceptFriendInvitation, TypeOK
<1>8. ASSUME NEW n \in 1..made, AcceptRolledBack(n)
      PROVE  IndInv'
  <2>1. n \in Nat /\ "accept" \in Operations
    BY DEF Operations
  <2>2. Answer("accept", n, FALSE, {}) /\ UNCHANGED <<now, tables>>
    BY <1>8 DEF AcceptRolledBack
  <2> QED
    BY <1>3, <2>1, <2>2
<1>9. ASSUME NEW n \in 1..made, NEW added \in 0..2, AcceptTornApart(n, added)
      PROVE  IndInv'
  <2>1. /\ sent' \in [1..made' -> Rows] /\ recv' \in [1..made' -> Rows]
        /\ SamePeople' /\ Ordered' /\ LastIsPending' /\ PendingAgree'
    BY <1>9, CommitAcceptKeepsRows DEF AcceptTornApart
  <2>2. reply' \in Replies
    BY <1>9 DEF AcceptTornApart, Answer, Replies, Operations
  <2>3. friends' \in [Users -> [Users -> Nat]]
    BY <1>9, FriendsAfterType DEF AcceptTornApart
  <2>4. recv[n].from \in Users /\ recv[n].to \in Users
    BY DEF TypeOK, Rows
  <2>5. chats' \subseteq SUBSET Users
    <3>1. UNCHANGED chats \/ CreateChatTable(n)
      BY <1>9 DEF AcceptTornApart
    <3>2. chats \subseteq SUBSET Users
      BY DEF TypeOK
    <3> QED
      BY <2>4, <3>1, <3>2 DEF CreateChatTable
  <2>6. UNCHANGED <<now, made>>
    BY <1>9 DEF AcceptTornApart
  <2>7. TypeOK'
    BY <2>1, <2>2, <2>3, <2>5, <2>6 DEF TypeOK
  <2> QED
    BY <2>1, <2>7
<1>10. ASSUME NEW n \in 1..made, RejectFriendInvitation(n)
       PROVE  IndInv'
  <2>1. RejectHits(n) = {n} /\ n \in Pending(recv) /\ n \in Pending(sent)
    BY <1>10, RejectHitsOne DEF RejectFriendInvitation, RejectPossible, PendingAgree
  <2>2. /\ sent' \in [1..made' -> Rows] /\ recv' \in [1..made' -> Rows]
        /\ SamePeople' /\ Ordered' /\ LastIsPending' /\ PendingAgree'
    <3>1. \A m \in 1..made : (m \in RejectHits(n) /\ m \in Pending(sent))
                                  <=> (m \in {n} /\ m \in Pending(recv))
      BY <2>1
    <3>2. "rejected" \in Statuses \ {"pending"}
      BY DEF Statuses
    <3> QED
      BY <1>10, <3>1, <3>2, SettleKeepsRows DEF RejectFriendInvitation
  <2>3. reply' \in Replies
    BY <1>10 DEF RejectFriendInvitation, Answer, Replies, Operations
  <2> QED
    BY <1>10, <2>2, <2>3 DEF RejectFriendInvitation, TypeOK
<1>11. ASSUME NEW n \in 1..made, RejectRolledBack(n)
       PROVE  IndInv'
  <2>1. n \in Nat /\ "reject" \in Operations
    BY DEF Operations
  <2>2. Answer("reject", n, FALSE, {}) /\ UNCHANGED <<now, tables>>
    BY <1>11 DEF RejectRolledBack
  <2> QED
    BY <1>3, <2>1, <2>2
<1>12. ASSUME NEW n \in 1..made, CommitCancel(n), reply' \in Replies
       PROVE  IndInv'
  <2>1. CancelHits(n) = {n} /\ n \in Pending(recv) /\ n \in Pending(sent)
    BY <1>12, CancelHitsOne DEF CommitCancel, CancelPossible, PendingAgree
  <2>2. /\ sent' \in [1..made' -> Rows] /\ recv' \in [1..made' -> Rows]
        /\ SamePeople' /\ Ordered' /\ LastIsPending' /\ PendingAgree'
    <3>1. \A m \in 1..made : (m \in {n} /\ m \in Pending(sent))
                                  <=> (m \in CancelHits(n) /\ m \in Pending(recv))
      BY <2>1
    <3>2. "cancelled" \in Statuses \ {"pending"}
      BY DEF Statuses
    <3> QED
      BY <1>12, <3>1, <3>2, SettleKeepsRows DEF CommitCancel
  <2> QED
    BY <1>12, <2>2 DEF CommitCancel, TypeOK
<1>13. ASSUME NEW n \in 1..made, CancelFriendInvitation(n)
       PROVE  IndInv'
  <2>1. PICK newest \in NewestSent(sent[n].from) :
               Answer("cancel", n, TRUE, {sent[newest].to})
    BY <1>13 DEF CancelFriendInvitation
  <2>2. sent[newest].to \in Users
    BY <2>1 DEF NewestSent, Pending, TypeOK, Rows
  <2>3. reply' \in Replies
    BY <2>1, <2>2 DEF Answer, Replies, Operations
  <2> QED
    BY <1>12, <1>13, <2>3 DEF CancelFriendInvitation
<1>14. ASSUME NEW n \in 1..made, CancelReportedFailed(n)
       PROVE  IndInv'
  <2>1. reply' \in Replies
    BY <1>14 DEF CancelReportedFailed, Answer, Replies, Operations
  <2> QED
    BY <1>12, <1>14, <2>1 DEF CancelReportedFailed
<1>15. ASSUME NEW n \in 1..made, CancelRolledBack(n)
       PROVE  IndInv'
  <2>1. n \in Nat /\ "cancel" \in Operations
    BY DEF Operations
  <2>2. Answer("cancel", n, FALSE, {}) /\ UNCHANGED <<now, tables>>
    BY <1>15 DEF CancelRolledBack
  <2> QED
    BY <1>3, <2>1, <2>2
<1>16. CASE RemoveRolledBack
  BY <1>3, <1>16 DEF RemoveRolledBack, Operations
<1>17. CASE Tick
  BY <1>1, <1>17 DEF Tick, tables, TypeOK
<1>18. CASE UNCHANGED vars
  BY <1>1, <1>18 DEF vars, tables, TypeOK
<1> QED
  BY <1>4, <1>5, <1>6, <1>7, <1>8, <1>9, <1>10, <1>11, <1>13, <1>14, <1>15,
     <1>16, <1>17, <1>18 DEF Next, AcceptStep

LEMMA InitIndInv == Init => IndInv
<1> SUFFICES ASSUME Init PROVE IndInv
  OBVIOUS
<1>1. 1..made = {}
  BY DEF Init
<1>2. TypeOK
  BY <1>1, InvitationsAssumption DEF Init, TypeOK, Replies, NoReply, Operations
<1>3. SamePeople /\ Ordered /\ LastIsPending /\ PendingAgree
  BY <1>1 DEF SamePeople, Ordered, LastIsPending, PendingAgree
<1> QED
  BY <1>2, <1>3 DEF IndInv

\* The inductive invariant holds in every reachable state.
THEOREM IndInvHolds == Spec => []IndInv
<1>1. Init => IndInv
  BY InitIndInv
<1>2. IndInv /\ [Next]_vars => IndInv'
  BY NextKeepsIndInv
<1> QED
  BY <1>1, <1>2, PTL DEF Spec
-----------------------------------------------------------------------------
\* The two copies of every invitation are pending together.
THEOREM PendingAgreeHolds == Spec => []PendingAgree
<1>1. IndInv => PendingAgree
  BY DEF IndInv
<1> QED
  BY <1>1, IndInvHolds, PTL

\* Never two pending invitations of one user to another, in either table.
THEOREM OnePendingHolds == Spec => []OnePendingPerPair
<1>1. ASSUME IndInv, NEW n \in 1..made, NEW m \in 1..made, SamePair(n, m), n # m
      PROVE  /\ ~(n \in Pending(sent) /\ m \in Pending(sent))
             /\ ~(n \in Pending(recv) /\ m \in Pending(recv))
  <2>1. n < m \/ m < n
    BY <1>1 DEF IndInv, TypeOK
  <2>2. n \notin Pending(sent) \/ m \notin Pending(sent)
    BY <1>1, <2>1 DEF IndInv, LastIsPending, SamePair, Pending
  <2> QED
    BY <1>1, <2>2 DEF IndInv, PendingAgree
<1>2. IndInv => OnePendingPerPair
  BY <1>1 DEF OnePendingPerPair
<1> QED
  BY <1>2, IndInvHolds, PTL

\* The three ways a received row changes its status, and the only rows they hit.
LEMMA StepOnReceivedRows ==
  ASSUME IndInv, [Next]_vars, NEW k \in 1..made
  PROVE  \/ recv'[k] = recv[k]
         \/ k \in Pending(recv) /\ reply'.inv = k
<1>1. made \in Nat /\ recv \in [1..made -> Rows]
  BY DEF IndInv, TypeOK
<1>2. ASSUME NEW n \in 1..made, NEW st, n \in Pending(recv), reply'.inv = n,
             recv' = SetStatus(recv, {n}, st)
      PROVE  recv'[k] = recv[k] \/ (k \in Pending(recv) /\ reply'.inv = k)
  BY <1>2 DEF SetStatus
<1>3. CASE UNCHANGED tables
  BY <1>3 DEF tables
<1>4. ASSUME NEW u \in Users, NEW v \in Users, NEW second \in {now, now + 1},
             SendFriendRequest(u, v, second)
      PROVE  recv'[k] = recv[k]
  BY <1>1, <1>4 DEF SendFriendRequest, Insert
<1>5. ASSUME NEW u \in Users, NEW v \in Users, RemoveFriend(u, v)
      PROVE  recv'[k] = recv[k]
  BY <1>5 DEF RemoveFriend
<1>6. ASSUME NEW n \in 1..made,
             \/ AcceptFriendInvitation(n)
             \/ \E added \in 0..2 : AcceptTornApart(n, added)
      PROVE  recv'[k] = recv[k] \/ (k \in Pending(recv) /\ reply'.inv = k)
  <2>1. CommitAccept(n) /\ reply'.inv = n
    BY <1>6 DEF AcceptFriendInvitation, AcceptTornApart, Answer
  <2>2. n \in Pending(recv) /\ recv' = SetStatus(recv, {n}, "accepted")
    BY <2>1 DEF CommitAccept, AcceptPossible, Pending
  <2> QED
    BY <1>2, <2>1, <2>2
<1>7. ASSUME NEW n \in 1..made, RejectFriendInvitation(n)
      PROVE  recv'[k] = recv[k] \/ (k \in Pending(recv) /\ reply'.inv = k)
  <2>1. /\ n \in Pending(recv) /\ recv' = SetStatus(recv, {n}, "rejected")
        /\ reply'.inv = n
    BY <1>7 DEF RejectFriendInvitation, RejectPossible, Answer
  <2> QED
    BY <1>2, <2>1
<1>8. ASSUME NEW n \in 1..made,
             CancelFriendInvitation(n) \/ CancelReportedFailed(n)
      PROVE  recv'[k] = recv[k] \/ (k \in Pending(recv) /\ reply'.inv = k)
  <2>1. CommitCancel(n) /\ reply'.inv = n
    BY <1>8 DEF CancelFriendInvitation, CancelReportedFailed, Answer
  <2>2. CancelPossible(n)
    BY <2>1 DEF CommitCancel
  <2>3. CancelHits(n) = {n} /\ n \in Pending(recv)
    BY <2>2, CancelHitsOne DEF CancelPossible, IndInv, PendingAgree
  <2>4. recv' = SetStatus(recv, {n}, "cancelled")
    BY <2>1, <2>3 DEF CommitCancel
  <2> QED
    BY <1>2, <2>1, <2>3, <2>4
<1>9. \/ UNCHANGED tables
      \/ \E u, v \in Users :
           \/ \E second \in {now, now + 1} : SendFriendRequest(u, v, second)
           \/ RemoveFriend(u, v)
      \/ \E n \in 1..made : \/ AcceptFriendInvitation(n)
                            \/ \E added \in 0..2 : AcceptTornApart(n, added)
                            \/ RejectFriendInvitation(n)
                            \/ CancelFriendInvitation(n)
                            \/ CancelReportedFailed(n)
  BY DEF Next, AcceptStep, vars, tables, SendFriendRequestFails, AcceptRolledBack,
         RejectRolledBack, CancelRolledBack, RemoveRolledBack, Tick
<1> QED
  BY <1>3, <1>4, <1>5, <1>6, <1>7, <1>8, <1>9

\* A settled received row never changes again.
THEOREM RecvSettledHolds == Spec => RecvSettledForever
<1>1. IndInv /\ [Next]_vars
        => [\A n \in 1..made \ Pending(recv) : recv'[n].status = recv[n].status]_vars
  BY StepOnReceivedRows
<1> QED
  BY <1>1, IndInvHolds, PTL DEF Spec, RecvSettledForever

\* The handlers settle exactly the pending invitation their client named.
THEOREM SettlesOnlyNamedHolds == Spec => SettlesOnlyNamed
<1>1. ASSUME IndInv, IndInv', [Next]_vars, NEW n \in 1..made,
             \/ n \in Pending(sent) /\ n \notin Pending(sent)'
             \/ n \in Pending(recv) /\ n \notin Pending(recv)'
      PROVE  reply'.inv = n
  <2>1. made \in Nat /\ made' \in Nat /\ (made' = made \/ made' = made + 1)
    <3>1. made' = made \/ made' = made + 1
      BY <1>1 DEF Next, AcceptStep, vars, tables, SendFriendRequest,
        SendFriendRequestFails, RemoveFriend, AcceptFriendInvitation,
        AcceptRolledBack, AcceptTornApart, RejectFriendInvitation,
        RejectRolledBack, CommitCancel, CancelFriendInvitation,
        CancelReportedFailed, CancelRolledBack, RemoveRolledBack, Tick
    <3> QED
      BY <1>1, <3>1 DEF IndInv, TypeOK
  <2>2. n \in 1..made'
    BY <2>1
  <2>3. n \in Pending(recv) /\ n \notin Pending(recv)'
    BY <1>1, <2>2 DEF IndInv, PendingAgree
  <2>4. recv'[n] # recv[n]
    BY <2>2, <2>3 DEF Pending
  <2> QED
    BY <1>1, <2>4, StepOnReceivedRows
<1>2. IndInv /\ IndInv' /\ [Next]_vars =>
        [\A n \in 1..made :
           (n \in Pending(sent) /\ n \notin Pending(sent)') \/
           (n \in Pending(recv) /\ n \notin Pending(recv)') => reply'.inv = n]_vars
  BY <1>1
<1> QED
  BY <1>2, IndInvHolds, PTL DEF Spec, SettlesOnlyNamed
-----------------------------------------------------------------------------
\* Type correctness.
THEOREM TypeOKHolds == Spec => []TypeOK
<1>1. IndInv => TypeOK
  BY DEF IndInv
<1> QED
  BY <1>1, IndInvHolds, PTL

\* A step that settles the pending row n in both tables, and beside it only sent
\* copies of earlier rows of the same users and second, when it is accepted,
\* makes the copies disagree in no other way than they did.
LEMMA SettleKeepsDivergence ==
  ASSUME IndInv, DivergeOnlyInSameSecond, NEW n \in 1..made, NEW S, NEW st \in Statuses,
         sent' = SetStatus(sent, S, st), recv' = SetStatus(recv, {n}, st), made' = made,
         n \in S, n \in Pending(recv),
         \A m \in S \ {n} : /\ st = "accepted" /\ m < n
                           /\ SamePair(m, n) /\ sent[m].at = recv[n].at
  PROVE  DivergeOnlyInSameSecond'
<1>1. sent \in [1..made -> Rows] /\ recv \in [1..made -> Rows] /\ made \in Nat
  BY DEF IndInv, TypeOK
<1>2. ASSUME NEW k \in 1..made
      PROVE  /\ sent'[k].from = sent[k].from /\ sent'[k].to = sent[k].to
             /\ sent'[k].at = sent[k].at /\ recv'[k].at = recv[k].at
             /\ sent'[k].status = IF k \in S THEN st ELSE sent[k].status
             /\ recv'[k].status = IF k = n THEN st ELSE recv[k].status
  BY <1>1 DEF SetStatus, Rows
<1>3. SUFFICES ASSUME NEW k \in 1..made, sent'[k].status # recv'[k].status
               PROVE  /\ sent'[k].status = "accepted"
                      /\ \E m \in (k + 1)..made : /\ SamePair(k, m)'
                                                  /\ recv'[m].status = "accepted"
                                                  /\ recv'[m].at = sent'[k].at
  BY DEF DivergeOnlyInSameSecond
<1>4. k # n
  BY <1>2, <1>3
<1>5. CASE k \in S
  <2>1. st = "accepted" /\ k < n /\ SamePair(k, n) /\ sent[k].at = recv[n].at
    BY <1>4, <1>5
  <2>2. n \in (k + 1)..made
    BY <1>1, <2>1
  <2>3. SamePair(k, n)'
    BY <1>2, <2>1 DEF SamePair
  <2> QED
    BY <1>2, <1>5, <2>1, <2>2, <2>3
<1>6. CASE k \notin S
  <2>1. sent[k].status # recv[k].status
    BY <1>2, <1>3, <1>4, <1>6
  <2>2. sent[k].status = "accepted"
    BY <2>1 DEF DivergeOnlyInSameSecond
  <2>3. PICK m \in (k + 1)..made : /\ SamePair(k, m)
                                   /\ recv[m].status = "accepted"
                                   /\ recv[m].at = sent[k].at
    BY <2>1 DEF DivergeOnlyInSameSecond
  <2>4. m \in 1..made /\ m # n
    BY <1>1, <2>3 DEF Pending
  <2>5. SamePair(k, m)'
    BY <1>2, <2>3, <2>4 DEF SamePair
  <2> QED
    BY <1>2, <1>6, <2>2, <2>3, <2>4, <2>5
<1> QED
  BY <1>5, <1>6

LEMMA DivergenceStep ==
  ASSUME IndInv, DivergeOnlyInSameSecond, [Next]_vars
  PROVE  DivergeOnlyInSameSecond'
<1>1. CASE UNCHANGED tables
  BY <1>1 DEF tables, DivergeOnlyInSameSecond, SamePair
<1>2. ASSUME NEW u \in Users, NEW v \in Users, NEW second \in {now, now + 1},
             SendFriendRequest(u, v, second)
      PROVE  DivergeOnlyInSameSecond'
  <2>1. made \in Nat /\ made' = made + 1
    BY <1>2 DEF IndInv, TypeOK, SendFriendRequest
  <2>2. \A k \in 1..made : sent'[k] = sent[k] /\ recv'[k] = recv[k]
    BY <1>2, <2>1 DEF SendFriendRequest, Insert
  <2>3. sent'[made + 1].status = recv'[made + 1].status
    BY <1>2, <2>1 DEF SendFriendRequest, Insert
  <2>4. ASSUME NEW k \in 1..made, sent'[k].status # recv'[k].status
        PROVE  /\ sent'[k].status = "accepted"
               /\ \E m \in (k + 1)..made' : /\ SamePair(k, m)'
                                            /\ recv'[m].status = "accepted"
                                            /\ recv'[m].at = sent'[k].at
    <3>1. PICK m \in (k + 1)..made : /\ SamePair(k, m)
                                     /\ recv[m].status = "accepted"
                                     /\ recv[m].at = sent[k].at
      BY <2>2, <2>4 DEF DivergeOnlyInSameSecond
    <3>2. m \in 1..made /\ m \in (k + 1)..made'
      BY <2>1, <3>1
    <3>3. SamePair(k, m)'
      BY <2>2, <3>1, <3>2 DEF SamePair
    <3> QED
      BY <2>2, <2>4, <3>1, <3>2, <3>3 DEF DivergeOnlyInSameSecond
  <2>5. 1..made' = 1..made \cup {made + 1}
    BY <2>1
  <2> QED
    BY <2>3, <2>4, <2>5 DEF DivergeOnlyInSameSecond
<1>3. ASSUME NEW u \in Users, NEW v \in Users, RemoveFriend(u, v)
      PROVE  DivergeOnlyInSameSecond'
  BY <1>3 DEF RemoveFriend, DivergeOnlyInSameSecond, SamePair
<1>4. ASSUME NEW n \in 1..made,
             \/ AcceptFriendInvitation(n)
             \/ \E added \in 0..2 : AcceptTornApart(n, added)
      PROVE  DivergeOnlyInSameSecond'
  <2>1. CommitAccept(n) /\ made' = made
    BY <1>4 DEF AcceptFriendInvitation, AcceptTornApart
  <2>2. /\ sent' = SetStatus(sent, AcceptHits(n), "accepted")
        /\ recv' = SetStatus(recv, {n}, "accepted")
        /\ AcceptPossible(n) /\ n \in Pending(recv)
    BY <2>1 DEF CommitAccept, AcceptPossible, Pending
  <2>3. \A m \in AcceptHits(n) \ {n} :
          m < n /\ SamePair(m, n) /\ sent[m].at = recv[n].at
    BY <2>2, AcceptHitsSettled DEF AcceptHits, Matching, SamePair, IndInv, SamePeople
  <2>4. n \in AcceptHits(n) /\ "accepted" \in Statuses
    BY <2>2, AcceptHitsSettled DEF Statuses
  <2> QED
    BY <2>1, <2>2, <2>3, <2>4, SettleKeepsDivergence
<1>5. ASSUME NEW n \in 1..made, RejectFriendInvitation(n)
      PROVE  DivergeOnlyInSameSecond'
  <2>1. RejectHits(n) = {n} /\ n \in Pending(recv)
    BY <1>5, RejectHitsOne DEF RejectFriendInvitation, RejectPossible
  <2>2. /\ sent' = SetStatus(sent, {n}, "rejected")
        /\ recv' = SetStatus(recv, {n}, "rejected") /\ made' = made
    BY <1>5, <2>1 DEF RejectFriendInvitation
  <2> QED
    BY <2>1, <2>2, SettleKeepsDivergence DEF Statuses
<1>6. ASSUME NEW n \in 1..made,
             CancelFriendInvitation(n) \/ CancelReportedFailed(n)
      PROVE  DivergeOnlyInSameSecond'
  <2>1. CommitCancel(n)
    BY <1>6 DEF CancelFriendInvitation, CancelReportedFailed
  <2>2. CancelHits(n) = {n} /\ n \in Pending(recv)
    BY <2>1, CancelHitsOne DEF CommitCancel, CancelPossible, IndInv, PendingAgree
  <2>3. /\ sent' = SetStatus(sent, {n}, "cancelled")
        /\ recv' = SetStatus(recv, {n}, "cancelled") /\ made' = made
    BY <2>1, <2>2 DEF CommitCancel
  <2> QED
    BY <2>2, <2>3, SettleKeepsDivergence DEF Statuses
<1>7. \/ UNCHANGED tables
      \/ \E u, v \in Users :
           \/ \E second \in {now, now + 1} : SendFriendRequest(u, v, second)
           \/ RemoveFriend(u, v)
      \/ \E n \in 1..made : \/ AcceptFriendInvitation(n)
                            \/ \E added \in 0..2 : AcceptTornApart(n, added)
                            \/ RejectFriendInvitation(n)
                            \/ CancelFriendInvitation(n)
                            \/ CancelReportedFailed(n)
  BY DEF Next, AcceptStep, vars, tables, SendFriendRequestFails, AcceptRolledBack,
         RejectRolledBack, CancelRolledBack, RemoveRolledBack, Tick
<1> QED
  BY <1>1, <1>2, <1>3, <1>4, <1>5, <1>6, <1>7

\* The only way the copies of an invitation come to disagree is an accept of a
\* later invitation, of the same users and second.
THEOREM DivergeOnlyInSameSecondHolds == Spec => []DivergeOnlyInSameSecond
<1>1. Init => DivergeOnlyInSameSecond
  BY DEF Init, DivergeOnlyInSameSecond
<1>2. IndInv /\ DivergeOnlyInSameSecond /\ [Next]_vars => DivergeOnlyInSameSecond'
  BY DivergenceStep
<1> QED
  BY <1>1, <1>2, IndInvHolds, PTL DEF Spec
=============================================================================
