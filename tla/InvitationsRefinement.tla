----------------------- MODULE InvitationsRefinement -----------------------
(***************************************************************************)
(* Invitations implements FriendGraph as long as no database statement     *)
(* fails, whatever clock ticks fall between statements and whichever       *)
(* friends tables have a primary key; what an answer tells the client; and *)
(* how far duplicate friend rows and torn requests can go.                 *)
(***************************************************************************)
EXTENDS InvitationsProofs, WellFoundedInduction

\* One more row for z in y's friends table.
LEMMA AddFriendRow ==
  ASSUME NEW f \in [Users -> [Users -> Nat]], NEW y \in Users, NEW z \in Users
  PROVE  /\ AddFriend(f, y, z) \in [Users -> [Users -> Nat]]
         /\ \A w, x \in Users : AddFriend(f, y, z)[w][x] > 0
                                  <=> f[w][x] > 0 \/ (w = y /\ x = z)
<1>1. AddFriend(f, y, z) \in [Users -> [Users -> Nat]]
  BY DEF AddFriend
<1>2. ASSUME NEW w \in Users, NEW x \in Users
      PROVE  AddFriend(f, y, z)[w][x] > 0 <=> f[w][x] > 0 \/ (w = y /\ x = z)
  <2>1. f[w][x] \in Nat /\ f[y][z] \in Nat
    OBVIOUS
  <2>2. CASE w = y /\ x = z
    BY <2>1, <2>2 DEF AddFriend
  <2>3. CASE ~(w = y /\ x = z)
    BY <2>3 DEF AddFriend
  <2> QED
    BY <2>2, <2>3
<1> QED
  BY <1>1, <1>2

\* Which friend rows exist after the first `added` addFriend calls.
LEMMA FriendRowsAfter ==
  ASSUME TypeOK, SamePeople, NEW n \in 1..made, NEW added \in 0..2,
         NEW w \in Users, NEW x \in Users
  PROVE  FriendsAfter(n, added)[w][x] > 0
           <=> \/ friends[w][x] > 0
               \/ added >= 1 /\ w = recv[n].to /\ x = recv[n].from
               \/ added = 2 /\ w = recv[n].from /\ x = recv[n].to
<1>1. recv[n].to \in Users /\ recv[n].from \in Users
  BY DEF TypeOK, Rows
<1>2. PICK u \in Users : u = recv[n].to
  BY <1>1
<1>3. PICK v \in Users : v = recv[n].from
  BY <1>1
<1>4. friends \in [Users -> [Users -> Nat]]
  BY DEF TypeOK
<1>5. PICK one : one = AddFriend(friends, u, v)
  OBVIOUS
<1>6. /\ one \in [Users -> [Users -> Nat]]
      /\ one[w][x] > 0 <=> friends[w][x] > 0 \/ (w = u /\ x = v)
  <2>1. /\ AddFriend(friends, u, v) \in [Users -> [Users -> Nat]]
        /\ \A y, z \in Users : AddFriend(friends, u, v)[y][z] > 0
                                 <=> friends[y][z] > 0 \/ (y = u /\ z = v)
    BY <1>4, AddFriendRow
  <2> QED
    BY <1>5, <2>1
<1>7. AddFriend(one, v, u)[w][x] > 0 <=> one[w][x] > 0 \/ (w = v /\ x = u)
  BY <1>6, AddFriendRow
<1>8. FriendsAfter(n, added) = IF added = 0 THEN friends
                               ELSE IF added = 1 THEN one ELSE AddFriend(one, v, u)
  BY <1>2, <1>3, <1>5 DEF FriendsAfter
<1>9. CASE added = 0
  BY <1>8, <1>9
<1>10. CASE added = 1
  BY <1>2, <1>3, <1>6, <1>8, <1>10
<1>11. CASE added = 2
  BY <1>2, <1>3, <1>6, <1>7, <1>8, <1>11
<1> QED
  BY <1>9, <1>10, <1>11

\* While no statement fails, an accept that commits makes the two friends, in
\* both lists, even when a primary key stops it half way: then the row that
\* exists already stands for the one refused.
LEMMA AcceptJoins ==
  ASSUME IndInv, FriendshipSymmetric, ~DbFailures, NEW n \in 1..made,
         \/ AcceptFriendInvitation(n)
         \/ \E added \in 0..2 : AcceptTornApart(n, added),
         NEW w \in Users, NEW x \in Users
  PROVE  friends'[w][x] > 0
           <=> friends[w][x] > 0 \/ FG!Between(w, x, recv[n].to, recv[n].from)
<1> USE DEF IndInv
<1> DEFINE u == recv[n].to
           v == recv[n].from
<1>1. u \in Users /\ v \in Users
  BY DEF TypeOK, Rows
<1>2. CASE AcceptFriendInvitation(n)
  BY <1>1, <1>2, FriendRowsAfter DEF AcceptFriendInvitation, FG!Between
<1>3. ASSUME NEW added \in 0..2, AcceptTornApart(n, added)
      PROVE  friends'[w][x] > 0 <=> friends[w][x] > 0 \/ FG!Between(w, x, u, v)
  <2>1. added \in 0..1 /\ ~CanAdd(n, added + 1) /\ CanAdd(n, added)
    BY <1>3 DEF AcceptTornApart
  <2>2. friends' = FriendsAfter(n, added)
    BY <1>3 DEF AcceptTornApart
  <2>3. friends[u][v] > 0 /\ friends[v][u] > 0
    BY <1>1, <2>1 DEF CanAdd, KeyClash, FriendshipSymmetric
  <2>4. friends'[w][x] > 0 <=> \/ friends[w][x] > 0
                               \/ added >= 1 /\ w = u /\ x = v
    BY <2>1, <2>2, FriendRowsAfter
  <2> QED
    BY <2>3, <2>4 DEF FG!Between
<1> QED
  BY <1>2, <1>3

\* Removing a friend removes every row of the two in both lists.
LEMMA RemoveParts ==
  ASSUME TypeOK, NEW u \in Users, NEW v \in Users, RemoveFriend(u, v),
         NEW w \in Users, NEW x \in Users
  PROVE  friends'[w][x] > 0
           <=> friends[w][x] > 0 /\ ~FG!Between(w, x, u, v)
<1>1. friends \in [Users -> [Users -> Nat]]
  BY DEF TypeOK
<1>2. friends' = [friends EXCEPT ![u][v] = 0, ![v][u] = 0]
  BY DEF RemoveFriend
<1> DEFINE one == [friends EXCEPT ![u][v] = 0]
<1>3. /\ one \in [Users -> [Users -> Nat]]
      /\ one[w][x] = IF w = u /\ x = v THEN 0 ELSE friends[w][x]
  BY <1>1
<1>4. friends'[w][x] = IF w = v /\ x = u THEN 0 ELSE one[w][x]
  BY <1>2, <1>3
<1> QED
  BY <1>1, <1>3, <1>4 DEF FG!Between

\* The steps that touch a friends table, and the rest.
LEMMA StepOnFriends ==
  ASSUME [Next]_vars
  PROVE  \/ UNCHANGED friends
         \/ \E u, v \in Users : RemoveFriend(u, v)
         \/ \E n \in 1..made : \/ AcceptFriendInvitation(n)
                               \/ \E added \in 0..2 : AcceptTornApart(n, added)
BY DEF Next, AcceptStep, vars, tables, SendFriendRequest, SendFriendRequestFails,
       AcceptRolledBack, RejectFriendInvitation, RejectRolledBack, CommitCancel,
       CancelFriendInvitation, CancelReportedFailed, CancelRolledBack,
       RemoveRolledBack, Tick

LEMMA SymmetryStep ==
  ASSUME IndInv, FriendshipSymmetric, ~DbFailures, [Next]_vars
  PROVE  FriendshipSymmetric'
<1>1. CASE UNCHANGED friends
  BY <1>1 DEF FriendshipSymmetric
<1>2. ASSUME NEW u \in Users, NEW v \in Users, RemoveFriend(u, v)
      PROVE  FriendshipSymmetric'
  <2>1. \A w, x \in Users : friends'[w][x] > 0
                              <=> friends[w][x] > 0 /\ ~FG!Between(w, x, u, v)
    BY <1>2, RemoveParts DEF IndInv
  <2> QED
    BY <2>1 DEF FriendshipSymmetric, FG!Between
<1>3. ASSUME NEW n \in 1..made,
             \/ AcceptFriendInvitation(n)
             \/ \E added \in 0..2 : AcceptTornApart(n, added)
      PROVE  FriendshipSymmetric'
  <2>1. \A w, x \in Users :
          friends'[w][x] > 0
            <=> friends[w][x] > 0 \/ FG!Between(w, x, recv[n].to, recv[n].from)
    BY <1>3, AcceptJoins
  <2> QED
    BY <2>1 DEF FriendshipSymmetric, FG!Between
<1> QED
  BY <1>1, <1>2, <1>3, StepOnFriends

\* While no statement fails the friend lists are symmetric.
THEOREM FriendshipSymmetricHolds ==
  ASSUME ~DbFailures
  PROVE  Spec => []FriendshipSymmetric
<1>1. Init => FriendshipSymmetric
  BY InvitationsAssumption DEF Init, FriendshipSymmetric
<1>2. IndInv /\ FriendshipSymmetric /\ [Next]_vars => FriendshipSymmetric'
  BY SymmetryStep
<1> QED
  BY <1>1, <1>2, IndInvHolds, PTL DEF Spec

\* An accepted invitation stays accepted, and its users stay the same.
LEMMA AcceptedStays ==
  ASSUME IndInv, [Next]_vars, NEW n \in 1..made, recv[n].status = "accepted"
  PROVE  n \in 1..made' /\ recv'[n] = recv[n]
<1>1. recv'[n] = recv[n]
  BY StepOnReceivedRows DEF Pending
<1>2. made' = made \/ made' = made + 1
  BY DEF Next, AcceptStep, vars, tables, SendFriendRequest, SendFriendRequestFails,
         RemoveFriend, AcceptFriendInvitation, AcceptRolledBack, AcceptTornApart,
         RejectFriendInvitation, RejectRolledBack, CommitCancel,
         CancelFriendInvitation, CancelReportedFailed, CancelRolledBack,
         RemoveRolledBack, Tick
<1>3. made \in Nat
  BY DEF IndInv, TypeOK
<1> QED
  BY <1>1, <1>2, <1>3

\* Who put v into u's friend list, by the received rows.
LEMMA AcceptedStep ==
  ASSUME IndInv, IndInv', FriendsWereAccepted, [Next]_vars
  PROVE  FriendsWereAccepted'
<1>1. SUFFICES ASSUME NEW w \in Users, NEW x \in Users, friends'[w][x] > 0,
                      x \notin InitFriends[w]
               PROVE  \E n \in 1..made' : /\ {sent'[n].from, sent'[n].to} = {w, x}
                                          /\ recv'[n].status = "accepted"
  BY DEF FriendsWereAccepted
<1>2. CASE friends[w][x] > 0
  <2>1. PICK n \in 1..made : /\ {sent[n].from, sent[n].to} = {w, x}
                             /\ recv[n].status = "accepted"
    BY <1>1, <1>2 DEF FriendsWereAccepted
  <2>2. n \in 1..made' /\ recv'[n] = recv[n]
    BY <2>1, AcceptedStays
  <2>3. {sent'[n].from, sent'[n].to} = {w, x}
    BY <2>1, <2>2 DEF IndInv, SamePeople
  <2> QED
    BY <2>1, <2>2, <2>3
<1>3. CASE ~(friends[w][x] > 0)
  <2>1. ASSUME NEW u \in Users, NEW v \in Users, RemoveFriend(u, v)
        PROVE  FALSE
    BY <1>1, <1>3, <2>1, RemoveParts DEF IndInv
  <2>2. PICK n \in 1..made : \/ AcceptFriendInvitation(n)
                             \/ \E added \in 0..2 : AcceptTornApart(n, added)
    BY <1>1, <1>3, <2>1, StepOnFriends
  <2>3. /\ CommitAccept(n) /\ made' = made
        /\ \E added \in 0..2 : friends' = FriendsAfter(n, added)
    <3>1. CASE AcceptFriendInvitation(n)
      <4>1. friends' = FriendsAfter(n, 2) /\ 2 \in 0..2
        BY <3>1 DEF AcceptFriendInvitation
      <4> QED
        BY <3>1, <4>1 DEF AcceptFriendInvitation
    <3>2. CASE \E added \in 0..2 : AcceptTornApart(n, added)
      BY <3>2, Zenon DEF AcceptTornApart
    <3> QED
      BY <2>2, <3>1, <3>2
  <2>4. {recv[n].from, recv[n].to} = {w, x}
    BY <1>1, <1>3, <2>3, FriendRowsAfter DEF IndInv
  <2>5. /\ recv'[n].status = "accepted"
        /\ recv'[n].from = recv[n].from /\ recv'[n].to = recv[n].to
    BY <2>3 DEF CommitAccept, SetStatus, IndInv, TypeOK, Rows
  <2>6. {sent'[n].from, sent'[n].to} = {w, x}
    BY <2>3, <2>4, <2>5 DEF IndInv, SamePeople
  <2> QED
    BY <2>3, <2>5, <2>6
<1> QED
  BY <1>2, <1>3

\* Nobody gets into a friend list but by the initial data or an accepted
\* invitation, whatever fails.
THEOREM FriendsWereAcceptedHolds == Spec => []FriendsWereAccepted
<1>1. Init => FriendsWereAccepted
  BY InvitationsAssumption DEF Init, FriendsWereAccepted
<1>2. IndInv /\ IndInv' /\ FriendsWereAccepted /\ [Next]_vars => FriendsWereAccepted'
  BY AcceptedStep
<1> QED
  BY <1>1, <1>2, IndInvHolds, PTL DEF Spec
-----------------------------------------------------------------------------
(* The refinement.                                                         *)

\* A step that leaves made and recv alone and friend rows' existence too is a
\* stutter of the friend graph.
LEMMA StutterMaps ==
  ASSUME UNCHANGED <<made, recv>>,
         \A w, x \in Users : friends'[w][x] > 0 <=> friends[w][x] > 0
  PROVE  UNCHANGED FG!vars
BY DEF FG!vars

LEMMA SendMaps ==
  ASSUME IndInv, NEW u \in Users, NEW v \in Users, NEW second \in {now, now + 1},
         SendFriendRequest(u, v, second)
  PROVE  FG!Invite(u, v)
<1>1. /\ made \in Nat /\ made' = made + 1 /\ recv \in [1..made -> Rows]
      /\ friends \in [Users -> [Users -> Nat]] /\ friends' = friends
      /\ recv' = Insert(recv, u, v, second) /\ u # v /\ ~AddRefused(u, v)
  BY DEF SendFriendRequest, IndInv, TypeOK
<1>2. v \notin {x \in Users : friends[u][x] > 0}
  BY <1>1 DEF AddRefused
<1>3. ASSUME NEW n \in 1..made, recv[n].from = u, recv[n].to = v
      PROVE  recv[n].status # "pending"
  BY <1>1, <1>3 DEF AddRefused, Pending, IndInv, PendingAgree, SamePeople
<1>4. \A n \in 1..made : recv'[n] = recv[n]
  BY <1>1 DEF Insert
<1>5. recv'[made + 1] = [from |-> u, to |-> v, status |-> "pending", at |-> second]
  BY <1>1 DEF Insert
<1> DEFINE Offer(row) == [from |-> row.from, to |-> row.to, status |-> row.status]
<1>6. [m \in 1..made |-> Offer(recv[m])]'
      = [m \in 1..(made + 1) |->
           IF m = made + 1 THEN [from |-> u, to |-> v, status |-> "pending"]
                           ELSE [k \in 1..made |-> Offer(recv[k])][m]]
  <2>1. \A m \in 1..(made + 1) : m # made + 1 => m \in 1..made
    BY <1>1
  <2>2. \A m \in 1..made : Offer(recv'[m]) = Offer(recv[m])
    BY <1>4
  <2>3. Offer(recv'[made + 1]) = [from |-> u, to |-> v, status |-> "pending"]
    BY <1>5
  <2>4. ASSUME NEW m \in 1..(made + 1)
        PROVE  Offer(recv'[m])
               = IF m = made + 1 THEN [from |-> u, to |-> v, status |-> "pending"]
                                 ELSE [k \in 1..made |-> Offer(recv[k])][m]
    <3> HIDE DEF Offer
    <3> QED
      BY <2>1, <2>2, <2>3
  <2>5. (1..made)' = 1..(made + 1)
    BY <1>1
  <2> HIDE DEF Offer
  <2> QED
    BY <2>4, <2>5
<1>7. \A m \in 1..made :
        [k \in 1..made |-> Offer(recv[k])][m].from = u /\
        [k \in 1..made |-> Offer(recv[k])][m].to = v
        => [k \in 1..made |-> Offer(recv[k])][m].status # "pending"
  BY <1>3
<1>8. v \notin [w \in Users |-> {x \in Users : friends[w][x] > 0}][u]
  BY <1>2
<1>9. [w \in Users |-> {x \in Users : friends[w][x] > 0}]'
      = [w \in Users |-> {x \in Users : friends[w][x] > 0}]
  BY <1>1
<1> QED
  BY <1>1, <1>6, <1>7, <1>8, <1>9 DEF FG!Invite

\* A received row whose status changes is the abstract invitation settled.
LEMMA SettleMaps ==
  ASSUME TypeOK, NEW n \in 1..made, NEW st, recv' = SetStatus(recv, {n}, st),
         made' = made
  PROVE  [m \in 1..made |-> [from |-> recv[m].from, to |-> recv[m].to,
                             status |-> recv[m].status]]' = FG!Settled(n, st)
<1>1. recv \in [1..made -> Rows]
  BY DEF TypeOK
<1>2. \A m \in 1..made : /\ recv'[m].from = recv[m].from
                         /\ recv'[m].to = recv[m].to
                         /\ recv'[m].status = IF m = n THEN st ELSE recv[m].status
  BY <1>1 DEF SetStatus, Rows
<1> QED
  BY <1>2 DEF FG!Settled

LEMMA AcceptMaps ==
  ASSUME IndInv, FriendshipSymmetric, ~DbFailures, NEW n \in 1..made,
         \/ AcceptFriendInvitation(n)
         \/ \E added \in 0..2 : AcceptTornApart(n, added)
  PROVE  FG!Accept(n)
<1>1. /\ CommitAccept(n) /\ made' = made
      /\ recv[n].status = "pending" /\ recv' = SetStatus(recv, {n}, "accepted")
  BY DEF AcceptFriendInvitation, AcceptTornApart, CommitAccept, AcceptPossible
<1>2. \A w, x \in Users :
        friends'[w][x] > 0
          <=> friends[w][x] > 0 \/ FG!Between(w, x, recv[n].to, recv[n].from)
  BY AcceptJoins
<1> QED
  BY <1>1, <1>2, SettleMaps DEF FG!Accept, IndInv

LEMMA DeclineMaps ==
  ASSUME IndInv, NEW n \in 1..made,
         RejectFriendInvitation(n) \/ CommitCancel(n)
  PROVE  \E outcome \in {"rejected", "cancelled"} : FG!Decline(n, outcome)
<1>1. CASE RejectFriendInvitation(n)
  <2>1. /\ n \in Pending(recv) /\ recv' = SetStatus(recv, {n}, "rejected")
        /\ UNCHANGED <<made, friends>>
    BY <1>1 DEF RejectFriendInvitation, RejectPossible
  <2> QED
    BY <2>1, SettleMaps DEF FG!Decline, Pending, IndInv
<1>2. CASE CommitCancel(n)
  <2>1. CancelPossible(n)
    BY <1>2 DEF CommitCancel
  <2>2. CancelHits(n) = {n}
    BY <2>1, CancelHitsOne
  <2>3. /\ n \in Pending(recv) /\ recv' = SetStatus(recv, {n}, "cancelled")
        /\ UNCHANGED <<made, friends>>
    BY <1>2, <2>1, <2>2 DEF CommitCancel, CancelPossible, IndInv, PendingAgree
  <2> QED
    BY <2>3, SettleMaps DEF FG!Decline, Pending, IndInv
<1> QED
  BY <1>1, <1>2

LEMMA RemoveMaps ==
  ASSUME TypeOK, NEW u \in Users, NEW v \in Users, RemoveFriend(u, v)
  PROVE  FG!Unfriend(u, v)
<1>1. \A w, x \in Users : friends'[w][x] > 0
                            <=> friends[w][x] > 0 /\ ~FG!Between(w, x, u, v)
  BY RemoveParts
<1>2. UNCHANGED <<made, recv>>
  BY DEF RemoveFriend
<1> QED
  BY <1>1, <1>2 DEF FG!Unfriend

\* Every step of the tables is a step of the friend graph or a stutter.
LEMMA StepMaps ==
  ASSUME IndInv, FriendshipSymmetric, ~DbFailures, [Next]_vars
  PROVE  [FG!Next]_FG!vars
<1>1. CASE UNCHANGED tables
  BY <1>1, StutterMaps DEF tables
<1>2. ASSUME NEW u \in Users, NEW v \in Users, NEW second \in {now, now + 1},
             SendFriendRequest(u, v, second)
      PROVE  FG!Next
  BY <1>2, SendMaps DEF FG!Next
<1>3. ASSUME NEW u \in Users, NEW v \in Users, RemoveFriend(u, v)
      PROVE  FG!Next
  BY <1>3, RemoveMaps DEF FG!Next, IndInv
<1>4. ASSUME NEW n \in 1..made,
             \/ AcceptFriendInvitation(n)
             \/ \E added \in 0..2 : AcceptTornApart(n, added)
      PROVE  FG!Next
  BY <1>4, AcceptMaps DEF FG!Next
<1>5. ASSUME NEW n \in 1..made,
             \/ RejectFriendInvitation(n)
             \/ CancelFriendInvitation(n)
             \/ CancelReportedFailed(n)
      PROVE  FG!Next
  BY <1>5, DeclineMaps DEF FG!Next, CancelFriendInvitation, CancelReportedFailed
<1>6. \/ UNCHANGED tables
      \/ \E u, v \in Users :
           \/ \E second \in {now, now + 1} : SendFriendRequest(u, v, second)
           \/ RemoveFriend(u, v)
      \/ \E n \in 1..made : \/ AcceptFriendInvitation(n)
                            \/ \E added \in 0..2 : AcceptTornApart(n, added)
                            \/ RejectFriendInvitation(n)
                            \/ CancelFriendInvitation(n)
                            \/ CancelReportedFailed(n)
  BY DEF Next, AcceptStep, vars, tables, SendFriendRequestFails, AcceptRolledBack,
         RejectRolledBack, CancelRolledBack, RemoveRolledBack, Tick
<1> QED
  BY <1>1, <1>2, <1>3, <1>4, <1>5, <1>6

\* While no statement fails, the invitation tables and friend lists behave as
\* the friend graph they promise.
THEOREM Refinement ==
  ASSUME ~DbFailures
  PROVE  Spec => ImplementsFriendGraph
<1>1. Init => FG!Init
  <2> SUFFICES ASSUME Init PROVE FG!Init
    OBVIOUS
  <2>1. made = 0 /\ 1..made = 1..0
    BY DEF Init
  <2>2. [n \in 1..made |-> [from |-> recv[n].from, to |-> recv[n].to,
                            status |-> recv[n].status]] = [n \in 1..0 |-> n]
    BY <2>1
  <2>3. ASSUME NEW u \in Users
        PROVE  {v \in Users : friends[u][v] > 0} = InitFriends[u]
    <3>1. InitFriends[u] \subseteq Users
      BY InvitationsAssumption
    <3>2. friends[u] = [v \in Users |-> IF v \in InitFriends[u] THEN 1 ELSE 0]
      BY DEF Init
    <3>3. \A v \in Users : friends[u][v] = IF v \in InitFriends[u] THEN 1 ELSE 0
      BY <3>2
    <3>4. 1 > 0 /\ ~(0 > 0)
      OBVIOUS
    <3>5. \A v \in Users : friends[u][v] > 0 <=> v \in InitFriends[u]
      BY <3>3, <3>4, Zenon
    <3> QED
      BY <3>1, <3>5
  <2>4. [u \in Users |-> {v \in Users : friends[u][v] > 0}] = InitFriends
    <3>1. InitFriends = [u \in Users |-> InitFriends[u]]
      BY InvitationsAssumption
    <3> QED
      BY <2>3, <3>1
  <2> QED
    BY <2>1, <2>2, <2>4 DEF FG!Init
<1>2. IndInv /\ FriendshipSymmetric /\ [Next]_vars => [FG!Next]_FG!vars
  BY StepMaps
<1> QED
  BY <1>1, <1>2, IndInvHolds, FriendshipSymmetricHolds, PTL
     DEF Spec, ImplementsFriendGraph, FG!Spec
-----------------------------------------------------------------------------
(* How often a friend is listed.                                           *)

\* addFriend counts one row up by one and leaves the others alone.
LEMMA AddFriendCounts ==
  ASSUME NEW f \in [Users -> [Users -> Nat]], NEW y \in Users, NEW z \in Users,
         NEW w \in Users, NEW x \in Users
  PROVE  AddFriend(f, y, z)[w][x] = IF w = y /\ x = z THEN f[w][x] + 1 ELSE f[w][x]
<1>1. f[w][x] \in Nat /\ f[y][z] \in Nat
  OBVIOUS
<1>2. CASE w = y /\ x = z
  BY <1>1, <1>2 DEF AddFriend
<1>3. CASE ~(w = y /\ x = z)
  BY <1>3 DEF AddFriend
<1> QED
  BY <1>2, <1>3

\* An accept adds at most one row for each of the two, and none for others.
LEMMA AcceptCounts ==
  ASSUME TypeOK, SamePeople, NEW n \in 1..made, NEW added \in 0..2,
         NEW w \in Users, NEW x \in Users
  PROVE  /\ friends[w][x] <= FriendsAfter(n, added)[w][x]
         /\ FriendsAfter(n, added)[w][x] <= friends[w][x] + 1
         /\ ~FG!Between(w, x, recv[n].to, recv[n].from)
              => FriendsAfter(n, added)[w][x] = friends[w][x]
<1>1. PICK u \in Users, v \in Users : u = recv[n].to /\ v = recv[n].from /\ u # v
  BY DEF TypeOK, Rows, SamePeople
<1>2. friends \in [Users -> [Users -> Nat]] /\ friends[w][x] \in Nat
  BY DEF TypeOK
<1>3. PICK one : one = AddFriend(friends, u, v)
  OBVIOUS
<1>4. /\ one \in [Users -> [Users -> Nat]]
      /\ one[w][x] = IF w = u /\ x = v THEN friends[w][x] + 1 ELSE friends[w][x]
  <2>1. AddFriend(friends, u, v) \in [Users -> [Users -> Nat]]
    BY <1>2, AddFriendRow
  <2>2. AddFriend(friends, u, v)[w][x]
        = IF w = u /\ x = v THEN friends[w][x] + 1 ELSE friends[w][x]
    BY <1>2, AddFriendCounts
  <2> QED
    BY <1>3, <2>1, <2>2
<1>5. AddFriend(one, v, u)[w][x] = IF w = v /\ x = u THEN one[w][x] + 1 ELSE one[w][x]
  <2>1. one \in [Users -> [Users -> Nat]]
    BY <1>4
  <2> QED
    BY <2>1, AddFriendCounts
<1>6. FriendsAfter(n, added) = IF added = 0 THEN friends
                               ELSE IF added = 1 THEN one ELSE AddFriend(one, v, u)
  BY <1>1, <1>3 DEF FriendsAfter
<1>7. CASE added = 0
  BY <1>2, <1>6, <1>7
<1>8. CASE added = 1
  BY <1>1, <1>2, <1>4, <1>6, <1>8 DEF FG!Between
<1>9. CASE added = 2
  BY <1>1, <1>2, <1>4, <1>5, <1>6, <1>9 DEF FG!Between
<1> QED
  BY <1>7, <1>8, <1>9

\* Settling received rows makes nobody wait who did not wait before.
LEMMA SettleEndsWaiting ==
  ASSUME TypeOK, NEW S, NEW st, st # "pending", recv' = SetStatus(recv, S, st),
         made' = made, NEW w, NEW x, Waits(w, x)'
  PROVE  Waits(w, x)
<1>1. PICK k \in 1..made : /\ recv'[k].status = "pending"
                           /\ recv'[k].from = w /\ recv'[k].to = x
  BY DEF Waits, Pending
<1>2. recv[k] \in Rows
  BY DEF TypeOK
<1>3. k \notin S
  BY <1>1, <1>2 DEF SetStatus, Rows
<1>4. recv'[k] = recv[k]
  BY <1>3 DEF SetStatus
<1> QED
  BY <1>1, <1>4 DEF Waits, Pending

\* Nor does a step in which no row is added and nobody begins to wait.
LEMMA FewerRows ==
  ASSUME TypeOK, TypeOK', ListedAtMostTwice,
         \A w, x \in Users : friends'[w][x] <= friends[w][x],
         \A w, x \in Users : Waits(w, x)' => Waits(w, x)
  PROVE  ListedAtMostTwice'
<1> SUFFICES ASSUME NEW w \in Users, NEW x \in Users
             PROVE  /\ friends'[w][x] <= 2
                    /\ Waits(w, x)' \/ Waits(x, w)' => friends'[w][x] <= 1
                    /\ Waits(w, x)' /\ Waits(x, w)' => friends'[w][x] = 0
  BY DEF ListedAtMostTwice
<1>1. friends[w][x] \in Nat /\ friends'[w][x] \in Nat /\ friends'[w][x] <= friends[w][x]
  BY DEF TypeOK
<1>2. /\ friends[w][x] <= 2
      /\ Waits(w, x) \/ Waits(x, w) => friends[w][x] <= 1
      /\ Waits(w, x) /\ Waits(x, w) => friends[w][x] = 0
  BY DEF ListedAtMostTwice
<1>3. (Waits(w, x)' => Waits(w, x)) /\ (Waits(x, w)' => Waits(x, w))
  OBVIOUS
<1> HIDE DEF Waits
<1> QED
  BY <1>1, <1>2, <1>3

\* An invitation begins to wait only where nobody is listed.
LEMMA SendKeepsListed ==
  ASSUME IndInv, FriendshipSymmetric, ListedAtMostTwice, NEW u \in Users, NEW v \in Users,
         NEW second \in {now, now + 1}, SendFriendRequest(u, v, second)
  PROVE  ListedAtMostTwice'
<1> SUFFICES ASSUME NEW w \in Users, NEW x \in Users
             PROVE  /\ friends'[w][x] <= 2
                    /\ Waits(w, x)' \/ Waits(x, w)' => friends'[w][x] <= 1
                    /\ Waits(w, x)' /\ Waits(x, w)' => friends'[w][x] = 0
  BY DEF ListedAtMostTwice
<1>1. /\ friends' = friends /\ made' = made + 1 /\ made \in Nat
      /\ recv' = Insert(recv, u, v, second) /\ ~AddRefused(u, v)
  BY DEF SendFriendRequest, IndInv, TypeOK
<1>2. friends[w][x] \in Nat /\ friends[u][v] \in Nat /\ friends[v][u] \in Nat
  BY DEF IndInv, TypeOK
<1>3. friends[u][v] = 0 /\ friends[v][u] = 0
  BY <1>1, <1>2 DEF AddRefused, FriendshipSymmetric
<1>4. CASE FG!Between(w, x, u, v)
  BY <1>1, <1>3, <1>4 DEF FG!Between
<1>5. CASE ~FG!Between(w, x, u, v)
  <2>1. ASSUME NEW y \in {w, x}, NEW z \in {w, x}, ~(y = u /\ z = v), Waits(y, z)'
        PROVE  Waits(y, z)
    <3>1. PICK k \in 1..(made + 1) : /\ recv'[k].status = "pending"
                                     /\ recv'[k].from = y /\ recv'[k].to = z
      BY <1>1, <2>1 DEF Waits, Pending
    <3>2. k # made + 1
      BY <1>1, <2>1, <3>1 DEF Insert
    <3>3. k \in 1..made /\ recv'[k] = recv[k]
      BY <1>1, <3>1, <3>2 DEF Insert
    <3> QED
      BY <3>1, <3>3 DEF Waits, Pending
  <2>2. (Waits(w, x)' => Waits(w, x)) /\ (Waits(x, w)' => Waits(x, w))
    BY <1>5, <2>1 DEF FG!Between
  <2>3. /\ friends[w][x] <= 2
        /\ Waits(w, x) \/ Waits(x, w) => friends[w][x] <= 1
        /\ Waits(w, x) /\ Waits(x, w) => friends[w][x] = 0
    BY DEF ListedAtMostTwice
  <2> QED
    BY <1>1, <2>2, <2>3
<1> QED
  BY <1>4, <1>5

\* An accept turns the invitation that waited into at most one row on each side.
LEMMA AcceptKeepsListed ==
  ASSUME IndInv, ListedAtMostTwice, NEW n \in 1..made,
         \/ AcceptFriendInvitation(n)
         \/ \E added \in 0..2 : AcceptTornApart(n, added)
  PROVE  ListedAtMostTwice'
<1>1. /\ CommitAccept(n) /\ made' = made
      /\ \E added \in 0..2 : friends' = FriendsAfter(n, added)
  <2>1. CASE AcceptFriendInvitation(n)
    <3>1. friends' = FriendsAfter(n, 2) /\ 2 \in 0..2
      BY <2>1 DEF AcceptFriendInvitation
    <3> QED
      BY <2>1, <3>1 DEF AcceptFriendInvitation
  <2>2. CASE \E added \in 0..2 : AcceptTornApart(n, added)
    BY <2>2, Zenon DEF AcceptTornApart
  <2> QED
    BY <2>1, <2>2
<1>2. recv[n].status = "pending" /\ recv' = SetStatus(recv, {n}, "accepted")
  BY <1>1 DEF CommitAccept, AcceptPossible
<1>3. PICK u \in Users, v \in Users : u = recv[n].to /\ v = recv[n].from /\ u # v
  BY DEF IndInv, TypeOK, Rows, SamePeople
<1>4. Waits(v, u) /\ \A w, x \in Users : Waits(w, x)' => Waits(w, x)
  BY <1>1, <1>2, <1>3, SettleEndsWaiting DEF Waits, Pending, IndInv
<1>5. ~Waits(v, u)'
  <2> SUFFICES ASSUME NEW k \in 1..made, recv'[k].status = "pending",
                      recv'[k].from = v, recv'[k].to = u
               PROVE  FALSE
    BY <1>1 DEF Waits, Pending
  <2>1. recv[k] \in Rows /\ recv[n] \in Rows /\ made \in Nat
    BY DEF IndInv, TypeOK
  <2>2. k # n
    BY <1>2, <2>1 DEF SetStatus, Rows
  <2>3. recv[k].status = "pending" /\ recv[k].from = v /\ recv[k].to = u
    BY <1>2, <2>2 DEF SetStatus
  <2>4. SamePair(n, k) /\ SamePair(k, n)
    BY <1>3, <2>3 DEF SamePair, IndInv, SamePeople
  <2>5. sent[n].status = "pending" /\ sent[k].status = "pending"
    BY <1>2, <2>3 DEF IndInv, PendingAgree, Pending
  <2>6. n < k \/ k < n
    BY <2>1, <2>2
  <2> QED
    BY <2>4, <2>5, <2>6 DEF IndInv, LastIsPending
<1> SUFFICES ASSUME NEW w \in Users, NEW x \in Users
             PROVE  /\ friends'[w][x] <= 2
                    /\ Waits(w, x)' \/ Waits(x, w)' => friends'[w][x] <= 1
                    /\ Waits(w, x)' /\ Waits(x, w)' => friends'[w][x] = 0
  BY DEF ListedAtMostTwice
<1>6. /\ friends[w][x] <= 2
      /\ Waits(w, x) \/ Waits(x, w) => friends[w][x] <= 1
      /\ Waits(w, x) /\ Waits(x, w) => friends[w][x] = 0
  BY DEF ListedAtMostTwice
<1>7. /\ friends'[w][x] <= friends[w][x] + 1
      /\ ~FG!Between(w, x, u, v) => friends'[w][x] = friends[w][x]
  BY <1>1, <1>3, AcceptCounts DEF IndInv
<1>8. friends[w][x] \in Nat /\ friends'[w][x] \in Nat
  <2>1. friends \in [Users -> [Users -> Nat]]
    BY DEF IndInv, TypeOK
  <2>2. friends' \in [Users -> [Users -> Nat]]
    BY <1>1, FriendsAfterType DEF IndInv
  <2> QED
    BY <2>1, <2>2
<1>9. (Waits(w, x)' => Waits(w, x)) /\ (Waits(x, w)' => Waits(x, w))
  BY <1>4
<1>10. CASE FG!Between(w, x, u, v)
  <2>1. /\ Waits(w, x) \/ Waits(x, w)
        /\ ~(Waits(w, x)' /\ Waits(x, w)')
        /\ Waits(w, x)' \/ Waits(x, w)' => Waits(w, x) /\ Waits(x, w)
    BY <1>4, <1>5, <1>9, <1>10, Zenon DEF FG!Between
  <2> QED
    BY <1>6, <1>7, <1>8, <2>1
<1>11. CASE ~FG!Between(w, x, u, v)
  BY <1>6, <1>7, <1>8, <1>9, <1>11
<1> QED
  BY <1>10, <1>11

LEMMA ListedStep ==
  ASSUME IndInv, IndInv', FriendshipSymmetric, ListedAtMostTwice, [Next]_vars
  PROVE  ListedAtMostTwice'
<1>1. TypeOK /\ TypeOK' /\ friends \in [Users -> [Users -> Nat]]
  BY DEF IndInv, TypeOK
<1>2. ASSUME UNCHANGED <<made, recv>> PROVE \A w, x \in Users : Waits(w, x)' => Waits(w, x)
  BY <1>2 DEF Waits, Pending
<1>3. ASSUME UNCHANGED friends
      PROVE  \A w, x \in Users : friends'[w][x] <= friends[w][x]
  BY <1>1, <1>3
<1>4. CASE UNCHANGED tables
  BY <1>1, <1>2, <1>3, <1>4, FewerRows DEF tables
<1>5. ASSUME NEW u \in Users, NEW v \in Users, RemoveFriend(u, v)
      PROVE  ListedAtMostTwice'
  <2>1. ASSUME NEW w \in Users, NEW x \in Users
        PROVE  friends'[w][x] <= friends[w][x]
    BY <1>1, <1>5 DEF RemoveFriend
  <2> QED
    BY <1>1, <1>2, <1>5, <2>1, FewerRows DEF RemoveFriend
<1>6. ASSUME NEW n \in 1..made,
             \/ RejectFriendInvitation(n)
             \/ CancelFriendInvitation(n)
             \/ CancelReportedFailed(n)
      PROVE  ListedAtMostTwice'
  <2>1. /\ UNCHANGED <<made, friends>>
        /\ \/ recv' = SetStatus(recv, {n}, "rejected")
           \/ recv' = SetStatus(recv, CancelHits(n), "cancelled")
    BY <1>6 DEF RejectFriendInvitation, CancelFriendInvitation, CancelReportedFailed,
         CommitCancel
  <2>2. "rejected" # "pending" /\ "cancelled" # "pending"
    OBVIOUS
  <2>3. \A w, x \in Users : Waits(w, x)' => Waits(w, x)
    BY <1>1, <2>1, <2>2, SettleEndsWaiting
  <2> QED
    BY <1>1, <1>3, <2>1, <2>3, FewerRows
<1>7. \/ UNCHANGED tables
      \/ \E u, v \in Users :
           \/ \E second \in {now, now + 1} : SendFriendRequest(u, v, second)
           \/ RemoveFriend(u, v)
      \/ \E n \in 1..made : \/ AcceptFriendInvitation(n)
                            \/ \E added \in 0..2 : AcceptTornApart(n, added)
                            \/ RejectFriendInvitation(n)
                            \/ CancelFriendInvitation(n)
                            \/ CancelReportedFailed(n)
  BY DEF Next, AcceptStep, vars, tables, SendFriendRequestFails, AcceptRolledBack,
         RejectRolledBack, CancelRolledBack, RemoveRolledBack, Tick
<1> QED
  BY <1>4, <1>5, <1>6, <1>7, SendKeepsListed, AcceptKeepsListed

\* While no statement fails, a friend is listed at most twice, and there is room
\* for what the invitations that wait may add.
THEOREM ListedAtMostTwiceHolds ==
  ASSUME ~DbFailures
  PROVE  Spec => []ListedAtMostTwice
<1>1. Init => ListedAtMostTwice
  <2> SUFFICES ASSUME Init PROVE ListedAtMostTwice
    OBVIOUS
  <2>1. \A w, x \in Users : friends[w][x] = IF x \in InitFriends[w] THEN 1 ELSE 0
    BY DEF Init
  <2>2. \A w, x \in Users : friends[w][x] \in 0..1
    BY <2>1
  <2>3. \A w, x \in Users : ~Waits(w, x)
    BY DEF Init, Waits, Pending
  <2> QED
    BY <2>2, <2>3 DEF ListedAtMostTwice
<1>2. IndInv /\ IndInv' /\ FriendshipSymmetric /\ ListedAtMostTwice /\ [Next]_vars
        => ListedAtMostTwice'
  BY ListedStep
<1> QED
  BY <1>1, <1>2, IndInvHolds, FriendshipSymmetricHolds, PTL DEF Spec
-----------------------------------------------------------------------------
(* What an answer means.                                                   *)

\* A set of row numbers that is not empty has a last one.
LEMMA LastRow ==
  ASSUME NEW k \in Nat, NEW S \in SUBSET (1..k), S # {}
  PROVE  \E n \in S : \A m \in S : m <= n
<1> DEFINE T == {k - n : n \in S}
<1>1. T \subseteq Nat /\ T # {}
  <2>1. \A n \in S : n \in 1..k
    OBVIOUS
  <2>2. T \subseteq Nat
    BY <2>1
  <2>3. PICK n : n \in S
    OBVIOUS
  <2>4. k - n \in T
    BY <2>3
  <2> QED
    BY <2>2, <2>4
<1>2. \E x \in T : \A y \in T : ~ (<<y, x>> \in OpToRel(<, Nat))
  <2> HIDE DEF T
  <2> QED
    BY <1>1, NatLessThanWellFounded, WFMin
<1>3. PICK x \in T : \A y \in T : ~ (<<y, x>> \in OpToRel(<, Nat))
  BY <1>2
<1>4. PICK n \in S : x = k - n
  BY <1>3
<1>5. ASSUME NEW m \in S
      PROVE  m <= n
  <2>1. ~ (k - m < k - n)
    <3>1. k - m \in T /\ k - m \in Nat /\ k - n \in Nat
      BY <1>5
    <3> QED
      BY <1>3, <1>4, <3>1 DEF OpToRel
  <2> QED
    BY <2>1
<1> QED
  BY <1>5

\* A user with a pending invitation has a newest one: seconds grow along the
\* rows, so the last row of the user's is one.
LEMMA NewestExists ==
  ASSUME IndInv, NEW n \in Pending(sent)
  PROVE  NewestSent(sent[n].from) # {}
<1> DEFINE S == {m \in Pending(sent) : sent[m].from = sent[n].from}
<1>1. S \in SUBSET (1..made) /\ S # {} /\ made \in Nat
  BY DEF Pending, IndInv, TypeOK
<1>2. PICK last \in S : \A m \in S : m <= last
  <2> HIDE DEF S
  <2> QED
    BY <1>1, LastRow
<1>3. ASSUME NEW m \in S
      PROVE  sent[m].at <= sent[last].at
  <2>1. /\ m \in 1..made /\ last \in 1..made /\ m <= last
        /\ sent \in [1..made -> Rows] /\ recv \in [1..made -> Rows]
    BY <1>1, <1>2 DEF IndInv, TypeOK
  <2>2. sent[m].at \in Nat /\ sent[last].at \in Nat /\ recv[m].at \in Nat
    BY <2>1 DEF Rows
  <2>3. CASE m = last
    BY <2>2, <2>3
  <2>4. CASE m < last
    BY <2>1, <2>2, <2>4 DEF IndInv, Ordered
  <2> QED
    BY <2>1, <2>3, <2>4
<1> QED
  BY <1>2, <1>3 DEF NewestSent

\* Both copies of a pending invitation that was stored within a second are
\* found by whoever settles it.
LEMMA SettlePossible ==
  ASSUME IndInv, NEW n \in Pending(recv), sent[n].at = recv[n].at
  PROVE  AcceptPossible(n) /\ RejectPossible(n) /\ CancelPossible(n)
<1>1. /\ n \in 1..made /\ n \in Pending(sent)
      /\ sent[n].status = "pending" /\ recv[n].status = "pending"
  BY DEF Pending, IndInv, PendingAgree
<1>2. n \in Matching(sent, recv[n]) /\ n \in Matching(recv, sent[n])
  BY <1>1 DEF Matching, IndInv, SamePeople
<1>3. AcceptPossible(n)
  BY <1>1, <1>2 DEF AcceptPossible, AcceptHits
<1>4. RejectPossible(n)
  BY <1>1, <1>2 DEF RejectPossible, RejectHits
<1>5. CancelPossible(n)
  BY <1>1, <1>2, NewestExists DEF CancelPossible, CancelHits
<1> QED
  BY <1>3, <1>4, <1>5

\* While no statement fails, a pending invitation that was stored within a
\* second is settled when its user asks, whatever else is in the tables; only
\* the key of a friends table can stop an accept.
THEOREM SettleSucceedsHolds ==
  ASSUME ~DbFailures
  PROVE  Spec => SettleSucceeds
<1> DEFINE Asked(n) == /\ reply'.inv = n /\ reply' # reply
                       /\ reply'.op \in {"accept", "reject", "cancel"}
                       /\ sent[n].at = recv[n].at
           Done(n) == reply'.ok \/ (reply'.op = "accept" /\ ~CanAdd(n, 2))
<1>1. ASSUME IndInv, [Next]_vars, NEW n \in Pending(recv), Asked(n)
      PROVE  Done(n)
  <2>1. AcceptPossible(n) /\ RejectPossible(n) /\ CancelPossible(n)
    BY <1>1, SettlePossible
  <2>2. ASSUME NEW u \in Users, NEW v \in Users,
               \/ \E second \in {now, now + 1} : SendFriendRequest(u, v, second)
               \/ SendFriendRequestFails(u, v)
               \/ RemoveFriend(u, v)
        PROVE  FALSE
    BY <1>1, <2>2 DEF SendFriendRequest, SendFriendRequestFails, RemoveFriend, Answer
  <2>3. CASE RemoveRolledBack \/ Tick \/ UNCHANGED vars
    BY <1>1, <2>3 DEF RemoveRolledBack, Tick, vars, Answer
  <2>4. ASSUME NEW m \in 1..made, AcceptStep(m)
        PROVE  Done(n)
    <3>1. CASE AcceptFriendInvitation(m)
      BY <3>1 DEF AcceptFriendInvitation, Answer
    <3>2. CASE AcceptRolledBack(m)
      BY <1>1, <2>1, <3>2 DEF AcceptRolledBack, Answer
    <3>3. ASSUME NEW added \in 0..2, AcceptTornApart(m, added)
          PROVE  Done(n)
      <4>1. m = n /\ reply'.op = "accept"
        BY <1>1, <3>3 DEF AcceptTornApart, Answer
      <4>2. added < 2 /\ ~CanAdd(n, added + 1)
        BY <3>3, <4>1 DEF AcceptTornApart
      <4>3. ~CanAdd(n, 2)
        BY <4>2 DEF CanAdd
      <4> QED
        BY <4>1, <4>3
    <3> QED
      BY <2>4, <3>1, <3>2, <3>3 DEF AcceptStep
  <2>5. ASSUME NEW m \in 1..made, RejectFriendInvitation(m) \/ RejectRolledBack(m)
        PROVE  Done(n)
    BY <1>1, <2>1, <2>5 DEF RejectFriendInvitation, RejectRolledBack, Answer
  <2>6. ASSUME NEW m \in 1..made,
               \/ CancelFriendInvitation(m)
               \/ CancelReportedFailed(m)
               \/ CancelRolledBack(m)
        PROVE  Done(n)
    BY <1>1, <2>1, <2>6
       DEF CancelFriendInvitation, CancelReportedFailed, CancelRolledBack, Answer
  <2> QED
    BY <1>1, <2>2, <2>3, <2>4, <2>5, <2>6 DEF Next
<1>2. IndInv /\ [Next]_vars => [\A n \in Pending(recv) : Asked(n) => Done(n)]_vars
  BY <1>1
<1> QED
  BY <1>2, IndInvHolds, PTL DEF Spec, SettleSucceeds

-----------------------------------------------------------------------------
(* What an error leaves behind.                                            *)

LEMMA AcceptTears ==
  ASSUME IndInv, NEW n \in 1..made, NEW added \in 0..2, AcceptTornApart(n, added)
  PROVE  Torn(n)
<1>1. /\ AcceptPossible(n) /\ recv[n].status = "pending"
      /\ sent' = SetStatus(sent, AcceptHits(n), "accepted")
      /\ recv' = SetStatus(recv, {n}, "accepted")
      /\ friends' = FriendsAfter(n, added)
      /\ chats' \in {chats, chats \cup {{recv[n].to, recv[n].from}}}
  BY DEF AcceptTornApart, CommitAccept, AcceptPossible, CreateChatTable
<1>2. reply'.inv = n /\ reply'.op = "accept" /\ made' = made
  BY DEF AcceptTornApart, Answer
<1>3. n \in Pending(recv) /\ \A m \in 1..made \ {n} : recv'[m] = recv[m]
  BY <1>1 DEF Pending, SetStatus
<1>4. n \in AcceptHits(n) /\ \A m \in AcceptHits(n) \ {n} : m \notin Pending(sent)
  BY <1>1, AcceptHitsSettled
<1>5. recv'[n].status = "accepted" /\ sent'[n].status = "accepted"
  <2>1. sent[n] \in Rows /\ recv[n] \in Rows
    BY DEF IndInv, TypeOK
  <2>2. /\ recv'[n] = [recv[n] EXCEPT !.status = "accepted"]
        /\ sent'[n] = [sent[n] EXCEPT !.status = "accepted"]
    BY <1>1, <1>4 DEF SetStatus
  <2>3. \A row \in Rows : [row EXCEPT !.status = "accepted"].status = "accepted"
    BY DEF Rows
  <2> QED
    BY <2>1, <2>2, <2>3
<1>6. ASSUME NEW m \in 1..made \ {n}, sent'[m] # sent[m]
      PROVE  SamePair(m, n) /\ m \notin Pending(sent)
  <2>1. m \in AcceptHits(n)
    BY <1>1, <1>6 DEF SetStatus
  <2> QED
    BY <1>4, <2>1 DEF AcceptHits, Matching, SamePair, IndInv, SamePeople
<1>7. ASSUME NEW w \in Users, NEW x \in Users
      PROVE  /\ friends[w][x] <= friends'[w][x] /\ friends'[w][x] <= friends[w][x] + 1
             /\ {w, x} # {recv[n].to, recv[n].from} => friends'[w][x] = friends[w][x]
  <2>1. FG!Between(w, x, recv[n].to, recv[n].from) => {w, x} = {recv[n].to, recv[n].from}
    BY DEF FG!Between
  <2> QED
    BY <1>1, <2>1, AcceptCounts DEF IndInv
<1> QED
  BY <1>1, <1>2, <1>3, <1>5, <1>6, <1>7 DEF Torn

LEMMA CancelTears ==
  ASSUME IndInv, NEW n \in 1..made, CancelReportedFailed(n) PROVE Torn(n)
<1>1. CancelPossible(n) /\ reply'.inv = n /\ reply'.op = "cancel" /\ made' = made
  BY DEF CancelReportedFailed, CommitCancel, Answer
<1>2. CancelHits(n) = {n}
  BY <1>1, CancelHitsOne
<1>3. /\ n \in Pending(recv) /\ recv' = SetStatus(recv, {n}, "cancelled")
      /\ sent' = SetStatus(sent, {n}, "cancelled")
      /\ UNCHANGED <<friends, chats>>
  BY <1>1, <1>2 DEF CancelReportedFailed, CommitCancel, CancelPossible, IndInv, PendingAgree
<1>4. /\ recv'[n].status = "cancelled" /\ sent'[n].status = "cancelled"
      /\ \A m \in 1..made \ {n} : recv'[m] = recv[m] /\ sent'[m] = sent[m]
  BY <1>3 DEF SetStatus, Pending, IndInv, TypeOK, Rows
<1> QED
  BY <1>1, <1>3, <1>4 DEF Torn

\* Whatever fails, an error in the answer means that nothing changed, or that
\* the invitation the client named was settled after all, with at most one
\* friend row added on each side: no error touches the rows of anybody else.
THEOREM ErrorTearsOnlyNamedHolds == Spec => ErrorTearsOnlyNamed
<1>1. ASSUME IndInv, Next, ~reply'.ok
      PROVE  UNCHANGED tables \/ \E n \in 1..made : Torn(n)
  <2>1. \/ UNCHANGED tables
        \/ \E u, v \in Users :
             \/ \E second \in {now, now + 1} : SendFriendRequest(u, v, second)
             \/ RemoveFriend(u, v)
        \/ \E n \in 1..made : \/ AcceptFriendInvitation(n)
                              \/ \E added \in 0..2 : AcceptTornApart(n, added)
                              \/ RejectFriendInvitation(n)
                              \/ CancelFriendInvitation(n)
                              \/ CancelReportedFailed(n)
    BY <1>1 DEF Next, AcceptStep, SendFriendRequestFails, AcceptRolledBack,
       RejectRolledBack, CancelRolledBack, RemoveRolledBack, Tick
  <2>2. ASSUME NEW op, NEW inv, NEW told, Answer(op, inv, TRUE, told)
        PROVE  FALSE
    BY <1>1, <2>2 DEF Answer
  <2>3. \A u, v \in Users : /\ ~RemoveFriend(u, v)
                           /\ \A second \in {now, now + 1} : ~SendFriendRequest(u, v, second)
    BY <2>2 DEF SendFriendRequest, RemoveFriend
  <2>4. \A n \in 1..made : ~AcceptFriendInvitation(n) /\ ~RejectFriendInvitation(n)
    BY <2>2 DEF AcceptFriendInvitation, RejectFriendInvitation
  <2>5. \A n \in 1..made : ~CancelFriendInvitation(n)
    BY <2>2 DEF CancelFriendInvitation
  <2>6. \A n \in 1..made : CancelReportedFailed(n) => Torn(n)
    BY <1>1, CancelTears
  <2>7. \A n \in 1..made, added \in 0..2 : AcceptTornApart(n, added) => Torn(n)
    BY <1>1, AcceptTears
  <2> QED
    BY <2>1, <2>3, <2>4, <2>5, <2>6, <2>7
<1>2. IndInv /\ [Next]_vars
        => [~reply'.ok => UNCHANGED tables \/ \E n \in 1..made : Torn(n)]_vars
  BY <1>1
<1> QED
  BY <1>2, IndInvHolds, PTL DEF Spec, ErrorTearsOnlyNamed
=============================================================================
