---------------------------- MODULE FriendGraph ----------------------------
(***************************************************************************)
(* What the invitation subsystem of JupiterServer promises its users,      *)
(* with no tables, timestamps or transactions: invitations that are        *)
(* settled at most once, and a symmetric friendship relation that grows    *)
(* only when an invitation is accepted.  Invitations.tla is shown to       *)
(* implement this module while no database statement fails.                *)
(***************************************************************************)
EXTENDS Integers

CONSTANTS Users,        \* the accounts of the `users` table
          InitFriends   \* [Users -> SUBSET Users], friendships of the initial data

VARIABLES made,     \* how many invitations were made so far
          offer,    \* the invitations, in order: 1..made -> record
          friendOf  \* friendOf[u] is the set of u's friends

vars == <<made, offer, friendOf>>

Outcomes == {"accepted", "rejected", "cancelled"}
Offers == [from : Users, to : Users, status : {"pending"} \cup Outcomes]

Init == /\ made = 0
        /\ offer = [n \in 1..0 |-> n]
        /\ friendOf = InitFriends

\* u invites v: refused while they are friends or u still waits for v.
Invite(u, v) ==
  /\ u # v
  /\ v \notin friendOf[u]
  /\ \A n \in 1..made :
       offer[n].from = u /\ offer[n].to = v => offer[n].status # "pending"
  /\ made' = made + 1
  /\ offer' = [n \in 1..(made + 1) |->
                 IF n = made + 1
                 THEN [from |-> u, to |-> v, status |-> "pending"]
                 ELSE offer[n]]
  /\ UNCHANGED friendOf

\* The pair <<w, x>> is the pair <<u, v>> in one of its two orders.
Between(w, x, u, v) == (w = u /\ x = v) \/ (w = v /\ x = u)

Settled(n, outcome) ==
  [m \in 1..made |->
     IF m = n THEN [offer[m] EXCEPT !.status = outcome] ELSE offer[m]]

\* The receiver accepts: the invitation and both friend lists change together.
Accept(n) ==
  LET u == offer[n].to
      v == offer[n].from
  IN  /\ offer[n].status = "pending"
      /\ offer' = Settled(n, "accepted")
      /\ UNCHANGED made
      /\ friendOf' = [w \in Users |->
                        friendOf[w] \cup {x \in Users : Between(w, x, u, v)}]

\* The receiver rejects or the sender cancels.
Decline(n, outcome) ==
  /\ offer[n].status = "pending"
  /\ offer' = Settled(n, outcome)
  /\ UNCHANGED <<made, friendOf>>

Unfriend(u, v) ==
  /\ friendOf' = [w \in Users |->
                    friendOf[w] \ {x \in Users : Between(w, x, u, v)}]
  /\ UNCHANGED <<made, offer>>

Next == \/ \E u, v \in Users : Invite(u, v) \/ Unfriend(u, v)
        \/ \E n \in 1..made :
             \/ Accept(n)
             \/ \E outcome \in {"rejected", "cancelled"} : Decline(n, outcome)

Spec == Init /\ [][Next]_vars
=============================================================================
