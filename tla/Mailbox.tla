------------------------------ MODULE Mailbox ------------------------------
(***************************************************************************)
(* What the chat of two users promises, with no tables, time stamps, pages *)
(* or batches: messages have an order, a user who is online knows a last   *)
(* stretch of them, and is told that this is all of them, or that none is  *)
(* unread, only if that is so.  Chat.tla is shown to implement this module *)
(* as long as the database's clock is not set back.                        *)
(***************************************************************************)
EXTENDS Integers

CONSTANTS Pair,       \* the two users
          Positions   \* the places in the order, numbers

VARIABLES messages,   \* place -> message
          online,     \* the users who are there
          known,      \* the places of the messages a user knows
          complete,   \* was the user told that there are no others?
          assured     \* was the user, who has come, told of no unread message?

vars == <<messages, online, known, complete, assured>>

Places == DOMAIN messages

\* u has not read these, and they are not its own.
Unread(u) == {i \in Places : messages[i].sender # u /\ ~messages[i].read}

\* Nothing in S is followed by a message that is not.
Gapless(S) == \A i \in S, j \in Places : i < j => j \in S

Init ==
  /\ messages = [i \in {} |-> {}]
  /\ online = {}
  /\ known = [u \in Pair |-> {}]
  /\ complete = [u \in Pair |-> FALSE]
  /\ assured = [u \in Pair |-> FALSE]

\* u comes and knows nothing yet.
Come(u, nothingUnread) ==
  /\ u \notin online
  /\ nothingUnread => Unread(u) = {}
  /\ online' = online \cup {u}
  /\ assured' = [assured EXCEPT ![u] = nothingUnread]
  /\ known' = [known EXCEPT ![u] = {}]
  /\ complete' = [complete EXCEPT ![u] = FALSE]
  /\ UNCHANGED messages

Leave(u) ==
  /\ u \in online
  /\ online' = online \ {u}
  /\ assured' = [assured EXCEPT ![u] = FALSE]
  /\ known' = [known EXCEPT ![u] = {}]
  /\ complete' = [complete EXCEPT ![u] = FALSE]
  /\ UNCHANGED messages

\* A message of u comes after all others, and whoever is online knows it.
Send(u, i) ==
  /\ u \in online
  /\ \A j \in Places : j < i
  /\ messages' = [j \in Places \cup {i} |->
                    IF j \in Places THEN messages[j] ELSE [sender |-> u, read |-> FALSE]]
  /\ known' = [v \in Pair |-> IF v \in online THEN known[v] \cup {i} ELSE known[v]]
  /\ UNCHANGED <<online, complete, assured>>

\* u gets to know messages before those it knows, without a gap.
Learn(u, page, all) ==
  /\ u \in online
  /\ Gapless(known[u] \cup page)
  /\ all => known[u] \cup page = Places
  /\ known' = [known EXCEPT ![u] = @ \cup page]
  /\ complete' = [complete EXCEPT ![u] = all]
  /\ UNCHANGED <<messages, online, assured>>

\* u reads what the other sent, and nothing else counts as read by that.
Read(u) ==
  /\ u \in online
  /\ messages' = [i \in Places |->
                    IF i \in Unread(u) THEN [messages[i] EXCEPT !.read = TRUE]
                    ELSE messages[i]]
  /\ UNCHANGED <<online, known, complete, assured>>

Next ==
  \E u \in Pair :
    \/ \E nothingUnread \in BOOLEAN : Come(u, nothingUnread)
    \/ Leave(u)
    \/ \E i \in Positions : Send(u, i)
    \/ \E page \in SUBSET Places, all \in BOOLEAN : Learn(u, page, all)
    \/ Read(u)

Spec == Init /\ [][Next]_vars
=============================================================================
