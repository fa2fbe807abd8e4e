-------------------------------- MODULE Chat --------------------------------
(***************************************************************************)
(* The chat of one pair of users: the table chat_X_Y, the handlers that    *)
(* store, fetch and mark its messages, and what a client has been given in *)
(* its present session.  The tables of different pairs share nothing.      *)
(*                                                                         *)
(* A message is its id.  AUTO_INCREMENT hands an id out once: that of an   *)
(* INSERT that is rolled back leaves a gap.  sent_at is the database's     *)
(* clock in whole seconds; that clock may be set, so that it is any number *)
(* at any INSERT.  A user here has one session, registered from its login  *)
(* on (Sessions has the other cases), and its client pages from what it    *)
(* has.                                                                    *)
(* Handlers are atomic, as there is one event loop.                        *)
(***************************************************************************)
EXTENDS Integers, FiniteSets

CONSTANTS
  Pair,                \* the two users
  MESSAGE_BATCH_SIZE,
  Limits,              \* the limits clients give with get_latest_messages
  Fetching,            \* bound: the users whose clients fetch messages
  MaxIds,              \* bound: INSERTs
  MaxNow               \* bound: times of the clock

ASSUME ChatAssumption ==
  /\ IsFiniteSet(Pair)
  /\ MESSAGE_BATCH_SIZE \in Nat \ {0}
  /\ Limits \subseteq Nat
  /\ Fetching \subseteq Pair
  /\ MaxIds \in Nat /\ MaxNow \in Nat

VARIABLES
  exists,    \* is there a table for the pair?
  rows,      \* id -> row
  lastId,    \* the last id that was handed out
  online,    \* the users with a session
  got,       \* the messages a session's client sent or was given
  answer,    \* the last answer to a fetch of the session whose queries succeeded
  told,      \* did the session's UNREAD_FROM name the other user?
  asked,     \* history: did that answer take this chat into account?
  readUpTo   \* history: lastId at the user's last successful MESSAGE_READ

table == <<exists, rows, lastId>>
clients == <<online, got, answer, told, asked>>
chatVars == <<table, clients, readUpTo>>

Row == [sender : Pair, sent_at : 0..MaxNow, read : BOOLEAN]
Kinds == {"none", "latest", "history"}
Answers == [kind : Kinds, limit : Limits \cup {0, MESSAGE_BATCH_SIZE}, more : BOOLEAN]
NoAnswer == [kind |-> "none", limit |-> 0, more |-> TRUE]

Ids == DOMAIN rows

ChatTypeOK ==
  /\ exists \in BOOLEAN
  /\ lastId \in 0..MaxIds
  /\ Ids \subseteq 1..lastId /\ rows \in [Ids -> Row]
  /\ Ids # {} => exists
  /\ online \subseteq Pair
  /\ got \in [Pair -> SUBSET Ids]
  /\ answer \in [Pair -> Answers]
  /\ told \in [Pair -> BOOLEAN] /\ asked \in [Pair -> BOOLEAN]
  /\ readUpTo \in [Pair -> 0..lastId]

ChatInit ==
  /\ exists = FALSE
  /\ rows = [i \in {} |-> {}]
  /\ lastId = 0
  /\ online = {}
  /\ got = [u \in Pair |-> {}]
  /\ answer = [u \in Pair |-> NoAnswer]
  /\ told = [u \in Pair |-> FALSE] /\ asked = [u \in Pair |-> FALSE]
  /\ readUpTo = [u \in Pair |-> 0]
-----------------------------------------------------------------------------
(* The queries.                                                            *)

\* Does j come before i in a history, which is ordered by sent_at DESC, id DESC?
Before(j, i) == \/ rows[j].sent_at > rows[i].sent_at
                \/ (rows[j].sent_at = rows[i].sent_at /\ j > i)

\* Mutation: the messages of one second are in the order of their ids.
HistoryTiesAscending(offset) ==
  {i \in Ids :
     Cardinality({j \in Ids : \/ rows[j].sent_at > rows[i].sent_at
                              \/ rows[j].sent_at = rows[i].sent_at /\ j < i})
       \in offset..(offset + MESSAGE_BATCH_SIZE - 1)}

\* GET_CHAT_HISTORY: MESSAGE_BATCH_SIZE messages from offset on.
ChatHistory(offset) ==
  {i \in Ids : Cardinality({j \in Ids : Before(j, i)})
                 \in offset..(offset + MESSAGE_BATCH_SIZE - 1)}

\* Mutation: the ids of the last messages, as if none were missing.
LatestIds(limit) == {i \in 1..lastId : i > lastId - limit}

\* GET_LATEST_MESSAGES: those within limit of the greatest id.
LatestMessages(limit) ==
  {i \in Ids : \A max \in Ids : (\A j \in Ids : j <= max) => i > max - limit}

\* Mutation: the page itself is counted one message too large.
HasMoreThanOne(offset) == Cardinality(Ids) > offset + MESSAGE_BATCH_SIZE + 1

\* hasMoreHistory, with the batch size whatever the limit was.
HasMoreHistory(offset) == Cardinality(Ids) > offset + MESSAGE_BATCH_SIZE

\* GET_UNREAD_COUNT's condition.
Unread(u) == {i \in Ids : rows[i].sender # u /\ ~rows[i].read}
-----------------------------------------------------------------------------
\* Mutation: a message is pushed to a receiver only who has fetched the chat.
GivenToOpenChats(u, i) ==
  [v \in Pair |-> IF v = u \/ (v \in online /\ answer[v].kind # "none")
                  THEN got[v] \cup {i} ELSE got[v]]

\* Message i of u is acknowledged and pushed to the receiver's session.
Given(u, i) == [v \in Pair |-> IF v \in online THEN got[v] \cup {i} ELSE got[v]]

\* SEND_MESSAGE: the table is created if need be, the message stored.
HandleSendMessage(u, time) ==
  /\ u \in online /\ lastId < MaxIds
  /\ exists' = TRUE
  /\ lastId' = lastId + 1
  /\ rows' = [i \in Ids \cup {lastId'} |->
                IF i \in Ids THEN rows[i]
                ELSE [sender |-> u, sent_at |-> time, read |-> FALSE]]
  /\ got' = Given(u, lastId')
  /\ UNCHANGED <<online, answer, told, asked, readUpTo>>

\* It fails and the sender is told so: the table may have been created, which
\* no rollback undoes, and the INSERT may have used up an id.
SendMessageFails(u) ==
  /\ u \in online
  /\ \/ exists' \in {exists, TRUE} /\ UNCHANGED lastId
     \/ exists' = TRUE /\ lastId < MaxIds /\ lastId' = lastId + 1
  /\ UNCHANGED <<rows, clients, readUpTo>>

\* The page is sent, with has_more.
Respond(u, kind, limit, page, more) ==
  /\ got' = [got EXCEPT ![u] = @ \cup page]
  /\ answer' = [answer EXCEPT ![u] = [kind |-> kind, limit |-> limit, more |-> more]]
  /\ UNCHANGED <<table, online, told, asked, readUpTo>>

\* GET_LATEST_MESSAGES.  The query for has_more does not depend on the limit.
HandleGetLatestMessages(u, limit) ==
  /\ u \in online
  /\ Respond(u, "latest", limit, LatestMessages(limit), HasMoreHistory(0))

\* GET_CHAT_HISTORY, GET_MORE_HISTORY: a client asks for what follows on
\* messages it has.
HandleGetHistory(u, offset) ==
  /\ u \in online
  /\ Respond(u, "history", MESSAGE_BATCH_SIZE, ChatHistory(offset), HasMoreHistory(offset))

\* One of the two queries of a fetch fails, or both: the client is given an
\* empty page or told that there is no more, and not that there was an error.
FetchFails(u, page) ==
  /\ u \in online
  /\ got' = [got EXCEPT ![u] = @ \cup page]
  /\ answer' = [answer EXCEPT ![u] = NoAnswer]
  /\ UNCHANGED <<table, online, told, asked, readUpTo>>

\* Mutation: the UPDATE has no condition on the sender.
MarkAllRead(u) ==
  [i \in Ids |-> [rows[i] EXCEPT !.read = TRUE]]

\* MARK_CHAT_READ.
MarkChatRead(u) ==
  [i \in Ids |-> IF i \in Unread(u) THEN [rows[i] EXCEPT !.read = TRUE] ELSE rows[i]]

\* MESSAGE_READ.  An error changes nothing.
HandleMessageRead(u) ==
  /\ u \in online
  /\ rows' = MarkChatRead(u)
  /\ readUpTo' = [readUpTo EXCEPT ![u] = lastId]
  /\ UNCHANGED <<exists, lastId, clients>>

\* Mutation: the query counts the messages that the user has sent.
LoginCountsSent(u, counted) ==
  /\ u \notin online
  /\ online' = online \cup {u}
  /\ told' = [told EXCEPT ![u] =
                counted /\ \E i \in Ids : rows[i].sender = u /\ ~rows[i].read]
  /\ asked' = [asked EXCEPT ![u] = counted]
  /\ got' = [got EXCEPT ![u] = {}]
  /\ answer' = [answer EXCEPT ![u] = NoAnswer]
  /\ UNCHANGED <<table, readUpTo>>

\* LOGIN: UNREAD_FROM names the other user if that one is a friend now and
\* there are unread messages.  A query that fails counts as no friend (counted =
\* FALSE); who is a friend is the business of Invitations.
HandleLogin(u, counted) ==
  /\ u \notin online
  /\ online' = online \cup {u}
  /\ told' = [told EXCEPT ![u] = counted /\ Unread(u) # {}]
  /\ asked' = [asked EXCEPT ![u] = counted]
  /\ got' = [got EXCEPT ![u] = {}]
  /\ answer' = [answer EXCEPT ![u] = NoAnswer]
  /\ UNCHANGED <<table, readUpTo>>

\* The session ends, and with it all its client was given.
SessionEnds(u) ==
  /\ u \in online
  /\ online' = online \ {u}
  /\ got' = [got EXCEPT ![u] = {}]
  /\ answer' = [answer EXCEPT ![u] = NoAnswer]
  /\ told' = [told EXCEPT ![u] = FALSE]
  /\ asked' = [asked EXCEPT ![u] = FALSE]
  /\ UNCHANGED <<table, readUpTo>>

Fetch(u) ==
  /\ u \in Fetching
  /\ \/ \E limit \in Limits : \/ HandleGetLatestMessages(u, limit)
                              \/ FetchFails(u, LatestMessages(limit))
     \/ \E offset \in 0..Cardinality(got[u]) : \/ HandleGetHistory(u, offset)
                                                \/ FetchFails(u, ChatHistory(offset))
     \/ FetchFails(u, {})

ChatNext == \E u \in Pair : \/ \E time \in 0..MaxNow : HandleSendMessage(u, time)
                           \/ SendMessageFails(u)
                           \/ Fetch(u)
                           \/ HandleMessageRead(u)
                           \/ \E counted \in BOOLEAN : HandleLogin(u, counted)
                           \/ SessionEnds(u)

ChatSpec == ChatInit /\ [][ChatNext]_chatVars
-----------------------------------------------------------------------------
(* Properties.                                                             *)

\* While the clock was not set back between two messages.
Monotone == \A i, j \in Ids : i < j => rows[i].sent_at <= rows[j].sent_at

\* No id is missing below the greatest.
NoGaps == \A i \in Ids : 1..i \subseteq Ids

\* A client that pages from what it has, by GET_LATEST_MESSAGES, by offsets or
\* both, while messages come in between its requests and some requests fail,
\* never has a message without having all later ones: pages may overlap when
\* messages arrive, but none is skipped between them.
NothingSkipped ==
  Monotone => \A u \in online : \A i \in got[u], j \in Ids : i < j => j \in got[u]

\* has_more never ends the paging early: when a page of the history is the last
\* answer and has_more is false, the client has every message.  The same holds
\* after GET_LATEST_MESSAGES if no smaller limit than the batch was asked for and
\* no id is missing.
MoreIsOffered ==
  Monotone =>
    \A u \in online :
      LET last == answer[u]
      IN  (/\ ~last.more
           /\ \/ last.kind = "history"
              \/ last.kind = "latest" /\ last.limit >= MESSAGE_BATCH_SIZE /\ NoGaps)
          => got[u] = Ids

\* A message is marked read exactly if its receiver said so after it was sent:
\* neither the sender's own MESSAGE_READ nor a later message changes that.
ReadByReceiver ==
  \A i \in Ids : rows[i].read <=> \E u \in Pair \ {rows[i].sender} : i <= readUpTo[u]

\* A user who is online knows of every message it has not read: the message was
\* pushed or fetched, or UNREAD_FROM named its sender, provided the two were
\* friends at the login.
UnreadAnnounced ==
  \A u \in online : (asked[u] /\ ~told[u]) => Unread(u) \subseteq got[u]

\* The chat implements the promised mailbox, step by step and in spite of failing
\* queries, pages by offset and by id, and gaps in the ids, as long as the clock
\* was not set back.  What a client was given is what its user knows; a last page
\* without has_more says that this is all; a login that was asked about the chat
\* and does not name it says that nothing in it is unread.
MB == INSTANCE Mailbox WITH
        Positions <- 1..MaxIds,
        messages <- [i \in Ids |-> [sender |-> rows[i].sender, read |-> rows[i].read]],
        known <- got,
        complete <- [u \in Pair |-> answer[u].kind = "history" /\ ~answer[u].more],
        assured <- [u \in Pair |-> asked[u] /\ ~told[u]]

ImplementsMailbox ==
  MB!Init /\ [][Monotone' => MB!Next \/ UNCHANGED MB!vars]_chatVars

\* "limit" says how many messages from the end are returned (the comment on
\* GET_LATEST_MESSAGES).
LatestHonoursLimit ==
  \A limit \in Limits :
    Cardinality(LatestMessages(limit)) =
      IF Cardinality(Ids) < limit THEN Cardinality(Ids) ELSE limit
=============================================================================
