----------------------------- MODULE ChatProofs -----------------------------
(***************************************************************************)
(* Theorems about Chat, for any batch size, any limits and any number of   *)
(* messages, with a clock that may be set and statements that may fail.    *)
(***************************************************************************)
EXTENDS Chat, FiniteSetTheorems, WellFoundedInduction, TLAPS

LEMMA InitTypeOK == ASSUME ChatAssumption PROVE ChatInit => ChatTypeOK
<1> SUFFICES ASSUME ChatInit PROVE ChatTypeOK
  OBVIOUS
<1>1. Ids = {} /\ rows \in [Ids -> Row]
  BY DEF ChatInit, Ids
<1>2. NoAnswer \in Answers
  BY DEF NoAnswer, Answers, Kinds
<1>3. lastId = 0 /\ 0 \in 0..MaxIds /\ 0 \in 0..lastId
  BY DEF ChatInit, ChatAssumption
<1>4. exists \in BOOLEAN /\ online \subseteq Pair /\ got \in [Pair -> SUBSET Ids]
  BY DEF ChatInit
<1>5. told \in [Pair -> BOOLEAN] /\ asked \in [Pair -> BOOLEAN]
  BY DEF ChatInit
<1>6. readUpTo \in [Pair -> 0..lastId]
  BY <1>3 DEF ChatInit
<1> QED
  BY <1>1, <1>2, <1>3, <1>4, <1>5, <1>6 DEF ChatInit, ChatTypeOK

\* Adding a page of stored messages to what a client has keeps the types.
LEMMA RespondTypeOK ==
  ASSUME ChatAssumption, ChatTypeOK, NEW u \in Pair, NEW page \in SUBSET Ids,
         got' = [got EXCEPT ![u] = @ \cup page],
         NEW a \in Answers,
         answer' = [answer EXCEPT ![u] = a],
         UNCHANGED <<table, online, told, asked, readUpTo>>
  PROVE  ChatTypeOK'
<1>1. Ids' = Ids
  BY DEF table, Ids
<1>2. got' \in [Pair -> SUBSET Ids]
  BY DEF ChatTypeOK
<1>3. answer' \in [Pair -> Answers]
  BY DEF ChatTypeOK
<1> QED
  BY <1>1, <1>2, <1>3 DEF ChatTypeOK, table

LEMMA FetchTypeOK ==
  ASSUME ChatAssumption, ChatTypeOK, NEW u \in Pair, Fetch(u) PROVE ChatTypeOK'
<1>1. NoAnswer \in Answers
  BY DEF NoAnswer, Answers, Kinds
<1>2. ASSUME NEW page \in SUBSET Ids, FetchFails(u, page) PROVE ChatTypeOK'
  BY <1>1, <1>2, RespondTypeOK DEF FetchFails
<1>3. ASSUME NEW l \in Limits, HandleGetLatestMessages(u, l) PROVE ChatTypeOK'
  <2>1. [kind |-> "latest", limit |-> l, more |-> HasMoreHistory(0)] \in Answers
    BY DEF Answers, Kinds, HasMoreHistory
  <2>2. LatestMessages(l) \in SUBSET Ids
    BY DEF LatestMessages
  <2> QED
    BY <1>3, <2>1, <2>2, RespondTypeOK DEF HandleGetLatestMessages, Respond
<1>4. ASSUME NEW o \in 0..Cardinality(got[u]), HandleGetHistory(u, o) PROVE ChatTypeOK'
  <2>1. [kind |-> "history", limit |-> MESSAGE_BATCH_SIZE, more |-> HasMoreHistory(o)]
          \in Answers
    BY DEF Answers, Kinds, HasMoreHistory
  <2>2. ChatHistory(o) \in SUBSET Ids
    BY DEF ChatHistory
  <2> QED
    BY <1>4, <2>1, <2>2, RespondTypeOK DEF HandleGetHistory, Respond
<1>5. ASSUME NEW l \in Limits, FetchFails(u, LatestMessages(l)) PROVE ChatTypeOK'
  BY <1>2, <1>5 DEF LatestMessages
<1>6. ASSUME NEW o \in 0..Cardinality(got[u]), FetchFails(u, ChatHistory(o)) PROVE ChatTypeOK'
  BY <1>2, <1>6 DEF ChatHistory
<1>7. ASSUME FetchFails(u, {}) PROVE ChatTypeOK'
  BY <1>2, <1>7
<1> QED
  BY <1>3, <1>4, <1>5, <1>6, <1>7 DEF Fetch

\* What the two ways to store a message do to the table.
LEMMA SendStores ==
  ASSUME ChatAssumption, ChatTypeOK, NEW u \in Pair, NEW time \in 0..MaxNow,
         HandleSendMessage(u, time)
  PROVE  /\ lastId' \in 0..MaxIds /\ lastId' = lastId + 1
         /\ Ids' = Ids \cup {lastId'} /\ Ids' \subseteq 1..lastId'
         /\ rows'[lastId'] = [sender |-> u, sent_at |-> time, read |-> FALSE]
         /\ \A i \in Ids : i # lastId' /\ rows'[i] = rows[i]
         /\ rows' \in [Ids' -> Row]
<1> DEFINE row == [sender |-> u, sent_at |-> time, read |-> FALSE]
<1>1. row \in Row
  BY DEF Row
<1>2. lastId' \in 0..MaxIds /\ lastId' = lastId + 1
  BY DEF HandleSendMessage, ChatAssumption, ChatTypeOK
<1>3. \A i \in Ids : i \in Int /\ 1 <= i /\ i <= lastId
  BY <1>2 DEF ChatTypeOK
<1>4. rows' = [i \in Ids \cup {lastId'} |-> IF i \in Ids THEN rows[i] ELSE row]
  BY DEF HandleSendMessage
<1>5. Ids' = Ids \cup {lastId'}
  BY <1>4 DEF Ids
<1>6. Ids' \subseteq 1..lastId'
  BY <1>2, <1>3, <1>5 DEF ChatTypeOK
<1>7. lastId' \notin Ids
  BY <1>2, <1>3 DEF ChatTypeOK
<1>8. \A i \in Ids : rows[i] \in Row
  BY DEF ChatTypeOK
<1> HIDE DEF row
<1>9. rows'[lastId'] = row /\ \A i \in Ids : rows'[i] = rows[i]
  BY <1>4, <1>7
<1>10. rows' \in [Ids' -> Row]
  BY <1>1, <1>4, <1>5, <1>8
<1> QED
  BY <1>2, <1>5, <1>6, <1>7, <1>9, <1>10 DEF row

LEMMA FailureUsesAnId ==
  ASSUME ChatAssumption, ChatTypeOK, NEW u \in Pair, SendMessageFails(u)
  PROVE  /\ lastId' \in 0..MaxIds /\ lastId <= lastId'
         /\ rows' = rows /\ Ids' = Ids /\ Ids' \subseteq 1..lastId'
<1>1. lastId' = lastId \/ (lastId < MaxIds /\ lastId' = lastId + 1)
  BY Zenon DEF SendMessageFails
<1>2. rows' = rows /\ Ids' = Ids
  BY DEF SendMessageFails, Ids
<1>3. lastId' \in 0..MaxIds /\ lastId <= lastId'
  BY <1>1 DEF ChatTypeOK, ChatAssumption
<1>4. Ids' \subseteq 1..lastId'
  BY <1>2, <1>3 DEF ChatTypeOK
<1> QED
  BY <1>2, <1>3, <1>4

LEMMA NextTypeOK ==
  ASSUME ChatAssumption, ChatTypeOK, [ChatNext]_chatVars PROVE ChatTypeOK'
<1>1. ASSUME NEW u \in Pair, NEW time \in 0..MaxNow, HandleSendMessage(u, time)
      PROVE  ChatTypeOK'
  <2>1. got' \in [Pair -> SUBSET Ids']
    BY <1>1, SendStores DEF HandleSendMessage, Given, ChatTypeOK
  <2>2. readUpTo' \in [Pair -> 0..lastId']
    BY <1>1, SendStores DEF HandleSendMessage, ChatTypeOK
  <2>3. exists' = TRUE /\ UNCHANGED <<online, answer, told, asked>>
    BY <1>1 DEF HandleSendMessage
  <2> QED
    BY <1>1, SendStores, <2>1, <2>2, <2>3 DEF ChatTypeOK
<1>2. ASSUME NEW u \in Pair, SendMessageFails(u) PROVE ChatTypeOK'
  <2>1. exists' = exists \/ exists' = TRUE
    BY <1>2, Zenon DEF SendMessageFails
  <2>2. exists' \in BOOLEAN /\ (Ids' # {} => exists')
    <3>1. CASE exists' = exists
      BY <1>2, <3>1, FailureUsesAnId DEF ChatTypeOK
    <3>2. CASE exists' = TRUE
      BY <3>2
    <3> QED
      BY <2>1, <3>1, <3>2
  <2>3. readUpTo' \in [Pair -> 0..lastId']
    <3>1. lastId' \in Int /\ lastId <= lastId' /\ lastId \in Int
      BY <1>2, FailureUsesAnId DEF ChatTypeOK
    <3>2. readUpTo' = readUpTo
      BY <1>2 DEF SendMessageFails
    <3> QED
      BY <3>1, <3>2 DEF ChatTypeOK
  <2>4. UNCHANGED <<online, got, answer, told, asked>>
    BY <1>2 DEF SendMessageFails, clients
  <2> QED
    BY <1>2, <2>2, <2>3, <2>4, FailureUsesAnId DEF ChatTypeOK
<1>3. ASSUME NEW u \in Pair, HandleMessageRead(u) PROVE ChatTypeOK'
  <2>1. Ids' = Ids /\ rows' \in [Ids -> Row]
    BY <1>3 DEF HandleMessageRead, MarkChatRead, Ids, Row, ChatTypeOK
  <2>2. readUpTo' \in [Pair -> 0..lastId]
    BY <1>3 DEF HandleMessageRead, ChatTypeOK
  <2> QED
    BY <1>3, <2>1, <2>2 DEF HandleMessageRead, clients, ChatTypeOK
<1>4. ASSUME NEW u \in Pair, NEW counted \in BOOLEAN, HandleLogin(u, counted)
      PROVE  ChatTypeOK'
  <2>1. Ids' = Ids /\ online' \subseteq Pair
    BY <1>4 DEF HandleLogin, table, Ids, ChatTypeOK
  <2>2. asked' \in [Pair -> BOOLEAN] /\ told' \in [Pair -> BOOLEAN]
    BY <1>4 DEF HandleLogin, ChatTypeOK
  <2>3. got' \in [Pair -> SUBSET Ids]
    BY <1>4 DEF HandleLogin, ChatTypeOK
  <2>4. answer' \in [Pair -> Answers]
    BY <1>4 DEF HandleLogin, NoAnswer, Answers, Kinds, ChatTypeOK
  <2> QED
    BY <1>4, <2>1, <2>2, <2>3, <2>4 DEF HandleLogin, table, ChatTypeOK
<1>5. ASSUME NEW u \in Pair, SessionEnds(u) PROVE ChatTypeOK'
  <2>1. Ids' = Ids /\ got' \in [Pair -> SUBSET Ids] /\ online' \subseteq Pair
    BY <1>5 DEF SessionEnds, table, Ids, ChatTypeOK
  <2>2. answer' \in [Pair -> Answers]
    BY <1>5 DEF SessionEnds, NoAnswer, Answers, Kinds, ChatTypeOK
  <2>3. asked' \in [Pair -> BOOLEAN] /\ told' \in [Pair -> BOOLEAN]
    BY <1>5 DEF SessionEnds, ChatTypeOK
  <2> QED
    BY <1>5, <2>1, <2>2, <2>3 DEF SessionEnds, table, ChatTypeOK
<1>6. CASE UNCHANGED chatVars
  BY <1>6 DEF chatVars, table, clients, Ids, ChatTypeOK
<1> QED
  BY <1>1, <1>2, <1>3, <1>4, <1>5, <1>6, FetchTypeOK DEF ChatNext

\* Every state has values of the right types, for any constants.
THEOREM TypeOKHolds == ASSUME ChatAssumption PROVE ChatSpec => []ChatTypeOK
<1>1. ChatInit => ChatTypeOK
  BY InitTypeOK
<1>2. ChatTypeOK /\ [ChatNext]_chatVars => ChatTypeOK'
  BY NextTypeOK
<1> QED
  BY <1>1, <1>2, PTL DEF ChatSpec

LEMMA NextReadByReceiver ==
  ASSUME ChatAssumption, ChatTypeOK, ReadByReceiver, [ChatNext]_chatVars PROVE ReadByReceiver'
<1>1. ASSUME NEW u \in Pair, NEW time \in 0..MaxNow, HandleSendMessage(u, time)
      PROVE  ReadByReceiver'
  <2>1. readUpTo' = readUpTo
    BY <1>1 DEF HandleSendMessage
  <2>2. /\ lastId' = lastId + 1 /\ Ids' = Ids \cup {lastId'}
        /\ rows'[lastId'] = [sender |-> u, sent_at |-> time, read |-> FALSE]
        /\ \A i \in Ids : rows'[i] = rows[i]
    BY <1>1, SendStores
  <2>3. \A v \in Pair : ~(lastId' <= readUpTo'[v])
    BY <2>1, <2>2 DEF ChatTypeOK
  <2>4. rows'[lastId'].read = FALSE
    BY <2>2
  <2> QED
    BY <2>1, <2>2, <2>3, <2>4 DEF ReadByReceiver
<1>2. ASSUME NEW u \in Pair, HandleMessageRead(u) PROVE ReadByReceiver'
  <2>1. Ids' = Ids /\ rows' = MarkChatRead(u)
    BY <1>2 DEF HandleMessageRead, MarkChatRead, Ids
  <2> SUFFICES ASSUME NEW i \in Ids
               PROVE  rows'[i].read <=>
                        \E v \in Pair \ {rows'[i].sender} : i <= readUpTo'[v]
    BY <2>1 DEF ReadByReceiver
  <2>2. readUpTo' = [readUpTo EXCEPT ![u] = lastId] /\ i <= lastId
    BY <1>2 DEF HandleMessageRead, ChatTypeOK
  <2>3. rows'[i].sender = rows[i].sender
    BY <2>1 DEF MarkChatRead, ChatTypeOK, Row
  <2>4. CASE rows[i].sender = u
    <3>1. rows'[i] = rows[i]
      BY <2>1, <2>4 DEF MarkChatRead, Unread
    <3>2. \A v \in Pair \ {u} : readUpTo'[v] = readUpTo[v]
      BY <2>2 DEF ChatTypeOK
    <3> QED
      BY <2>4, <3>1, <3>2 DEF ReadByReceiver
  <2>5. CASE rows[i].sender # u
    <3>1. rows'[i].read = TRUE
      BY <2>1, <2>5 DEF MarkChatRead, Unread, ChatTypeOK, Row
    <3>2. u \in Pair \ {rows'[i].sender} /\ i <= readUpTo'[u]
      BY <2>2, <2>3, <2>5 DEF ChatTypeOK
    <3> QED
      BY <3>1, <3>2
  <2> QED
    BY <2>4, <2>5
<1>3. ASSUME UNCHANGED <<rows, readUpTo>> PROVE ReadByReceiver'
  BY <1>3 DEF ReadByReceiver, Ids
<1>4. ASSUME NEW u \in Pair,
             \/ SendMessageFails(u) \/ Fetch(u) \/ SessionEnds(u)
             \/ \E counted \in BOOLEAN : HandleLogin(u, counted)
      PROVE  UNCHANGED <<rows, readUpTo>>
  BY <1>4, Zenon DEF SendMessageFails, Fetch, HandleGetLatestMessages, HandleGetHistory,
       Respond, FetchFails, SessionEnds, HandleLogin, table
<1>5. CASE UNCHANGED chatVars
  BY <1>3, <1>5 DEF chatVars, table
<1> QED
  BY <1>1, <1>2, <1>3, <1>4, <1>5 DEF ChatNext

\* A message is marked read exactly if its receiver sent MESSAGE_READ after it
\* was stored, whatever fails and however the clock is set.
THEOREM ReadByReceiverHolds == ASSUME ChatAssumption PROVE ChatSpec => []ReadByReceiver
<1>1. ChatInit => ReadByReceiver
  BY DEF ChatInit, ReadByReceiver, Ids
<1>2. ChatTypeOK /\ ReadByReceiver /\ [ChatNext]_chatVars => ReadByReceiver'
  BY NextReadByReceiver
<1> QED
  BY <1>1, <1>2, TypeOKHolds, PTL DEF ChatSpec

LEMMA NextUnreadAnnounced ==
  ASSUME ChatAssumption, ChatTypeOK, UnreadAnnounced, [ChatNext]_chatVars PROVE UnreadAnnounced'
<1> SUFFICES ASSUME NEW u \in online', asked'[u], ~told'[u]
             PROVE  Unread(u)' \subseteq got'[u]
  BY DEF UnreadAnnounced
<1>1. ASSUME NEW v \in Pair, NEW time \in 0..MaxNow, HandleSendMessage(v, time)
      PROVE  Unread(u)' \subseteq got'[u]
  <2>1. /\ Ids' = Ids \cup {lastId'}
        /\ \A i \in Ids : rows'[i] = rows[i]
    BY <1>1, SendStores
  <2>2. u \in online /\ asked[u] /\ ~told[u] /\ got'[u] = got[u] \cup {lastId'}
    BY <1>1 DEF HandleSendMessage, Given, ChatTypeOK
  <2>3. Unread(u) \subseteq got[u]
    BY <2>2 DEF UnreadAnnounced
  <2> QED
    BY <2>1, <2>2, <2>3 DEF Unread
<1>2. ASSUME u \in online, asked[u], ~told[u], got[u] \subseteq got'[u],
             Unread(u)' \subseteq Unread(u)
      PROVE  Unread(u)' \subseteq got'[u]
  BY <1>2 DEF UnreadAnnounced
<1>3. ASSUME NEW v \in Pair, HandleMessageRead(v)
      PROVE  Unread(u)' \subseteq got'[u]
  <2>1. UNCHANGED clients
    BY <1>3 DEF HandleMessageRead
  <2>2. rows' = MarkChatRead(v) /\ Ids' = Ids
    BY <1>3 DEF HandleMessageRead, MarkChatRead, Ids
  <2>3. \A i \in Ids : /\ rows'[i].sender = rows[i].sender
                       /\ rows[i].read => rows'[i].read
    BY <2>2 DEF MarkChatRead, ChatTypeOK, Row
  <2>4. Unread(u)' \subseteq Unread(u)
    BY <2>2, <2>3 DEF Unread
  <2> QED
    BY <1>2, <2>1, <2>4 DEF clients
<1>4. ASSUME NEW v \in Pair, SendMessageFails(v) PROVE Unread(u)' \subseteq got'[u]
  <2>1. UNCHANGED <<rows, clients>>
    BY <1>4 DEF SendMessageFails
  <2> QED
    BY <1>2, <2>1 DEF Unread, Ids, clients
<1>5. ASSUME NEW v \in Pair, Fetch(v) PROVE Unread(u)' \subseteq got'[u]
  <2>1. /\ UNCHANGED <<rows, online, told, asked>>
        /\ \E page : got' = [got EXCEPT ![v] = @ \cup page]
    BY <1>5, Zenon DEF Fetch, HandleGetLatestMessages, HandleGetHistory, Respond,
         FetchFails, table
  <2>2. got[u] \subseteq got'[u] /\ Unread(u)' = Unread(u)
    BY <2>1 DEF Unread, Ids, ChatTypeOK
  <2> QED
    BY <1>2, <2>1, <2>2
<1>6. ASSUME NEW v \in Pair, NEW counted \in BOOLEAN, HandleLogin(v, counted)
      PROVE  Unread(u)' \subseteq got'[u]
  <2>1. Unread(u)' = Unread(u)
    BY <1>6 DEF HandleLogin, table, Unread, Ids
  <2>2. CASE u = v
    <3>1. asked'[u] = counted /\ (told'[u] <=> counted /\ Unread(u) # {})
      BY <1>6, <2>2 DEF HandleLogin, ChatTypeOK
    <3> QED
      BY <2>1, <3>1
  <2>3. CASE u # v
    <3>1. /\ u \in online /\ got'[u] = got[u]
          /\ asked'[u] = asked[u] /\ told'[u] = told[u]
      BY <1>6, <2>3 DEF HandleLogin, ChatTypeOK
    <3> QED
      BY <1>2, <2>1, <3>1
  <2> QED
    BY <2>2, <2>3
<1>7. ASSUME NEW v \in Pair, SessionEnds(v) PROVE Unread(u)' \subseteq got'[u]
  <2>1. u # v /\ u \in online /\ Unread(u)' = Unread(u)
    BY <1>7 DEF SessionEnds, table, Unread, Ids
  <2>2. got'[u] = got[u] /\ asked'[u] = asked[u] /\ told'[u] = told[u]
    BY <1>7, <2>1 DEF SessionEnds, ChatTypeOK
  <2> QED
    BY <1>2, <2>1, <2>2
<1>8. CASE UNCHANGED chatVars
  BY <1>2, <1>8 DEF chatVars, table, clients, Unread, Ids
<1> QED
  BY <1>1, <1>3, <1>4, <1>5, <1>6, <1>7, <1>8 DEF ChatNext

\* A user who is online has been given every message it has not read, or was
\* told at the login that there are some.
THEOREM UnreadAnnouncedHolds == ASSUME ChatAssumption PROVE ChatSpec => []UnreadAnnounced
<1>1. ChatInit => UnreadAnnounced
  BY DEF ChatInit, UnreadAnnounced
<1>2. ChatTypeOK /\ UnreadAnnounced /\ [ChatNext]_chatVars => UnreadAnnounced'
  BY NextUnreadAnnounced
<1> QED
  BY <1>1, <1>2, TypeOKHolds, PTL DEF ChatSpec
-----------------------------------------------------------------------------
(* What a client has been given: NothingSkipped and MoreIsOffered, for any   *)
(* order of requests.                                                        *)

\* S holds with a message all messages that come after it.
Closed(S) == \A i \in S, j \in Ids : i < j => j \in S

After(i) == {j \in Ids : j > i}

LEMMA IdsFinite ==
  ASSUME ChatTypeOK
  PROVE  /\ IsFiniteSet(Ids) /\ Cardinality(Ids) \in Nat
         /\ \A i \in Ids : i \in Nat
         /\ \A S \in SUBSET Ids : /\ IsFiniteSet(S) /\ Cardinality(S) \in Nat
                                  /\ Cardinality(S) <= Cardinality(Ids)
<1>1. IsFiniteSet(1..lastId)
  BY FS_Interval DEF ChatTypeOK
<1>2. IsFiniteSet(Ids)
  BY <1>1, FS_Subset DEF ChatTypeOK
<1>3. \A S \in SUBSET Ids : IsFiniteSet(S) /\ Cardinality(S) <= Cardinality(Ids)
  BY <1>2, FS_Subset
<1>4. \A S \in SUBSET Ids : Cardinality(S) \in Nat
  BY <1>3, FS_CardinalityType
<1>5. \A i \in Ids : i \in Nat
  BY DEF ChatTypeOK
<1> QED
  BY <1>2, <1>3, <1>4, <1>5

\* Unless the clock was set back, the order of the history is that of the ids.
LEMMA HistoryOrder ==
  ASSUME ChatTypeOK, Monotone, NEW i \in Ids
  PROVE  {j \in Ids : Before(j, i)} = After(i)
<1> SUFFICES ASSUME NEW j \in Ids PROVE Before(j, i) <=> j > i
  BY DEF After
<1>1. i \in Int /\ j \in Int /\ rows[i].sent_at \in Int /\ rows[j].sent_at \in Int
  <2>1. rows[i] \in Row /\ rows[j] \in Row
    BY DEF ChatTypeOK
  <2> QED
    BY <2>1, IdsFinite DEF Row
<1>2. (j < i => rows[j].sent_at <= rows[i].sent_at) /\
      (i < j => rows[i].sent_at <= rows[j].sent_at)
  BY DEF Monotone
<1>3. CASE j = i
  BY <1>1, <1>3 DEF Before
<1>4. CASE j # i
  BY <1>1, <1>2, <1>4 DEF Before
<1> QED
  BY <1>3, <1>4

LEMMA PageOfHistory ==
  ASSUME ChatTypeOK, Monotone, NEW o \in Nat
  PROVE  ChatHistory(o) = {i \in Ids : Cardinality(After(i))
                                         \in o..(o + MESSAGE_BATCH_SIZE - 1)}
  BY HistoryOrder DEF ChatHistory

\* A page from an offset no greater than what the client has continues it.
LEMMA HistoryContinues ==
  ASSUME ChatAssumption, ChatTypeOK, Monotone, NEW S \in SUBSET Ids, Closed(S),
         NEW o \in 0..Cardinality(S)
  PROVE  /\ Closed(S \cup ChatHistory(o))
         /\ ~HasMoreHistory(o) => S \cup ChatHistory(o) = Ids
<1> DEFINE rank(i) == Cardinality(After(i))
           page == ChatHistory(o)
<1>1. Cardinality(S) \in Nat /\ o \in Nat /\ o <= Cardinality(S)
      /\ MESSAGE_BATCH_SIZE \in Nat
  BY IdsFinite DEF ChatAssumption
<1>2. \A i \in Ids : /\ After(i) \in SUBSET Ids
                     /\ IsFiniteSet(After(i)) /\ rank(i) \in Nat
  BY IdsFinite DEF After
<1>3. \A i \in Ids : i \in page <=> o <= rank(i) /\ rank(i) < o + MESSAGE_BATCH_SIZE
  BY <1>1, <1>2, PageOfHistory
<1>4. ASSUME NEW j \in Ids, j \notin S PROVE o <= rank(j)
  <2>1. S \subseteq After(j)
    BY <1>4, IdsFinite DEF Closed, After
  <2>2. Cardinality(S) <= rank(j)
    BY <1>2, <2>1, FS_Subset
  <2> QED
    BY <1>1, <1>2, <2>2
<1>5. Closed(S \cup page)
  <2> SUFFICES ASSUME NEW i \in S \cup page, NEW j \in Ids, i < j, j \notin S
               PROVE  j \in page
    BY DEF Closed
  <2>1. i \in page /\ i \in Ids
    BY DEF Closed, ChatHistory
  <2>2. After(j) \subseteq After(i)
    BY <2>1, IdsFinite DEF After
  <2>3. rank(j) <= rank(i)
    BY <1>2, <2>1, <2>2, FS_Subset
  <2> QED
    BY <1>1, <1>2, <1>3, <1>4, <2>1, <2>3
<1>6. ASSUME ~HasMoreHistory(o) PROVE S \cup page = Ids
  <2> SUFFICES ASSUME NEW j \in Ids, j \notin S PROVE j \in page
    BY DEF ChatHistory
  <2>1. Cardinality(Ids) \in Nat /\ Cardinality(Ids) <= o + MESSAGE_BATCH_SIZE
    BY <1>1, <1>6, IdsFinite DEF HasMoreHistory
  <2>2. rank(j) < Cardinality(Ids)
    <3>1. j \notin After(j)
      BY IdsFinite DEF After
    <3>2. rank(j) <= Cardinality(Ids) /\ (Cardinality(Ids) = rank(j) => Ids = After(j))
      BY <1>2, IdsFinite, FS_Subset
    <3> QED
      BY <1>2, <2>1, <3>1, <3>2
  <2> QED
    BY <1>1, <1>2, <1>3, <1>4, <2>1, <2>2
<1> QED
  BY <1>5, <1>6

\* The latest messages continue whatever the client has, and are all of them if
\* the limit is at least the batch, there are no more and no id is missing.
LEMMA LatestContinues ==
  ASSUME ChatAssumption, ChatTypeOK, NEW S \in SUBSET Ids, Closed(S), NEW l \in Limits
  PROVE  /\ Closed(S \cup LatestMessages(l))
         /\ (~HasMoreHistory(0) /\ l >= MESSAGE_BATCH_SIZE /\ NoGaps)
              => LatestMessages(l) = Ids
<1>1. l \in Int /\ MESSAGE_BATCH_SIZE \in Int
  BY DEF ChatAssumption
<1>2. Closed(LatestMessages(l))
  <2> SUFFICES ASSUME NEW i \in LatestMessages(l), NEW j \in Ids, i < j,
                      NEW max \in Ids, \A k \in Ids : k <= max
               PROVE  j > max - l
    BY DEF Closed, LatestMessages
  <2>1. i \in Ids /\ i > max - l
    BY DEF LatestMessages
  <2> QED
    BY <1>1, <2>1, IdsFinite
<1>3. Closed(S \cup LatestMessages(l))
  BY <1>2 DEF Closed
<1>4. ASSUME ~HasMoreHistory(0), l >= MESSAGE_BATCH_SIZE, NoGaps
      PROVE  LatestMessages(l) = Ids
  <2> SUFFICES ASSUME NEW i \in Ids, NEW max \in Ids, \A k \in Ids : k <= max
               PROVE  i > max - l
    BY DEF LatestMessages
  <2>1. 1..max \in SUBSET Ids
    BY <1>4 DEF NoGaps
  <2>2. max \in Nat /\ i \in Nat /\ i >= 1
    BY IdsFinite DEF ChatTypeOK
  <2>3. Cardinality(1..max) = max
    BY <2>2, FS_Interval
  <2>4. max <= Cardinality(Ids) /\ Cardinality(Ids) \in Nat
    BY <2>1, <2>3, IdsFinite
  <2>5. Cardinality(Ids) <= MESSAGE_BATCH_SIZE
    BY <1>1, <1>4, <2>4 DEF HasMoreHistory
  <2> QED
    BY <1>1, <1>4, <2>2, <2>4, <2>5
<1> QED
  BY <1>3, <1>4
-----------------------------------------------------------------------------
\* What the actions but HandleSendMessage leave alone.
SameOrder == Ids' = Ids /\ \A i \in Ids : rows'[i].sent_at = rows[i].sent_at

LEMMA SameOrderSameHypotheses ==
  ASSUME SameOrder PROVE (Monotone' <=> Monotone) /\ (NoGaps' <=> NoGaps)
  BY DEF SameOrder, Monotone, NoGaps

LEMMA StepsKeepOrder ==
  ASSUME ChatTypeOK, NEW u \in Pair,
         \/ SendMessageFails(u) \/ Fetch(u) \/ HandleMessageRead(u)
         \/ \E counted \in BOOLEAN : HandleLogin(u, counted)
         \/ SessionEnds(u)
  PROVE  SameOrder
<1>1. CASE HandleMessageRead(u)
  BY <1>1 DEF HandleMessageRead, MarkChatRead, SameOrder, Ids, ChatTypeOK, Row
<1>2. CASE ~HandleMessageRead(u)
  <2>1. rows' = rows
    BY <1>2, Zenon DEF SendMessageFails, Fetch, HandleGetLatestMessages,
         HandleGetHistory, Respond, FetchFails, SessionEnds, HandleLogin, table
  <2> QED
    BY <2>1 DEF SameOrder, Ids
<1> QED
  BY <1>1, <1>2

\* A new message comes after all others, and every session is given it.
LEMMA SendGivesToAll ==
  ASSUME ChatAssumption, ChatTypeOK, NEW u \in Pair, NEW time \in 0..MaxNow,
         HandleSendMessage(u, time)
  PROVE  /\ Ids' = Ids \cup {lastId'}
         /\ \A i \in Ids : i < lastId' /\ rows'[i].sent_at = rows[i].sent_at
         /\ \A v \in online : got'[v] = got[v] \cup {lastId'}
         /\ lastId' \in Int
         /\ Monotone' => Monotone
         /\ NoGaps' => NoGaps
         /\ online' = online /\ answer' = answer
<1>0. /\ lastId' \in 0..MaxIds /\ lastId' = lastId + 1
      /\ Ids' = Ids \cup {lastId'}
      /\ \A i \in Ids : rows'[i] = rows[i]
  BY SendStores
<1>1. /\ lastId' \in Int /\ lastId \in Int /\ lastId' = lastId + 1
      /\ Ids' = Ids \cup {lastId'}
      /\ \A i \in Ids : rows'[i] = rows[i]
  BY <1>0 DEF ChatTypeOK
<1>2. \A i \in Ids : i \in Nat /\ i <= lastId
  BY IdsFinite DEF ChatTypeOK
<1>3. \A i \in Ids : i < lastId'
  BY <1>1, <1>2
<1>4. Monotone' => Monotone
  BY <1>1 DEF Monotone
<1>5. NoGaps' => NoGaps
  <2> SUFFICES ASSUME NoGaps', NEW i \in Ids, NEW k \in 1..i PROVE k \in Ids
    BY DEF NoGaps
  <2>1. k \in Ids'
    BY <1>1 DEF NoGaps
  <2>2. k # lastId'
    BY <1>1, <1>2
  <2> QED
    BY <1>1, <2>1, <2>2
<1>6. \A v \in online : got'[v] = got[v] \cup {lastId'}
  BY DEF HandleSendMessage, Given, ChatTypeOK
<1>7. online' = online /\ answer' = answer
  BY DEF HandleSendMessage
<1> QED
  BY <1>1, <1>3, <1>4, <1>5, <1>6, <1>7

\* What a fetch does to the view of its client: nothing, or it adds a page.
LEMMA FetchAdds ==
  ASSUME ChatAssumption, ChatTypeOK, Monotone, NEW u \in Pair, Closed(got[u]), Fetch(u)
  PROVE  \E page \in SUBSET Ids, a \in Answers :
           /\ u \in online
           /\ got' = [got EXCEPT ![u] = @ \cup page]
           /\ answer' = [answer EXCEPT ![u] = a]
           /\ UNCHANGED <<table, online>>
           /\ Closed(got[u] \cup page)
           /\ (/\ ~a.more
               /\ \/ a.kind = "history"
                  \/ a.kind = "latest" /\ a.limit >= MESSAGE_BATCH_SIZE /\ NoGaps)
              => got[u] \cup page = Ids
<1>1. got[u] \in SUBSET Ids /\ Closed(got[u] \cup {})
  BY DEF ChatTypeOK
<1>2. NoAnswer \in Answers /\ NoAnswer.more
  BY DEF NoAnswer, Answers, Kinds
<1>3. ASSUME NEW l \in Limits, HandleGetLatestMessages(u, l) \/ FetchFails(u, LatestMessages(l))
      PROVE  Closed(got[u] \cup LatestMessages(l)) /\ LatestMessages(l) \in SUBSET Ids
  BY <1>1, LatestContinues DEF LatestMessages
<1>4. ASSUME NEW o \in 0..Cardinality(got[u]),
             HandleGetHistory(u, o) \/ FetchFails(u, ChatHistory(o))
      PROVE  Closed(got[u] \cup ChatHistory(o)) /\ ChatHistory(o) \in SUBSET Ids
  BY <1>1, HistoryContinues DEF ChatHistory
<1>5. ASSUME NEW page \in SUBSET Ids, Closed(got[u] \cup page), FetchFails(u, page)
      PROVE  /\ u \in online
             /\ got' = [got EXCEPT ![u] = @ \cup page]
             /\ answer' = [answer EXCEPT ![u] = NoAnswer]
             /\ UNCHANGED <<table, online>>
  BY <1>5 DEF FetchFails
<1>6. CASE FetchFails(u, {})
  <2>1. {} \in SUBSET Ids
    OBVIOUS
  <2> QED
    BY <1>1, <1>2, <1>5, <1>6, <2>1
<1>7. CASE \E l \in Limits : FetchFails(u, LatestMessages(l))
  BY <1>2, <1>3, <1>5, <1>7
<1>8. CASE \E o \in 0..Cardinality(got[u]) : FetchFails(u, ChatHistory(o))
  BY <1>2, <1>4, <1>5, <1>8
<1>9. CASE \E l \in Limits : HandleGetLatestMessages(u, l)
  <2> PICK l \in Limits : HandleGetLatestMessages(u, l)
    BY <1>9
  <2> DEFINE a == [kind |-> "latest", limit |-> l, more |-> HasMoreHistory(0)]
  <2>1. /\ u \in online
        /\ got' = [got EXCEPT ![u] = @ \cup LatestMessages(l)]
        /\ answer' = [answer EXCEPT ![u] = a]
        /\ UNCHANGED <<table, online>>
    BY DEF HandleGetLatestMessages, Respond
  <2>2. (~a.more /\ a.kind = "latest" /\ a.limit >= MESSAGE_BATCH_SIZE /\ NoGaps)
          => LatestMessages(l) = Ids
    BY <1>1, LatestContinues
  <2>3. a.kind # "history" /\ a \in Answers
    BY DEF Answers, Kinds, HasMoreHistory
  <2> HIDE DEF a
  <2> QED
    BY <1>1, <1>3, <2>1, <2>2, <2>3
<1>10. CASE \E o \in 0..Cardinality(got[u]) : HandleGetHistory(u, o)
  <2> PICK o \in 0..Cardinality(got[u]) : HandleGetHistory(u, o)
    BY <1>10
  <2> DEFINE a == [kind |-> "history", limit |-> MESSAGE_BATCH_SIZE,
                   more |-> HasMoreHistory(o)]
  <2>1. /\ u \in online
        /\ got' = [got EXCEPT ![u] = @ \cup ChatHistory(o)]
        /\ answer' = [answer EXCEPT ![u] = a]
        /\ UNCHANGED <<table, online>>
    BY DEF HandleGetHistory, Respond
  <2>2. ~a.more => got[u] \cup ChatHistory(o) = Ids
    BY <1>1, HistoryContinues
  <2>3. a \in Answers
    BY DEF Answers, Kinds, HasMoreHistory
  <2> HIDE DEF a
  <2> QED
    BY <1>4, <2>1, <2>2, <2>3
<1> QED
  BY <1>6, <1>7, <1>8, <1>9, <1>10 DEF Fetch
-----------------------------------------------------------------------------
Paging == NothingSkipped /\ MoreIsOffered

\* What the last answer promised is kept: the premise of MoreIsOffered.
Ended(a) ==
  /\ ~a.more
  /\ \/ a.kind = "history"
     \/ a.kind = "latest" /\ a.limit >= MESSAGE_BATCH_SIZE /\ NoGaps

LEMMA PagingPerUser ==
  Paging <=> (Monotone => \A u \in online : /\ Closed(got[u])
                                            /\ Ended(answer[u]) => got[u] = Ids)
  BY DEF Paging, NothingSkipped, MoreIsOffered, Closed, Ended

LEMMA NextPaging ==
  ASSUME ChatAssumption, ChatTypeOK, Paging, [ChatNext]_chatVars PROVE Paging'
<1> SUFFICES ASSUME Monotone',
                    NEW u \in online'
             PROVE  /\ Closed(got[u])'
                    /\ Ended(answer[u])' => got'[u] = Ids'
  BY DEF Paging, NothingSkipped, MoreIsOffered, Closed, Ended
<1>1. ASSUME NEW v \in Pair, NEW time \in 0..MaxNow, HandleSendMessage(v, time)
      PROVE  /\ Closed(got[u])'
             /\ Ended(answer[u])' => got'[u] = Ids'
  <2>1. /\ Ids' = Ids \cup {lastId'}
        /\ \A i \in Ids : i < lastId'
        /\ u \in online /\ got'[u] = got[u] \cup {lastId'}
        /\ Monotone /\ (NoGaps' => NoGaps) /\ answer' = answer
        /\ lastId' \in Int
    BY <1>1, SendGivesToAll
  <2>2. Closed(got[u]) /\ (Ended(answer[u]) => got[u] = Ids) /\ got[u] \subseteq Ids
    BY <2>1, PagingPerUser DEF ChatTypeOK
  <2>3. Closed(got[u])'
    BY <2>1, <2>2, IdsFinite DEF Closed
  <2>4. Ended(answer[u])' => Ended(answer[u])
    BY <2>1 DEF Ended
  <2> QED
    BY <2>1, <2>2, <2>3, <2>4
<1>2. ASSUME SameOrder, got'[u] = got[u], answer'[u] = answer[u], u \in online
      PROVE  /\ Closed(got[u])'
             /\ Ended(answer[u])' => got'[u] = Ids'
  <2>1. Monotone /\ (NoGaps' <=> NoGaps) /\ Ids' = Ids
    BY <1>2, SameOrderSameHypotheses DEF SameOrder
  <2>2. Closed(got[u]) /\ (Ended(answer[u]) => got[u] = Ids)
    BY <1>2, <2>1, PagingPerUser
  <2>3. (Ended(answer[u])' <=> Ended(answer[u])) /\ (Closed(got[u])' <=> Closed(got[u]))
    BY <1>2, <2>1 DEF Ended, Closed
  <2> QED
    BY <1>2, <2>1, <2>2, <2>3
<1>3. ASSUME SameOrder, got'[u] = {}, answer'[u] = NoAnswer
      PROVE  /\ Closed(got[u])'
             /\ Ended(answer[u])' => got'[u] = Ids'
  BY <1>3 DEF Closed, Ended, NoAnswer
<1>4. ASSUME NEW v \in Pair, Fetch(v)
      PROVE  /\ Closed(got[u])'
             /\ Ended(answer[u])' => got'[u] = Ids'
  <2>1. SameOrder /\ Monotone /\ (NoGaps' <=> NoGaps) /\ Ids' = Ids
    BY <1>4, StepsKeepOrder, SameOrderSameHypotheses DEF SameOrder
  <2>2. v \in online
    BY <1>4, Zenon DEF Fetch, HandleGetLatestMessages, HandleGetHistory, FetchFails
  <2>3. Closed(got[v])
    BY <2>1, <2>2, PagingPerUser
  <2>4. PICK page \in SUBSET Ids, a \in Answers :
           /\ v \in online
           /\ got' = [got EXCEPT ![v] = @ \cup page]
           /\ answer' = [answer EXCEPT ![v] = a]
           /\ UNCHANGED <<table, online>>
           /\ Closed(got[v] \cup page)
           /\ Ended(a) => got[v] \cup page = Ids
    BY <1>4, <2>1, <2>3, FetchAdds DEF Ended
  <2>5. u \in online
    BY <2>4
  <2>6. CASE u = v
    <3>1. got'[u] = got[u] \cup page /\ answer'[u] = a
      BY <2>4, <2>6 DEF ChatTypeOK
    <3>2. Closed(got[u])' <=> Closed(got[u] \cup page)
      BY <2>1, <3>1 DEF Closed
    <3>3. Ended(answer[u])' <=> Ended(a)
      BY <2>1, <3>1 DEF Ended
    <3> QED
      BY <2>1, <2>4, <2>6, <3>1, <3>2, <3>3
  <2>7. CASE u # v
    <3>1. got'[u] = got[u] /\ answer'[u] = answer[u]
      BY <2>4, <2>7 DEF ChatTypeOK
    <3>2. Closed(got[u]) /\ (Ended(answer[u]) => got[u] = Ids)
      BY <2>1, <2>5, PagingPerUser
    <3>3. Closed(got[u])' /\ (Ended(answer[u])' <=> Ended(answer[u]))
      BY <2>1, <3>1, <3>2 DEF Closed, Ended
    <3> QED
      BY <2>1, <3>1, <3>2, <3>3
  <2> QED
    BY <2>6, <2>7
<1>5. ASSUME NEW v \in Pair, SendMessageFails(v) \/ HandleMessageRead(v)
      PROVE  SameOrder /\ UNCHANGED <<got, answer>> /\ u \in online
  <2>1. UNCHANGED <<online, got, answer>>
    BY <1>5, Zenon DEF SendMessageFails, HandleMessageRead, clients
  <2> QED
    BY <1>5, <2>1, StepsKeepOrder
<1>6. ASSUME NEW v \in Pair,
             SessionEnds(v) \/ \E counted \in BOOLEAN : HandleLogin(v, counted)
      PROVE  /\ Closed(got[u])'
             /\ Ended(answer[u])' => got'[u] = Ids'
  <2>1. /\ got' = [got EXCEPT ![v] = {}]
        /\ answer' = [answer EXCEPT ![v] = NoAnswer]
        /\ online' = online \ {v} \/ online' = online \cup {v}
    BY <1>6, Zenon DEF SessionEnds, HandleLogin
  <2>2. SameOrder
    BY <1>6, StepsKeepOrder
  <2>3. CASE u = v
    BY <1>3, <2>1, <2>2, <2>3 DEF ChatTypeOK
  <2>4. CASE u # v
    <3>1. got'[u] = got[u] /\ answer'[u] = answer[u] /\ u \in online
      BY <2>1, <2>4 DEF ChatTypeOK
    <3> QED
      BY <1>2, <2>2, <3>1
  <2> QED
    BY <2>3, <2>4
<1>7. CASE UNCHANGED chatVars
  BY <1>2, <1>7 DEF chatVars, table, clients, SameOrder, Ids
<1> QED
  BY <1>1, <1>2, <1>4, <1>5, <1>6, <1>7 DEF ChatNext

LEMMA PagingHolds == ASSUME ChatAssumption PROVE ChatSpec => []Paging
<1>1. ChatInit => Paging
  BY DEF ChatInit, Paging, NothingSkipped, MoreIsOffered
<1>2. ChatTypeOK /\ Paging /\ [ChatNext]_chatVars => Paging'
  BY NextPaging
<1> QED
  BY <1>1, <1>2, TypeOKHolds, PTL DEF ChatSpec

\* A client that pages from what it has never misses a message between two it
\* has, whatever is sent meanwhile and whatever fails.
THEOREM NothingSkippedHolds == ASSUME ChatAssumption PROVE ChatSpec => []NothingSkipped
<1>1. Paging => NothingSkipped
  BY DEF Paging
<1> QED
  BY <1>1, PagingHolds, PTL

\* has_more is false only for a client that has everything, as MoreIsOffered
\* says it.
THEOREM MoreIsOfferedHolds == ASSUME ChatAssumption PROVE ChatSpec => []MoreIsOffered
<1>1. Paging => MoreIsOffered
  BY DEF Paging
<1> QED
  BY <1>1, PagingHolds, PTL
-----------------------------------------------------------------------------
(* The limit of GET_LATEST_MESSAGES.                                       *)

LEMMA GreatestId ==
  ASSUME ChatTypeOK, Ids # {} PROVE \E max \in Ids : \A i \in Ids : i <= max
<1> DEFINE T == {n \in Nat : \A i \in Ids : i <= n}
<1>1. \A i \in Ids : i \in Nat /\ 1 <= i /\ i <= lastId
  BY IdsFinite DEF ChatTypeOK
<1>2. T \subseteq Nat /\ lastId \in T
  BY <1>1 DEF ChatTypeOK
<1>3. PICK n \in T : \A m \in T : ~ (<<m, n>> \in OpToRel(<, Nat))
  BY <1>2, NatLessThanWellFounded, WFMin
<1>4. n \in Nat /\ \A i \in Ids : i <= n
  BY <1>3
<1>5. ASSUME n \notin Ids PROVE FALSE
  <2>1. ASSUME NEW i \in Ids PROVE i <= n - 1
    <3>1. i # n /\ i \in Nat /\ i <= n /\ n \in Nat
      BY <1>1, <1>4, <1>5
    <3> QED
      BY <3>1
  <2>2. n - 1 \in Nat
    <3>1. PICK i \in Ids : i \in Nat /\ 1 <= i /\ i <= n
      BY <1>1, <1>4
    <3> QED
      BY <1>4, <3>1
  <2>3. n - 1 \in T
    BY <2>1, <2>2
  <2>4. <<n - 1, n>> \in OpToRel(<, Nat)
    BY <1>4, <2>2 DEF OpToRel
  <2> QED
    BY <1>3, <2>3, <2>4
<1> QED
  BY <1>4, <1>5

LEMMA LatestWithoutGaps ==
  ASSUME ChatAssumption, ChatTypeOK, NoGaps PROVE LatestHonoursLimit
<1> SUFFICES ASSUME NEW limit \in Limits
             PROVE  Cardinality(LatestMessages(limit)) =
                      IF Cardinality(Ids) < limit THEN Cardinality(Ids) ELSE limit
  BY DEF LatestHonoursLimit
<1>1. limit \in Nat
  BY DEF ChatAssumption
<1>2. CASE Ids = {}
  <2>1. LatestMessages(limit) = {}
    BY <1>2 DEF LatestMessages
  <2>2. Cardinality(Ids) = 0 /\ Cardinality(LatestMessages(limit)) = 0
    BY <1>2, <2>1, FS_EmptySet
  <2> QED
    BY <1>1, <2>2
<1>3. CASE Ids # {}
  <2>1. PICK max \in Ids : \A i \in Ids : i <= max
    BY <1>3, GreatestId
  <2>2. \A i \in Ids : i \in Nat /\ 1 <= i
    BY IdsFinite DEF ChatTypeOK
  <2>3. max \in Int /\ 1 <= max /\ Ids = 1..max
    <3>1. max \in Nat /\ 1 <= max /\ 1..max \subseteq Ids
      BY <2>1, <2>2 DEF NoGaps
    <3>2. ASSUME NEW i \in Ids PROVE i \in 1..max
      BY <2>1, <2>2, <3>1, <3>2
    <3>3. Ids \subseteq 1..max
      BY <3>2
    <3>4. Ids = 1..max
      BY <3>1, <3>3, Zenon
    <3> QED
      BY <3>1, <3>4
  <2>4. LatestMessages(limit) = {i \in 1..max : i > max - limit}
    <3>1. \A m \in Ids : (\A j \in Ids : j <= m) <=> m = max
      BY <2>1, <2>2
    <3>2. \A i \in Ids : i \in LatestMessages(limit) <=> i > max - limit
      BY <3>1 DEF LatestMessages
    <3> QED
      BY <2>3, <3>2 DEF LatestMessages
  <2>5. Cardinality(Ids) = max
    BY <2>3, FS_Interval
  <2>6. CASE max < limit
    <3>1. LatestMessages(limit) = Ids
      BY <1>1, <2>3, <2>4, <2>6
    <3> QED
      BY <2>5, <2>6, <3>1
  <2>7. CASE limit <= max
    <3>1. LatestMessages(limit) = (max - limit + 1)..max
      BY <1>1, <2>3, <2>4, <2>7
    <3>2. Cardinality((max - limit + 1)..max)
          = IF max - limit + 1 > max THEN 0 ELSE max - (max - limit + 1) + 1
      <4>1. max - limit + 1 \in Int
        BY <1>1, <2>3
      <4> QED
        BY <2>3, <4>1, FS_Interval
    <3>3. Cardinality(LatestMessages(limit)) = limit
      BY <1>1, <2>3, <3>1, <3>2
    <3> QED
      BY <1>1, <2>3, <2>5, <2>7, <3>3
  <2> QED
    BY <1>1, <2>3, <2>6, <2>7
<1> QED
  BY <1>2, <1>3

\* GET_LATEST_MESSAGES returns as many messages as its limit says, or all there
\* are, as long as no id is missing: a rolled back INSERT is the only way to
\* the shorter answer that the run chat_latest_gap finds.
THEOREM LatestHonoursLimitWithoutGaps ==
  ASSUME ChatAssumption PROVE ChatSpec => [](NoGaps => LatestHonoursLimit)
<1>1. ChatTypeOK => (NoGaps => LatestHonoursLimit)
  BY LatestWithoutGaps
<1> QED
  BY <1>1, TypeOKHolds, PTL
-----------------------------------------------------------------------------
(* The refinement of Mailbox.                                              *)

LEMMA PlacesAreIds == MB!Places = Ids
BY DEF MB!Places

LEMMA UnreadMaps == ASSUME NEW u PROVE MB!Unread(u) = Unread(u)
BY DEF MB!Unread, MB!Places, Unread

LEMMA GaplessMaps == ASSUME NEW S PROVE MB!Gapless(S) <=> Closed(S)
BY PlacesAreIds DEF MB!Gapless, Closed

\* A step that touches nothing a user sees is a stutter of the mailbox.
LEMMA MailStutters ==
  ASSUME UNCHANGED <<rows, clients>> PROVE UNCHANGED MB!vars
BY DEF MB!vars, clients, Ids

LEMMA SendMails ==
  ASSUME ChatAssumption, ChatTypeOK, NEW u \in Pair, NEW time \in 0..MaxNow,
         HandleSendMessage(u, time)
  PROVE  \E i \in 1..MaxIds : MB!Send(u, i)
<1> DEFINE mail(row) == [sender |-> row.sender, read |-> row.read]
<1>1. /\ lastId' \in 0..MaxIds /\ lastId' = lastId + 1 /\ lastId \in Nat
      /\ Ids' = Ids \cup {lastId'}
      /\ rows'[lastId'] = [sender |-> u, sent_at |-> time, read |-> FALSE]
      /\ \A i \in Ids : i # lastId' /\ rows'[i] = rows[i]
  BY SendStores DEF ChatTypeOK
<1>2. PICK n \in 1..MaxIds : n = lastId'
  BY <1>1
<1>3. \A i \in Ids : i < lastId'
  BY SendGivesToAll
<1>4. mail(rows'[lastId']) = [sender |-> u, read |-> FALSE]
  BY <1>1
<1>5. \A i \in Ids : mail(rows'[i]) = mail(rows[i])
  BY <1>1
<1>6. [i \in Ids |-> mail(rows[i])]'
      = [i \in Ids \cup {lastId'} |->
           IF i \in Ids THEN [j \in Ids |-> mail(rows[j])][i]
           ELSE [sender |-> u, read |-> FALSE]]
  <2>1. ASSUME NEW i \in Ids \cup {lastId'}
        PROVE  mail(rows'[i]) = IF i \in Ids THEN [j \in Ids |-> mail(rows[j])][i]
                                ELSE [sender |-> u, read |-> FALSE]
    <3> HIDE DEF mail
    <3> QED
      BY <1>1, <1>4, <1>5
  <2> HIDE DEF mail
  <2> QED
    BY <1>1, <2>1
<1>7. /\ u \in online /\ got' = Given(u, lastId')
      /\ UNCHANGED <<online, answer, told, asked>>
  BY DEF HandleSendMessage
<1>8. MB!Send(u, n)
  BY <1>2, <1>3, <1>6, <1>7, PlacesAreIds DEF MB!Send, Given
<1> QED
  BY <1>8

\* What a client fetches continues what it has, and an answer that says there is
\* no more says the truth.
LEMMA FetchLearns ==
  ASSUME ChatAssumption, ChatTypeOK, Paging, Monotone, NEW u \in Pair, Fetch(u)
  PROVE  \E page \in SUBSET MB!Places, all \in BOOLEAN : MB!Learn(u, page, all)
<1>1. u \in online
  BY Zenon DEF Fetch, HandleGetLatestMessages, HandleGetHistory, FetchFails
<1>2. Closed(got[u])
  BY <1>1, PagingPerUser
<1>3. PICK page \in SUBSET Ids, a \in Answers :
        /\ got' = [got EXCEPT ![u] = @ \cup page]
        /\ answer' = [answer EXCEPT ![u] = a]
        /\ UNCHANGED <<table, online>>
        /\ Closed(got[u] \cup page)
        /\ (a.kind = "history" /\ ~a.more) => got[u] \cup page = Ids
  BY <1>2, FetchAdds
<1>4. UNCHANGED <<told, asked>>
  BY Zenon DEF Fetch, HandleGetLatestMessages, HandleGetHistory, Respond, FetchFails
<1> DEFINE all == a.kind = "history" /\ ~a.more
<1>5. [v \in Pair |-> answer[v].kind = "history" /\ ~answer[v].more]'
      = [[v \in Pair |-> answer[v].kind = "history" /\ ~answer[v].more]
           EXCEPT ![u] = all]
  BY <1>3 DEF ChatTypeOK
<1>6. UNCHANGED rows /\ Ids' = Ids
  BY <1>3 DEF table, Ids
<1>7. MB!Learn(u, page, all)
  BY <1>1, <1>3, <1>4, <1>5, <1>6, PlacesAreIds, GaplessMaps DEF MB!Learn
<1> QED
  BY <1>7, PlacesAreIds

LEMMA ReadMails ==
  ASSUME ChatTypeOK, NEW u \in Pair, HandleMessageRead(u) PROVE MB!Read(u)
<1> DEFINE mail(row) == [sender |-> row.sender, read |-> row.read]
<1>1. /\ rows' = MarkChatRead(u) /\ Ids' = Ids /\ u \in online
      /\ UNCHANGED <<online, got, answer, told, asked>>
  BY DEF HandleMessageRead, MarkChatRead, Ids, clients
<1>2. ASSUME NEW i \in Ids
      PROVE  mail(rows'[i]) = IF i \in Unread(u) THEN [mail(rows[i]) EXCEPT !.read = TRUE]
                              ELSE mail(rows[i])
  BY <1>1 DEF MarkChatRead, ChatTypeOK, Row
<1>3. [i \in Ids |-> mail(rows[i])]'
      = [i \in Ids |->
           IF i \in Unread(u) THEN [[j \in Ids |-> mail(rows[j])][i] EXCEPT !.read = TRUE]
           ELSE [j \in Ids |-> mail(rows[j])][i]]
  BY <1>1, <1>2
<1> QED
  BY <1>1, <1>3, PlacesAreIds, UnreadMaps DEF MB!Read

LEMMA LoginComes ==
  ASSUME ChatTypeOK, NEW u \in Pair, NEW counted \in BOOLEAN, HandleLogin(u, counted)
  PROVE  \E nothingUnread \in BOOLEAN : MB!Come(u, nothingUnread)
<1> PICK nothing \in BOOLEAN : nothing = (counted /\ ~(counted /\ Unread(u) # {}))
  OBVIOUS
<1>1. nothing => Unread(u) = {}
  OBVIOUS
<1>2. [v \in Pair |-> asked[v] /\ ~told[v]]'
      = [[v \in Pair |-> asked[v] /\ ~told[v]] EXCEPT ![u] = nothing]
  BY DEF HandleLogin, ChatTypeOK
<1>3. [v \in Pair |-> answer[v].kind = "history" /\ ~answer[v].more]'
      = [[v \in Pair |-> answer[v].kind = "history" /\ ~answer[v].more]
           EXCEPT ![u] = FALSE]
  BY DEF HandleLogin, NoAnswer, ChatTypeOK
<1>4. /\ u \notin online /\ online' = online \cup {u}
      /\ got' = [got EXCEPT ![u] = {}] /\ UNCHANGED rows /\ Ids' = Ids
  BY DEF HandleLogin, table, Ids
<1>5. MB!Come(u, nothing)
  BY <1>1, <1>2, <1>3, <1>4, UnreadMaps DEF MB!Come
<1> QED
  BY <1>5

LEMMA EndLeaves ==
  ASSUME ChatTypeOK, NEW u \in Pair, SessionEnds(u) PROVE MB!Leave(u)
<1>1. [v \in Pair |-> asked[v] /\ ~told[v]]'
      = [[v \in Pair |-> asked[v] /\ ~told[v]] EXCEPT ![u] = FALSE]
  BY DEF SessionEnds, ChatTypeOK
<1>2. [v \in Pair |-> answer[v].kind = "history" /\ ~answer[v].more]'
      = [[v \in Pair |-> answer[v].kind = "history" /\ ~answer[v].more]
           EXCEPT ![u] = FALSE]
  BY DEF SessionEnds, NoAnswer, ChatTypeOK
<1>3. /\ u \in online /\ online' = online \ {u}
      /\ got' = [got EXCEPT ![u] = {}] /\ UNCHANGED rows /\ Ids' = Ids
  BY DEF SessionEnds, table, Ids
<1> QED
  BY <1>1, <1>2, <1>3 DEF MB!Leave

LEMMA InitMails == ChatInit => MB!Init
<1> SUFFICES ASSUME ChatInit PROVE MB!Init
  OBVIOUS
<1>1. Ids = {} /\ rows = [i \in {} |-> {}]
  BY DEF ChatInit, Ids
<1>2. [i \in Ids |-> [sender |-> rows[i].sender, read |-> rows[i].read]]
      = [i \in {} |-> {}]
  BY <1>1
<1>3. [v \in Pair |-> answer[v].kind = "history" /\ ~answer[v].more]
      = [v \in Pair |-> FALSE]
  BY DEF ChatInit, NoAnswer
<1>4. [v \in Pair |-> asked[v] /\ ~told[v]] = [v \in Pair |-> FALSE]
  BY DEF ChatInit
<1> QED
  BY <1>2, <1>3, <1>4 DEF ChatInit, MB!Init

\* Each step maps to a step of the mailbox or a stutter.
LEMMA StepMails ==
  ASSUME ChatAssumption, ChatTypeOK, Paging, [ChatNext]_chatVars, Monotone'
  PROVE  MB!Next \/ UNCHANGED MB!vars
<1>1. ASSUME NEW u \in Pair, NEW time \in 0..MaxNow, HandleSendMessage(u, time)
      PROVE  MB!Next
  BY <1>1, SendMails DEF MB!Next
<1>2. ASSUME NEW u \in Pair, SendMessageFails(u) PROVE UNCHANGED MB!vars
  <2>1. UNCHANGED <<rows, clients>>
    BY <1>2 DEF SendMessageFails
  <2> QED
    BY <2>1, MailStutters
<1>3. ASSUME NEW u \in Pair, Fetch(u) PROVE MB!Next
  <2>1. Monotone
    BY <1>3, StepsKeepOrder, SameOrderSameHypotheses
  <2> QED
    BY <1>3, <2>1, FetchLearns DEF MB!Next
<1>4. ASSUME NEW u \in Pair, HandleMessageRead(u) PROVE MB!Next
  BY <1>4, ReadMails DEF MB!Next
<1>5. ASSUME NEW u \in Pair, NEW counted \in BOOLEAN, HandleLogin(u, counted)
      PROVE  MB!Next
  BY <1>5, LoginComes DEF MB!Next
<1>6. ASSUME NEW u \in Pair, SessionEnds(u) PROVE MB!Next
  BY <1>6, EndLeaves DEF MB!Next
<1>7. CASE UNCHANGED chatVars
  BY <1>7, MailStutters DEF chatVars, table
<1> QED
  BY <1>1, <1>2, <1>3, <1>4, <1>5, <1>6, <1>7 DEF ChatNext

\* The chat implements the mailbox as long as the clock is not set back: what a
\* client holds, what has_more says and what a login announces are what a user
\* may rely on, whatever queries fail and whatever is sent between the pages.
THEOREM ImplementsMailboxHolds == ASSUME ChatAssumption PROVE ChatSpec => ImplementsMailbox
<1>1. ChatInit => MB!Init
  BY InitMails
<1>2. ChatTypeOK /\ Paging /\ [ChatNext]_chatVars
        => [Monotone' => MB!Next \/ UNCHANGED MB!vars]_chatVars
  BY StepMails
<1> QED
  BY <1>1, <1>2, TypeOKHolds, PagingHolds, PTL DEF ChatSpec, ImplementsMailbox

\* The same as an implication of specifications: a chat whose clock never goes
\* back is a mailbox.
THEOREM MonotoneChatIsMailbox ==
  ASSUME ChatAssumption PROVE ChatSpec /\ []Monotone => MB!Spec
<1>1. ChatInit => MB!Init
  BY InitMails
<1>2. ChatTypeOK /\ Paging /\ Monotone' /\ [ChatNext]_chatVars => [MB!Next]_(MB!vars)
  BY StepMails
<1> QED
  BY <1>1, <1>2, TypeOKHolds, PagingHolds, PTL DEF ChatSpec, MB!Spec
=============================================================================
