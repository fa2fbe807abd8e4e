# JupiterServer in TLA+

JupiterServer is a chat server: one Qt process that listens on TCP port 1234, speaks JSON
messages, and keeps users, friend lists, invitations and chats in MySQL. This directory
models the parts of it in which order, failure and time matter, checks them with TLC, and
proves the most important results with TLAPS for every number of users, sessions,
invitations and every timing. Paths below are relative to the repository.

## The system

| Component | State | Operations | Interacts with |
|---|---|---|---|
| Server (`src/server/Server.cpp`) | `m_clientSessions`, socket to session | `start`, `stop`, `handleNewConnection`, `handleClientDisconnected` | creates sessions |
| ClientSession (`src/server/ClientSession.cpp`) | `userId`, `isAuthenticated`, `state`, `buffer`, `lastPingTime`, `missedPings`, two running timers | one handler per message type, `handleError`, `checkConnectionStatus`, `sendFriendsStatusUpdate` | database, registry, other sessions |
| ActiveSessions (`src/server/ActiveSessions.h`) | user id to session | `addSession`, `removeSession`, `getSession` | read by handlers that push to another user |
| DatabaseManager (`src/database/DatabaseManager.cpp`) | one connection handle shared by all sessions; the MySQL tables | authentication, registration, status, friends, invitations, chats | MySQL |
| Protocol (`src/network/Protocol.*`) | none | message types, timeouts, builders | all |
| main (`src/main.cpp`) | none (it rewrites the tables at every start) | `fillTestData`, start-up | database, server |
| ConnectionManager, NotificationService, NotificationManager | | not built or not used by the server | |

All handlers and timers run in one event loop and never overlap. What is hard is elsewhere:

* **Transactions that are not.** `QSqlDatabase::transaction()` is MySQL's `BEGIN`, which
  commits an open transaction; `CREATE TABLE` commits too. `acceptFriendInvitation` calls
  `addFriend`, which calls `createFriendsList`, and each of them begins and commits, so the
  outer rollback cannot undo what went before.
* **Two copies of an invitation**, one in a table of the sender and one of the receiver,
  related only by the other user and `created_at`, a time stamp of whole seconds.
* **Requests of several users in any order**: crossed invitations, cancel against accept,
  a removal while an invitation is pending.
* **Sessions against users**: several sessions of one user, one session of several users in
  turn, logins that fail half-way, sessions that end without being unregistered.
* **Time**: a heartbeat driven by a coarse timer and judged by the wall clock.
* **A byte stream**: messages arrive in pieces, and `processBuffer` finds their ends by
  counting braces, those inside texts too. PONGs wait in the same buffer.
* **Starts and crashes**: every start deletes and refills the tables in what looks like one
  transaction but is none, and goes on whatever became of it.
* **A shared connection** to the database, replaced whenever a client connects.

## What makes each component correct

* Invitations: the two copies agree on whether the invitation is pending; an answer is final;
  a request settles only what it names; friendship is symmetric and was accepted; an error
  changes nothing, or tears no more than the invitation it names; the right user is notified.
* Sessions: whoever is shown online is there; messages reach a connection of their receiver;
  updates go exactly to sessions that are logged in.
* Heartbeat: live clients are kept, silent ones dropped, both within bounds.
* Chat: pages leave nothing out whatever arrives between them, `has_more` ends the paging only at
  the end, a message is read exactly if its receiver said so, and unread ones are announced.
* Framing: the messages dispatched are those sent, in order, however the stream is cut, and nothing
  else but empty objects that stand in texts; texts with stray braces cost no more than their own
  message and, if they leave one open, those behind.
* Framing with Heartbeat: a client that answers is dropped only if it left a brace open.
* Accounts: a start without failing statements restores the initial data from any state; only
  users told of a failed registration lack tables; friends were made, or are known left-overs.
* Handles: the shared member always refers to a connection that was opened; once it is
  broken, only a new or re-cloned connection repairs it.

`PROJECT.json` lists the hazards line by line with the properties that cover each.

## Modules

| Module | What it is |
|---|---|
| `FriendGraph` | abstract specification: invitations settled at most once, and a symmetric friend relation that grows only by acceptance |
| `Invitations` | the handlers and database methods of invitations and friend lists |
| `InvitationsProofs`, `InvitationsRefinement` | theorems about `Invitations` |
| `Sessions` | connections, logins, the registry, `users.status`, pushes |
| `SessionsProofs` | theorems about `Sessions` |
| `Heartbeat` | one session's pings |
| `Mailbox` | abstract specification of a chat: a user knows a gapless last stretch of the messages, and is told that this is all, or that nothing is unread, only if it is so |
| `Chat` | the message table of a pair, its handlers, and what each client has been given |
| `ChatProofs` | theorems about `Chat` |
| `Framing` | `processBuffer` as a function of the buffer, and a reader of single bytes as its reference |
| `FramingProofs` | `processBuffer` against its reference, and lemmas on frames |
| `Stream` | `Framing` fed by TCP in pieces of any length |
| `StreamProofs` | theorems about `Stream` |
| `Connection` | `Framing` and `Heartbeat` composed: PONGs come through the buffer |
| `HeartbeatProofs` | theorems about `Heartbeat` and `Connection` |
| `Accounts` | users, tables and counters across starts, crashes and registrations |
| `Handles` | the sessions' database connections and the member they share |
| `AccountsProofs` | theorems about `Accounts` and `Handles` |
| `MCInvitations`, `MCSessions`, `MCHeartbeat`, `MCChat`, `MCAccounts` | instances for TLC |

`MCHeartbeat` checks `Heartbeat` and `Stream`, `MCChat` checks `Chat` and `Connection`, `MCAccounts`
checks `Accounts` and `Handles`. The two parts of one such run share no state: a variable `part`
chooses one of them in the initial state and the other never moves, so that the run visits the sum
of their states and not the product; `Connection` is apart from `Heartbeat` because it needs other
constants. `Stream` extends `Framing`; `Connection` extends `Framing` and `Heartbeat`; `Chat`
instantiates `Mailbox`, and `Invitations` `FriendGraph`.

### Invitations

`sent` and `recv` stand for all `user_<x>_sent_invitations` and
`user_<x>_received_invitations` tables: row `n` of both was inserted by the `n`-th request.
The code does not know `n` across tables, so the actions never use it for that: `Matching`
selects rows by users and second, as the `UPDATE ... WHERE to_user_id = ? AND created_at = ?`
does. The `request_id` a client sends is the row of its own table. `friends[u][v]` counts the
rows of `user_<u>_friends` that name `v`, because those tables have no key (except those of
`KeyedUsers`, which `main.cpp` creates with one). `reply` is the last answer and who was
notified with it.

A handler is one action, because nothing runs in between. How far a database error lets it
get decides between actions: `AcceptFriendInvitation` (all statements succeed),
`AcceptRolledBack` (it fails before the first implicit commit), `AcceptTornApart(n, added)`
(it fails after it, with `added` friend rows inserted). Reject, add and remove are one real
transaction each. Cancel commits in `updateBothInvitationStatuses`; the caller's commit after
that can only report failure (`CancelReportedFailed`). `DbFailures` says whether statements
may fail; a `KeyClash` fails an INSERT in any case. We assume that a COMMIT that reports an
error has not committed, and that a DELETE or UPDATE is repeated by nobody.

`Straddle` lets the second change between the two INSERTs of a request. Other statements of
one handler do not store a time, so the clock ticks between handlers only. We assume that the
database's clock never goes back here: where two requests of a pair got seconds in the wrong order, an
older invitation could be taken for a newer one. (`Chat` makes no such assumption.)

Not in the model: requests for invitations the client has no row of (they fail and change
nothing) and `updateInvitationStatus` and `checkPendingInvitation`, which nothing calls.

### Sessions

One element of `Sessions` is one accepted socket with its `ClientSession`. `sessions` is the
registry; no action removes from it, as in the running server: `removeSession` is called by
the destructor only, the session is a child of its socket, and nobody deletes a socket before
the server ends. `HandleError` stands for a close by the client: the socket's error signal,
which sets the user offline, followed by `disconnected`. `DropSilentClient` is the other end
of a connection: `disconnectFromHost` raises no error, and only `handleClientDisconnected`
runs. `PushTo` stands for any handler that asks the registry for another user's session and
writes to it; a write to a socket that is closed is lost. `LoginFails` leaves the id of the
user whose password did not match in `userId`, since `authenticateUser` takes that member by
reference and assigns it before it compares.

`loggedIn`, `mistried` and `abandoned` are history variables for the properties. Database
errors are left out here. `CHECK_DEADLOCK FALSE` is set because the bounded set of
connections may be used up.

### Heartbeat

`phase` is the time since the last timeout of `pingTimer`, `age` what
`currentTime - lastPingTime` evaluates to, `quiet` the time that really went by, `owed` how
long the client has owed a PONG. A check may run anywhere between `PING - Jitter` and
`PING + Jitter` after the one before: `Tick` is disabled beyond that. The jitter covers
Qt's coarse timer (5 percent) and a loop kept busy by synchronous queries for less than
`Jitter`. A live client answers a ping within `Delay`. `ClockJump` sets the wall clock.
Messages other than PING and PONG do not touch any of this, as in the code.

### Chat

`rows` is the table `chat_X_Y` of one pair (`getChatTableName` orders the ids, so that there
is one), `lastId` its AUTO_INCREMENT counter, which a rollback does not take back:
`SendMessageFails` may use an id up, and may leave a new empty table. `sent_at` is any time at
each INSERT, because the database's clock may be set. `got` is what a client was given in its
session: the messages it sent, those pushed to it and those of the pages it fetched.
`ChatHistory(offset)` is the query with LIMIT and OFFSET as the rank of a row in the order
`Before`; `LatestMessages(limit)` is the one that computes with ids. `FetchFails` is a fetch
one of whose queries fails, which the code answers without an error.

`Mailbox` knows neither tables nor pages. `Chat` implements it with the rows without their times
as messages, `got` as what a user knows, a page of the history without `has_more` as the promise
that there are no others (`complete`), and a login that was asked about the chat and does not name
it as the promise that nothing is unread (`assured`).

The client is not part of the repository. We assume of it that it asks for history at an
offset no greater than the number of messages it has; any offset up to that, and any order
of requests, is allowed. A user has one session here, registered from login to end; what
happens with several is in `Sessions`. Who is a friend at a login is left open (`counted`).
A message to someone for whom no account exists, and an empty message, change no rows.
`HandleSendMessage` and the fetches are one action each, as one event loop runs them.

### Framing, Stream, Connection

A byte is one of six tokens: the braces around a message, the braces inside a text, a space of a
text, and everything else. `processBuffer` cannot tell the two kinds of braces apart and neither can
`Opens` and `Closes`; the properties need the difference, and so does `Parses`, which says
whether the frame that was cut out is valid JSON. A whole message is (`IsMessage`). Of what is cut out of a
text only an object without members is (`IsEmptyObject`): `{}`, or with spaces between the braces,
since a member needs a quote, which is escaped in a text. So for the text `}{}` the frame
`{}` reaches `processMessage`. A frame that mixes parts of several messages is not valid either: it has an
escape outside a string, or a string that nothing valid follows. `Turn` is one turn of the
do-while loop, and `ProcessBuffer` a recursive function of the number of turns: a turn that finds
a frame shortens the buffer, so there are no more turns than bytes, and a turn that finds none changes nothing.
Bytes before the first brace stay in the buffer until a message is found behind them, as in
the code. A frame that does not parse is dropped there without an answer, so the answer "Invalid JSON
format" of `processMessage` is never sent. An empty object has no type: `processMessage` answers it with
"Not authenticated" or with an unknown message type, and changes nothing, so `Stream` records it in `dispatched` and
`Connection` ignores it. Escaped quotes and nested objects need no token of their
own: the code does not look at quotes, and nested objects are balanced.

`Stream` sends messages and lets any number of bytes arrive per `readyRead`. `Connection` puts
`Heartbeat` behind that: a PONG counts when `ProcessBuffer` finds it, so that nothing is assumed
about a PONG's being heard, only about its arrival. `CheckSendsPing` puts the PONG of a live
client on the wire together with the ping it answers, and the time that ping, client and PONG take
is spent there: `pongs` holds, for each PONG on the wire, the time since its ping and where on
the wire it ends, and `TimePasses` is disabled when one of them is `Delay` old. One PONG may
answer several pings. The client sends no PINGs in `Connection`, because a PING that is heard
could only hide a PONG that is not. `Stalled` is a buffer in which another message has begun
behind the first open brace.

### Accounts

`step` is the position in `main` and `fillTestData`; the parts between two steps are actions of
their own because the process may be killed there (`Crash`), and each may stop at any
statement (`m`, `n`, `begun` say after how many). Since the first DROP commits what
`fillTestData` began, nothing is ever rolled back. Cleaning statements that fail are logged
and passed over (`Kept`, `DeleteUsersFails`, `ResetCounterFails`); the others throw, and the server then
starts with whatever there is (`Proceed`). `ALTER TABLE ... AUTO_INCREMENT = 1` is MySQL's:
it sets the smallest value above all ids. Foreign keys are off while users are deleted; they
do not delete the friend rows that name them.

`registerUser` begins; `createFriendsList` begins again, which commits the row of `users`. So it
either fails before that (`RegisterRolledBack`: an id is used up) or leaves at least the user
(`RegisterTornApart`). `AcceptFriendInvitation`, `RemoveFriend` and `StoreMessage` are what the
handlers modelled in `Invitations` and `Chat` do to the same tables, in brief, so that a start
finds something to clean; their failures are treated there. `failed`, `torn`, `met` and
`leftover` are history variables.

### Handles

The server owns one `DatabaseManager`, distinct from the one of `main`. Its member `database` is
what all queries of all sessions use, and `cloneConnection` sets it to the connection of the
newest session. `handleLogin` checks the session's own connection, and
`QSqlDatabase::database(name)` opens a closed one as it is asked for it. That a connection was closed by MySQL is
unknown to Qt (`lost`), which is why the check finds it open. What a query that does not
reach the database means is in the other modules, as a failing statement.

## Runs

| Run | What it shows |
|---|---|
| `invitations_failures` | 2 users, strangers at first, 3 requests, 3 different seconds, failing statements, straddled INSERTs, one keyed friends table. Both copies stay pending together (`PendingAgree`), settled ones stay settled, copies diverge in status only through a resend within the second, nobody becomes a friend without an acceptance, and an error leaves at most the invitation it names torn, with one more friend row on each side (`ErrorTearsOnlyNamed`). The inductive invariant of the proofs is checked too. |
| `invitations_three` | 3 users, 3 requests, nothing fails. A request settles only the invitation it names and never fails on one that exists intact, friendship stays symmetric, a friend is listed at most twice and less often while an invitation waits, `FriendGraph` is implemented. |
| `sessions` | 2 users, 2 connections, all orders of logins (right, wrong, unknown), logouts, status updates, pushes, closes and drops. |
| `heartbeat` | `Heartbeat`: the intervals of `Protocol.h` in seconds, jitter 1 s, answers within 17 s, the clock set back 15 s or forward 40 s up to twice between answers. `Stream`: three messages with texts of six kinds (no brace, nested braces, an opening one, a closing one, both in the wrong order, and a closing one before two empty objects), cut in every way: the result does not depend on the cuts, nothing is dispatched but what was sent and empty objects in texts, and loss stays within the texts that cause it. |
| `accounts` | `Accounts`: two test users who are friends, one id beyond them, one name, two starts, a friendship or a chat per start, failures and crashes anywhere. `Handles`: three sessions, MySQL stopping, starting and closing connections. |
| `chat` | 2 users of whom one fetches, a batch of 2, limits 1 and 2, 3 INSERTs at 2 times, failing statements and queries. Nothing is skipped, `has_more` is kept, read marks are exact, unread messages are announced, `Mailbox` is implemented. `Connection`: two texts with a stray brace besides the PONGs, the clock set forward once: a client that answers and leaves no brace open is kept; a stalled stream ends in a drop. |
| `invitations_duplicate` | expected violation: crossed invitations, both accepted, list each friend twice. |
| `invitations_torn` | expected violation: an accept that fails inside leaves the tables changed. |
| `invitations_wrong_cancel` | expected violation: the wrong user is told of a cancellation. |
| `invitations_no_accept_push` | expected violation: the sender never hears of an acceptance. |
| `sessions_stale_push` | expected violation: messages for a user go to a session that has become another user's. |
| `chat_latest_gap` | expected violation: with an unused id, fewer messages than the limit are returned although there are more. |

**Why the bounds are enough.** What goes wrong with invitations needs two invitations of one
pair in one direction (same or neighbouring seconds), two crossed ones, or two of one sender
to different receivers; three rows allow each of them with one more after it, and three
seconds allow before, same and after. Three users add the bystander. In `Sessions` the
hazards are a session over time (login, other login, logout) and two sessions of a user;
both fit in two sessions and two users. In `Chat`
three messages are more than a batch, can lie before, in and after a gap, and can arrive
before, between and after two fetches; the second user fetches nothing, as the other's
requests change nothing a fetch depends on, and the theorems have no such bounds. The heartbeat's numbers are the real ones; its
state is bounded since every silent client is dropped. In `Stream`, three messages are one
before, one with stray braces and one after; longer texts add only braces between the same
two. `Connection` needs small intervals, because every byte may arrive at every time: a check
every 2 units, late after 3, keeps the relation of `Protocol.h` in which a client misses three
checks, and answers may take 3, in which a second ping is sent; setting the clock forward by 4 makes
any check late. In `Accounts`, what is left over shows at the second start, and one id above the test
users shows what is inherited; test users who are no friends of others, and more ids, are
covered by the theorems. In `Handles`, two sessions and a bystander.

**Fairness.** Time passes (`WF(Tick)`) and a due timeout is delivered
(`WF(CheckConnectionStatus)`), which Qt's event loop does as long as it runs; `SilentIsDropped`
uses no more and assumes nothing of the client. The bound `MaxJumps` matters there: a wall clock
set back again and again keeps a silent client for ever. `NestedAreDispatched` also needs that
bytes sent arrive and are read, which TCP and the event loop provide: it is stated as
`WF_wire(Arrive)`, on the wire alone, so that nothing is assumed about what the code does with
them. `Connection` assumes the same while the client lives, with `WF(TimePasses)` and
`WF(CheckSendsPing)`. That a live client answers within `Delay` is not fairness but a bound on
time there as in `Heartbeat`.

## Proofs

`InvitationsProofs` holds for any users, friends, keyed tables, failures and bounds
(`InvitationsAssumption`: initial friendship is symmetric and irreflexive). That the copies
are pending together is not inductive alone: cancel finds the receiver's copy by second, and
might hit another. `IndInv` adds what excludes that: both copies name the same two users
(`SamePeople`), seconds grow along the rows (`Ordered`), and a pending invitation is the
last of its pair (`LastIsPending`). So a pending copy found by an accept, a reject or a cancel in the
right second is always the right one. From it follow:

* `IndInvHolds`, `PendingAgreeHolds`, `OnePendingHolds`: invariants;
* `RecvSettledHolds`, `SettlesOnlyNamedHolds`: no step changes a settled received row, nor
  settles a pending row it does not name.

`InvitationsRefinement` assumes that no statement fails and shows `FriendshipSymmetricHolds`
and `Refinement`: `Invitations` implements `FriendGraph` with the received rows as
invitations and the existence of friend rows as friendship. It covers keyed tables: an
accept refused by a key is a complete acceptance for the graph, as both are friends already.

`HeartbeatProofs` holds for all intervals with `Delay < 2 * (PING - Jitter)`. `IndInv`
says, per number of missed pings, how old the last answer was when the last check ran
(`Counted`), what a live client owes since (`StillOwed`) and how long it has been quiet
(`StillQuiet`). `LiveClientKeptHolds` needs no clock: three misses in a row span two
intervals in which a PONG is owed. `DroppedOnlyAfterSilenceHolds` and `DetectedInTimeHolds`
give the bounds; with the real values a silent client is dropped after 48 to 63 seconds
rather than the 30 of `Protocol.h:24`.

`ChatProofs` holds for any batch size, limits and number of messages. `ChatTypeOK`
carries that ids are at most `lastId`. `NothingSkipped` is inductive with it: what a client has
is closed under later messages (`Closed`); a new message is later than all and given to every
session, and a page that starts at an offset no greater than the size of such a set continues
it, because a missing message would have all of the set after it, hence a rank of at least that
size (`HistoryContinues`, by cardinalities). `MoreIsOffered` needs it to conclude that a last
page leaves no message out. Both properties assume that the clock was not set back between two messages
(`Monotone`). On the same invariant rests the refinement: `ImplementsMailboxHolds` takes each step that
leaves `Monotone` true to one of `Mailbox` or a stutter (`SendMails`, `FetchLearns`, `ReadMails`,
`LoginComes`, `EndLeaves`), and `MonotoneChatIsMailbox` states it as an implication of the two
specifications. `LatestHonoursLimitWithoutGaps` shows that missing ids are the only reason for what
`chat_latest_gap` finds: without them, `get_latest_messages` returns as many messages as the limit says.

`InvitationsProofs` also proves `TypeOK` and `DivergeOnlyInSameSecond`: an accept changes, besides
the row it names, only sender's copies of the same pair and second, and those come before it
(`LastIsPending`, `Ordered`). `InvitationsRefinement` proves `FriendsWereAccepted` without the
assumption that statements succeed: the first implicit commit of an accept writes the
status of the received row before any friend row. `SettleSucceedsHolds` assumes that no statement
fails: the copies name the same people (`SamePeople`) and are pending together, so that the second of one
finds the other, and no request finds nothing to settle.
The assumption is needed: `invitations_torn` shows what failing statements do, and a key does what they do.

Two more theorems of `InvitationsRefinement` say how bad the findings of `invitations_duplicate` and
`invitations_torn` can get:

* `ListedAtMostTwiceHolds`: without failing statements a friends table never names a friend more than
  twice, however many requests there are. Inductive with it is that a friend for whom an invitation waits is
  listed at most once, and not at all while two that cross wait: requests are made between strangers, and each
  acceptance uses an invitation up.
* `ErrorTearsOnlyNamedHolds`: with any failing statements and any keys, a request that reports an error changed
  nothing, or it settled the pending invitation that its client named, in both tables and with the same status.
  No other received row changes, and no other sender's row but settled ones of the same pair. An accept
  added at most one friend row on each side, of the two users of that invitation, and
  at most their chat; a cancel did neither. The property is checked in `invitations_failures` too.

`SessionsProofs` holds for any users and sessions. Its invariant `Inv` adds to the properties what
the registry and the sessions know of each other: an entry names a session that logged in as that
user, and whoever ever logged in has an entry (`Registered`); a session's user id came from a login,
right or wrong (`Held`); nothing sets the user of a session with no rival offline but its own
requests (`LoneOnline`). `StrayPushesExplained` bounds what `sessions_stale_push` finds: a message that does not
reach its receiver goes to a connection on which the receiver logged in before, and which was logged out
since or on which another account was tried. So no message is ever written to a connection of someone who never gave the
receiver's password.

`AccountsProofs` holds for any numbers of test users, friends among them, ids, starts, events and
failing DROPs. `AccountsInv` says for each step what the start has achieved if nothing failed
(`Restoring`), so that a crash needs no case: the next start begins with knowing nothing.
`StartRestores` is its last step. `FriendsMadeOrInherited` and `OnlyTornIncomplete` are
conjuncts, since clients go on from there. The proof showed an assumption that main.cpp meets
tacitly: at least two test users are friends (`Friendly \in 2..NTest`); with a single one no `addFriend`
would create that user's friends table.

`AccountsProofs` also holds the theorems about `Handles`, for any sessions: `HandlesInv`, which is `MemberWasOpened` with the types, is inductive, because a
connection is removed only if it is closed, and the member's is not. `OnlyCloneHeals` follows from its steps.

`FramingProofs`, `StreamProofs` and the second half of `HeartbeatProofs` hold for any set of texts
over the tokens of a text, of any length and number. `ProcessBuffer` and `ReadFrom` are recursive functions, of the
turns and of the bytes. The induction theorems of the library take an operator as a parameter;
`FramingProofs` therefore states induction for a set of numbers (`Induction`, `InductionUpto`) and derives
from the least element of its complement what a recursive function is (`Recursion`). On
that rest:

* `ProcessBufferReads`: for any buffer, `processBuffer` finds the messages that a reader of single
  bytes finds, and keeps that reader's unfinished frame. One turn is one frame read (`TurnReads`); a beginning
  of a frame is one because its brace count stays positive (`FrameFound`, `BalanceStaysPositive`).
* `StreamInvHolds`: bytes that arrived and bytes on the wire make up what was sent, no whole frame is left
  in the buffer, and `CutIndependent`. It is inductive because a reader may stop anywhere
  and go on (`ReadConcat`), which `processBuffer` does at every cut.
* `DispatchedWereSentHolds`: a message that is read adds itself, or else empty objects of its text
  (`MessageReads`). A part of a message that parses is all of it or such an object
  (`PartParses`); and if the reader is inside an earlier frame, that frame will not parse, because it holds a
  message's brace inside (`SpoiltDoesNotParse`, `SpoiltStays`).
* `LossIsLocalHolds`: a harmless text leaves the reader with nothing begun, and then a nested one is
  dispatched (`NestedIsRead`, `HarmlessUpto`). Its place is counted among the messages, since empty objects of earlier
  texts may come before it.
* `NothingLostHolds`: while all texts are nested and the wire is empty, everything sent was dispatched, which
  is what `NestedAreDispatched` promises once the wire has been read.
* `ConnectionInvHolds`: besides the types (`BufferInv`), as long as no text leaves a brace open, the wire would be read to
  its end with nothing left open, every PONG on it will be heard when its last byte is read (`PongAt`), and one of them
  is at least as old as the ping that is owed an answer (`Answering`). A cut inside a PONG leaves this
  true, since it is said of the unfinished frame and the wire together.
* `ImplementsHeartbeat`: hence every step is one of `Heartbeat` as long as no text leaves a brace open: a PONG
  that is heard is heard in time. `AnsweringClientKeptHolds` is `LiveClientKept` carried over.

**Only model-checked:** the liveness properties `SilentIsDropped`, `NestedAreDispatched` and
`StalledIsDropped`: liveness under fairness is out of the prover's reach. Of the second,
`NothingLostHolds` proves what remains when the wire has been read; of the first, `DetectedInTimeHolds`
the bound on time. The other 37 properties of the passing runs are all theorems, with the
assumptions named above.

## What the violations say about the code

1. Friend lists may name a friend twice (`NoDuplicateFriends`), against the primary key of
   `scripts/initDatabase.sql`. For users 4 to 6 the key exists and the second accept ends
   half-way instead.
2. An accept that fails after its first `addFriend` began is reported as failed and not undone
   (`ErrorChangesNothing`).
3. `getFriendRequestTargetUserId` ignores the request id (`CancelNotifiesReceiver`).
4. The notification of an acceptance is dead code (`AcceptNotifiesSender`).
5. The registry outlives logout and relogin (`PushReachesReceiver`).
6. `get_latest_messages` takes the limit for a distance of ids (`LatestHonoursLimit`); after a
   rolled back INSERT it returns too few messages, and `has_more` may be false nevertheless.

Seen while modelling, and shown by what the passing runs must allow rather than by a violation:

7. A text with a surplus opening brace makes `processBuffer` wait for a closing one: later
   messages and PONGs are not seen, and the heartbeat drops a client that answers every ping
   (`AnsweringClientKept` and `ImplementsHeartbeat` hold only with the exception of such texts). A text with
   braces in the wrong order loses its own message, silently: invalid JSON is dropped
   before `processMessage` could answer "Invalid JSON format". If such a text has an empty object
   after a brace that closes the message, as in `}{}`, that object is processed as a message of its own, and the
   client gets an error for something it never sent (`DispatchedWereSent` has to except it).
8. A start drops the friends tables of users 1 to 6 only. A user who registers later and gets an
   id above 6 that was in use before the restart inherits that user's friend rows
   (`FriendsMadeOrInherited` holds only with the exception of such ids).
9. A registration that fails inside is reported as failed, and the name stays taken
   (`OnlyTornIncomplete` names those users as the exception).
10. When the shared connection breaks, a login does not repair it, although its log says that
    it attempts to: it looks at another connection (`OnlyCloneHeals`).
11. A message to an id nobody has is stored, and the chat is there for who gets that id.

## Not modelled, and why

ConnectionManager and NotificationService are not in `CMakeLists.txt`; NotificationManager is
a client's signal hub that the server never creates; `scripts/initDatabase.sql` is never run;
`Protocol.cpp` builds JSON objects and has no state, and the server never consults
`isMessageAllowedInState`. `user_sessions` is never created: its statement is commented out. The destructors of sessions and of
`DatabaseManager`, and `Server::stop`, run only when the process ends. `searchUsers` and the
getters of invitations read and change nothing. Message texts, names,
passwords and hashes are data that no property tells apart.

## Plan

Done: all modules above with their runs and theorems. What would come next:

1. `Mailbox` for users with several sessions, with `Chat` and `Sessions` together as its
   implementation; `StrayPushesExplained` says what it would have to except.
2. Database errors in `Sessions`: a status that is not written, by composing it with `Handles`.
3. Should the framing learn about strings in JSON, `Harmless` and `Nested` disappear from
   the properties of `Stream` and `Connection`, and nothing else changes.
