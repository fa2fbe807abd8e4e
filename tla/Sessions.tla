----------------------------- MODULE Sessions ------------------------------
(***************************************************************************)
(* Connections, logins and presence: ClientSession, the ActiveSessions     *)
(* registry, the Server that creates sessions, and users.status.           *)
(*                                                                         *)
(* Every TCP connection gets a ClientSession.  A login writes the user's   *)
(* id into the session, registers the session for that user and sets the   *)
(* user online; handlers that must reach another user (a chat message, a   *)
(* removed friend, a cancelled invitation) ask the registry.  Nothing ever *)
(* takes a session out of the registry while the server runs: the          *)
(* destructor that would is not reached, because the sockets that own the  *)
(* sessions are not deleted before the server is.                          *)
(*                                                                         *)
(* Handlers are atomic, there is one event loop.  Database errors are not  *)
(* modelled here: every status is written.                                 *)
(***************************************************************************)
EXTENDS Integers

CONSTANTS
  Users,       \* the accounts of the `users` table
  Sessions,    \* the connections the server may accept, one ClientSession each
  NoUser,      \* the user id 0
  NoSession,   \* the nullptr that getSession returns for an unknown user
  InitOnline,  \* users the test data starts with status online
  Chosen       \* the statuses, lower case, clients ask for with STATUS_UPDATE

UserStatuses == {"online", "offline", "away", "busy"}

ASSUME SessionsAssumption ==
  /\ NoUser \notin Users
  /\ NoSession \notin Sessions
  /\ InitOnline \subseteq Users
  /\ Chosen \subseteq STRING

VARIABLES
  socket,     \* not yet accepted, connected, closed by the client, or dropped
  userId,     \* the session's userId member
  isAuthenticated,
  state,      \* the session's state member
  updating,   \* is the session's statusUpdateTimer running?
  clients,    \* Server::m_clientSessions
  sessions,   \* ActiveSessions::sessions
  status,     \* users.status
  push,       \* the last message pushed to another user, and through what
  loggedIn,   \* history: the users that logged in on the session
  mistried,   \* history: the users a failed login of the session named
  abandoned   \* history: the users the session was logged in as when it took
              \* another user's id without a logout

members == <<userId, isAuthenticated, state, updating>>
history == <<loggedIn, mistried, abandoned>>
vars == <<socket, members, clients, sessions, status, push, history>>

NoPush == [to |-> NoUser, via |-> NoSession, reached |-> FALSE]

TypeOK ==
  /\ socket \in [Sessions -> {"new", "connected", "closed", "dropped"}]
  /\ userId \in [Sessions -> Users \cup {NoUser}]
  /\ isAuthenticated \in [Sessions -> BOOLEAN]
  /\ state \in [Sessions -> {"initial", "authenticated"}]
  /\ updating \in [Sessions -> BOOLEAN]
  /\ clients \subseteq Sessions
  /\ sessions \in [Users -> Sessions \cup {NoSession}]
  /\ status \in [Users -> UserStatuses]
  /\ push \in [to : Users \cup {NoUser}, via : Sessions \cup {NoSession},
               reached : BOOLEAN]
  /\ loggedIn \in [Sessions -> SUBSET Users]
  /\ mistried \in [Sessions -> SUBSET Users]
  /\ abandoned \in [Sessions -> SUBSET Users]

Init ==
  /\ socket = [s \in Sessions |-> "new"]
  /\ userId = [s \in Sessions |-> NoUser]
  /\ isAuthenticated = [s \in Sessions |-> FALSE]
  /\ state = [s \in Sessions |-> "initial"]
  /\ updating = [s \in Sessions |-> FALSE]
  /\ clients = {}
  /\ sessions = [u \in Users |-> NoSession]
  /\ status = [u \in Users |-> IF u \in InitOnline THEN "online" ELSE "offline"]
  /\ push = NoPush
  /\ loggedIn = [s \in Sessions |-> {}]
  /\ mistried = [s \in Sessions |-> {}]
  /\ abandoned = [s \in Sessions |-> {}]

\* A message of type other than PING and PONG that processMessage lets pass.
Dispatched(s, needsLogin) ==
  /\ socket[s] = "connected"
  /\ needsLogin => isAuthenticated[s]

UpdateStatus(u, st) == status' = [status EXCEPT ![u] = st]

\* Session s takes the id of u: what happens to the user it held before.
Abandon(s, u) ==
  abandoned' = [abandoned EXCEPT
                  ![s] = IF isAuthenticated[s] /\ userId[s] # u
                         THEN @ \cup {userId[s]} ELSE @]
-----------------------------------------------------------------------------
\* Server::handleNewConnection and the ClientSession constructor.
HandleNewConnection(s) ==
  /\ socket[s] = "new"
  /\ socket' = [socket EXCEPT ![s] = "connected"]
  /\ clients' = clients \cup {s}
  /\ push' = NoPush
  /\ UNCHANGED <<members, sessions, status, history>>

\* Mutation: setUserId does not register the session.
LoginUnregistered(s, u) ==
  /\ Dispatched(s, FALSE)
  /\ userId' = [userId EXCEPT ![s] = u]
  /\ state' = [state EXCEPT ![s] = "authenticated"]
  /\ isAuthenticated' = [isAuthenticated EXCEPT ![s] = TRUE]
  /\ UpdateStatus(u, "online")
  /\ updating' = [updating EXCEPT ![s] = TRUE]
  /\ loggedIn' = [loggedIn EXCEPT ![s] = @ \cup {u}]
  /\ Abandon(s, u)
  /\ push' = NoPush
  /\ UNCHANGED <<socket, clients, sessions, mistried>>

\* LOGIN with the right password.  It is allowed in every state, also on a
\* session that is logged in already, as the same or another user.
HandleLogin(s, u) ==
  /\ Dispatched(s, FALSE)
  /\ userId' = [userId EXCEPT ![s] = u]
  /\ sessions' = [sessions EXCEPT ![u] = s]
  /\ state' = [state EXCEPT ![s] = "authenticated"]
  /\ isAuthenticated' = [isAuthenticated EXCEPT ![s] = TRUE]
  /\ UpdateStatus(u, "online")
  /\ updating' = [updating EXCEPT ![s] = TRUE]
  /\ loggedIn' = [loggedIn EXCEPT ![s] = @ \cup {u}]
  /\ Abandon(s, u)
  /\ push' = NoPush
  /\ UNCHANGED <<socket, clients, mistried>>

\* Mutation: the session is registered before the password is checked.
RegisterFirst(s, u) ==
  /\ Dispatched(s, FALSE)
  /\ userId' = [userId EXCEPT ![s] = u]
  /\ sessions' = [sessions EXCEPT ![u] = s]
  /\ state' = [state EXCEPT ![s] = "initial"]
  /\ mistried' = [mistried EXCEPT ![s] = @ \cup {u}]
  /\ Abandon(s, u)
  /\ push' = NoPush
  /\ UNCHANGED <<socket, isAuthenticated, updating, clients, status, loggedIn>>

\* LOGIN with a wrong password for the existing user u: authenticateUser has
\* stored u's id in the member it was given before it compares the password.
LoginFails(s, u) ==
  /\ Dispatched(s, FALSE)
  /\ userId' = [userId EXCEPT ![s] = u]
  /\ state' = [state EXCEPT ![s] = "initial"]
  /\ mistried' = [mistried EXCEPT ![s] = @ \cup {u}]
  /\ Abandon(s, u)
  /\ push' = NoPush
  /\ UNCHANGED <<socket, isAuthenticated, updating, clients, sessions, status, loggedIn>>

\* LOGIN with no credentials or a name nobody has.
LoginUnknown(s) ==
  /\ Dispatched(s, FALSE)
  /\ state' = [state EXCEPT ![s] = "initial"]
  /\ push' = NoPush
  /\ UNCHANGED <<socket, userId, isAuthenticated, updating, clients, sessions,
                 status, history>>

\* Mutation: the status timer keeps running after a logout.
LogoutKeepsTimer(s) ==
  /\ Dispatched(s, TRUE)
  /\ userId[s] # NoUser
  /\ UpdateStatus(userId[s], "offline")
  /\ isAuthenticated' = [isAuthenticated EXCEPT ![s] = FALSE]
  /\ userId' = [userId EXCEPT ![s] = NoUser]
  /\ push' = NoPush
  /\ UNCHANGED <<socket, state, updating, clients, sessions, history>>

\* LOGOUT: neither the state member nor the registry is touched.
HandleLogout(s) ==
  /\ Dispatched(s, TRUE)
  /\ userId[s] # NoUser
  /\ UpdateStatus(userId[s], "offline")
  /\ isAuthenticated' = [isAuthenticated EXCEPT ![s] = FALSE]
  /\ userId' = [userId EXCEPT ![s] = NoUser]
  /\ updating' = [updating EXCEPT ![s] = FALSE]
  /\ push' = NoPush
  /\ UNCHANGED <<socket, state, clients, sessions, history>>

\* Mutation: the requested status is not validated.
AnyStatus(st) == TRUE

ValidStatus(st) == st \in UserStatuses

\* STATUS_UPDATE by a logged-in client.
HandleStatusUpdate(s, st) ==
  /\ Dispatched(s, TRUE)
  /\ userId[s] # NoUser
  /\ ValidStatus(st)
  /\ UpdateStatus(userId[s], st)
  /\ push' = NoPush
  /\ UNCHANGED <<socket, members, clients, sessions, history>>

\* An unknown status is answered with an error.
StatusRefused(s, st) ==
  /\ Dispatched(s, TRUE)
  /\ userId[s] = NoUser \/ ~ValidStatus(st)
  /\ push' = NoPush
  /\ UNCHANGED <<socket, members, clients, sessions, status, history>>

\* A handler of s pushes a message to user u through the registered session;
\* what is written to a socket that is no longer connected is lost.
PushTo(s, u) ==
  /\ Dispatched(s, TRUE)
  /\ push' = [to |-> u, via |-> sessions[u],
              reached |-> sessions[u] # NoSession /\ socket[sessions[u]] = "connected"]
  /\ UNCHANGED <<socket, members, clients, sessions, status, history>>

\* Mutation: handleError does not write the status.
CloseKeepsStatus(s) ==
  /\ socket[s] = "connected"
  /\ socket' = [socket EXCEPT ![s] = "closed"]
  /\ clients' = clients \ {s}
  /\ push' = NoPush
  /\ UNCHANGED <<members, sessions, status, history>>

\* The client closes the connection, or it breaks: the socket reports an
\* error (handleError), then that it is disconnected (handleClientDisconnected).
HandleError(s) ==
  /\ socket[s] = "connected"
  /\ socket' = [socket EXCEPT ![s] = "closed"]
  /\ IF isAuthenticated[s] /\ userId[s] # NoUser
     THEN UpdateStatus(userId[s], "offline")
     ELSE UNCHANGED status
  /\ clients' = clients \ {s}
  /\ push' = NoPush
  /\ UNCHANGED <<members, sessions, history>>

\* The heartbeat gives the client up (Heartbeat.tla): disconnectFromHost
\* reports no error, so only handleClientDisconnected runs.
DropSilentClient(s) ==
  /\ socket[s] = "connected"
  /\ socket' = [socket EXCEPT ![s] = "dropped"]
  /\ clients' = clients \ {s}
  /\ push' = NoPush
  /\ UNCHANGED <<members, sessions, status, history>>

Next ==
  \E s \in Sessions :
    \/ HandleNewConnection(s)
    \/ LoginUnknown(s)
    \/ HandleLogout(s)
    \/ HandleError(s)
    \/ DropSilentClient(s)
    \/ \E u \in Users : HandleLogin(s, u) \/ LoginFails(s, u) \/ PushTo(s, u)
    \/ \E st \in Chosen : HandleStatusUpdate(s, st) \/ StatusRefused(s, st)

Spec == Init /\ [][Next]_vars
-----------------------------------------------------------------------------
(* Properties.                                                             *)

\* Whoever is shown as not offline is so for a reason: the initial data said
\* so, a session acts for that user and its client has not closed it (a
\* session the heartbeat dropped counts: it sets nobody offline), or a session
\* went over to another user without logging this one out.
OnlineExplained ==
  \A u \in Users \ InitOnline :
    status[u] # "offline" =>
      \E s \in Sessions :
        \/ isAuthenticated[s] /\ userId[s] = u /\ socket[s] # "closed"
        \/ u \in abandoned[s]

\* The users a session has ever held in userId.
Carried(s) == loggedIn[s] \cup mistried[s]

\* A user with one connection, which tried no other account, is online and is
\* the one that messages for the user reach, for as long as it is logged in.
LoneSessionReached ==
  \A s \in Sessions, u \in Users :
    (/\ socket[s] = "connected" /\ isAuthenticated[s]
     /\ Carried(s) = {u}
     /\ \A t \in Sessions \ {s} : u \notin Carried(t))
    => /\ userId[s] = u
       /\ sessions[u] = s
       /\ "offline" \notin Chosen => status[u] # "offline"

\* A pushed message goes at most to a connection on which its receiver has
\* logged in; an attempt with a wrong password never redirects messages.
PushOnlyWhereLoggedIn ==
  push.via # NoSession => push.to \in loggedIn[push.via]

\* Friend-status updates are sent to exactly the sessions that are logged in,
\* and such a session has a user even after a failed login.
UpdatingFollowsLogin ==
  \A s \in Sessions : /\ updating[s] <=> isAuthenticated[s]
                      /\ isAuthenticated[s] => userId[s] # NoUser

\* A message that is pushed reaches a session of the user it is for.
PushReachesReceiver ==
  push.reached => /\ isAuthenticated[push.via]
                  /\ userId[push.via] = push.to
=============================================================================
