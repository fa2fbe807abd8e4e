------------------------------ MODULE Handles ------------------------------
(***************************************************************************)
(* The connections to the database.  The server has one DatabaseManager,   *)
(* whose member `database` is the connection that every query of every     *)
(* session uses; each new session opens a connection of its own and makes  *)
(* it that member.  A login looks at the session's own connection, not at  *)
(* the member.                                                             *)
(*                                                                         *)
(* QSqlDatabase believes a connection open until it is closed by this      *)
(* process; that MySQL went away, or closed it for being idle, shows only  *)
(* in queries that fail.                                                   *)
(***************************************************************************)
CONSTANTS
  Sessions,    \* the sessions the server may create
  NoSession    \* the member's value before the first session: no connection

ASSUME HandlesAssumption == NoSession \notin Sessions

VARIABLES
  up,          \* does MySQL accept connections?
  own,         \* each session's own connection: none yet, could not be opened
               \* (closed), open, or open for Qt but closed by MySQL (lost)
  database,    \* the session whose connection the member `database` refers to
  healed       \* history: did the last step open a connection for the member?

handlesVars == <<up, own, database, healed>>

\* Does a query of any session reach the database?
Works == database # NoSession /\ own[database] = "open"

\* The types; and a connection that was opened for the member is the member's.
HandlesTypeOK ==
  /\ up \in BOOLEAN
  /\ own \in [Sessions -> {"none", "closed", "open", "lost"}]
  /\ database \in Sessions \cup {NoSession}
  /\ healed \in BOOLEAN
  /\ healed => Works

HandlesInit ==
  /\ up = TRUE
  /\ own = [s \in Sessions |-> "none"]
  /\ database = NoSession
  /\ healed = FALSE
-----------------------------------------------------------------------------
\* Mutation: the member is set before the connection is opened.
CloneSetsFirst(s, opens) ==
  /\ opens => up
  /\ own' = [own EXCEPT ![s] = IF opens THEN "open" ELSE "closed"]
  /\ database' = s
  /\ healed' = opens

\* cloneConnection: whatever connection of that name there was is removed.  That
\* the server is up does not ensure that it accepts one more connection.
CloneConnection(s, opens) ==
  /\ opens => up
  /\ own' = [own EXCEPT ![s] = IF opens THEN "open" ELSE "closed"]
  /\ database' = IF opens THEN s ELSE database
  /\ healed' = opens

\* The ClientSession constructor.
NewSession(s, opens) ==
  /\ own[s] = "none"
  /\ CloneConnection(s, opens)
  /\ UNCHANGED up

\* Mutation: a connection that is reopened becomes the member.
ReopenAsMember(s) ==
  /\ own[s] = "closed" /\ up
  /\ own' = [own EXCEPT ![s] = "open"]
  /\ database' = s
  /\ healed' = FALSE
  /\ UNCHANGED up

\* handleLogin asks QSqlDatabase for the session's connection, which opens it if
\* it is closed.  Then the connection is open and nothing is cloned.
LoginReopens(s) ==
  /\ own[s] = "closed" /\ up
  /\ own' = [own EXCEPT ![s] = "open"]
  /\ healed' = FALSE
  /\ UNCHANGED <<up, database>>

\* If it cannot be opened, handleLogin clones it again.
LoginClones(s, opens) ==
  /\ own[s] = "closed"
  /\ CloneConnection(s, opens)
  /\ UNCHANGED up

\* MySQL stops: no connection survives that.
DatabaseStops ==
  /\ up
  /\ up' = FALSE
  /\ own' = [s \in Sessions |-> IF own[s] = "open" THEN "lost" ELSE own[s]]
  /\ healed' = FALSE
  /\ UNCHANGED database

DatabaseStarts ==
  /\ ~up
  /\ up' = TRUE
  /\ healed' = FALSE
  /\ UNCHANGED <<own, database>>

\* MySQL closes a connection that has been idle for too long, or it breaks.
ConnectionLost(s) ==
  /\ own[s] = "open"
  /\ own' = [own EXCEPT ![s] = "lost"]
  /\ healed' = FALSE
  /\ UNCHANGED <<up, database>>

HandlesNext ==
  \/ \E s \in Sessions :
       \/ \E opens \in BOOLEAN : NewSession(s, opens) \/ LoginClones(s, opens)
       \/ LoginReopens(s)
       \/ ConnectionLost(s)
  \/ DatabaseStops
  \/ DatabaseStarts

HandlesSpec == HandlesInit /\ [][HandlesNext]_handlesVars
-----------------------------------------------------------------------------
(* Properties.                                                             *)

\* The member never refers to a connection that was removed or never opened,
\* although cloneConnection removes the old connection of a session before it
\* opens the new one; so a failing clone takes no working connection away from
\* the other sessions.
MemberWasOpened ==
  database # NoSession => own[database] \in {"open", "lost"}

\* Inductive invariant: the types, that the member is a connection which was
\* opened, and that a clone which opened one leaves the queries working
\* (cloneConnection sets the member only after open() succeeds).
HandlesInv == HandlesTypeOK /\ MemberWasOpened

\* Once queries fail, they fail for all sessions until a connection is cloned:
\* neither MySQL's return ends that, nor a login that opens the connection of
\* its session again.
OnlyCloneHeals == [][(~Works /\ Works') => healed']_handlesVars
=============================================================================
