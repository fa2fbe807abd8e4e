--------------------------- MODULE SessionsProofs --------------------------
(***************************************************************************)
(* For any users and any number of connections: the safety properties of   *)
(* Sessions, and what it takes for a push to miss its receiver.            *)
(***************************************************************************)
EXTENDS Sessions, TLAPS

\* The registry names, for each user who ever logged in, a session on which that
\* user did.
Registered ==
  \A u \in Users :
    /\ sessions[u] # NoSession => u \in loggedIn[sessions[u]]
    /\ \A s \in Sessions : u \in loggedIn[s] => sessions[u] # NoSession

\* A session's user id got there by a login, right or wrong; a session that is
\* authenticated had a right one.
Held ==
  \A s \in Sessions :
    /\ userId[s] # NoUser => userId[s] \in Carried(s)
    /\ isAuthenticated[s] => loggedIn[s] # {} /\ socket[s] # "new"

Lone(s, u) ==
  /\ socket[s] = "connected" /\ isAuthenticated[s]
  /\ Carried(s) = {u}
  /\ \A t \in Sessions \ {s} : u \notin Carried(t)

\* Nothing sets the user of a lone session offline but its own requests.
LoneOnline ==
  "offline" \notin Chosen =>
    \A s \in Sessions, u \in Users : Lone(s, u) => status[u] # "offline"

Inv ==
  /\ TypeOK
  /\ UpdatingFollowsLogin
  /\ Registered
  /\ PushOnlyWhereLoggedIn
  /\ Held
  /\ OnlineExplained
  /\ LoneOnline

LEMMA LoneSession == Inv => LoneSessionReached
<1> SUFFICES ASSUME Inv, NEW s \in Sessions, NEW u \in Users, Lone(s, u)
             PROVE  /\ userId[s] = u
                    /\ sessions[u] = s
                    /\ "offline" \notin Chosen => status[u] # "offline"
  BY DEF LoneSessionReached, Lone
<1>1. userId[s] = u
  BY DEF Inv, UpdatingFollowsLogin, Held, Lone
<1>2. u \in loggedIn[s]
  BY DEF Inv, Held, Lone, Carried
<1>3. sessions[u] \in Sessions /\ u \in loggedIn[sessions[u]]
  BY <1>2 DEF Inv, TypeOK, Registered
<1>4. sessions[u] = s
  BY <1>3 DEF Lone, Carried
<1>5. QED
  BY <1>1, <1>4 DEF Inv, LoneOnline

LEMMA InitInv == Init => Inv
<1> SUFFICES ASSUME Init PROVE Inv
  OBVIOUS
<1> USE SessionsAssumption DEF SessionsAssumption
<1>1. TypeOK
  BY DEF Init, TypeOK, UserStatuses, NoPush
<1>2. UpdatingFollowsLogin /\ Registered /\ PushOnlyWhereLoggedIn /\ Held
  BY DEF Init, UpdatingFollowsLogin, Registered, PushOnlyWhereLoggedIn, Held, NoPush
<1>3. OnlineExplained /\ LoneOnline
  BY DEF Init, OnlineExplained, LoneOnline, Lone
<1>4. QED
  BY <1>1, <1>2, <1>3 DEF Inv
-----------------------------------------------------------------------------
\* A session takes the id of u: u is carried, and whom it held is abandoned.
LEMMA Abandoning ==
  ASSUME TypeOK, UpdatingFollowsLogin, NEW s \in Sessions, NEW u \in Users, Abandon(s, u)
  PROVE  /\ abandoned' \in [Sessions -> SUBSET Users]
         /\ \A t \in Sessions : abandoned[t] \subseteq abandoned'[t]
         /\ isAuthenticated[s] /\ userId[s] # u => userId[s] \in abandoned'[s]
<1>1. isAuthenticated[s] => userId[s] \in Users
  BY DEF TypeOK, UpdatingFollowsLogin
<1>2. QED
  BY <1>1 DEF TypeOK, Abandon

LEMMA HandleLoginInv ==
  ASSUME Inv, NEW s \in Sessions, NEW u \in Users, HandleLogin(s, u)
  PROVE  Inv'
<1> USE DEF HandleLogin, Dispatched, UpdateStatus
<1>1. TypeOK /\ UpdatingFollowsLogin
  BY DEF Inv
<1>2. u # NoUser /\ s # NoSession
  BY SessionsAssumption DEF SessionsAssumption
<1>3. /\ socket' = socket /\ push' = NoPush
      /\ userId'[s] = u /\ isAuthenticated'[s] /\ updating'[s]
      /\ loggedIn'[s] = loggedIn[s] \cup {u} /\ mistried' = mistried
      /\ sessions'[u] = s /\ status'[u] = "online"
      /\ \A t \in Sessions \ {s} :
           /\ userId'[t] = userId[t] /\ updating'[t] = updating[t]
           /\ isAuthenticated'[t] = isAuthenticated[t]
           /\ loggedIn'[t] = loggedIn[t]
      /\ \A w \in Users \ {u} : sessions'[w] = sessions[w] /\ status'[w] = status[w]
  BY <1>1 DEF TypeOK
<1>4. TypeOK'
  BY <1>1, Abandoning DEF TypeOK, UserStatuses, NoPush
<1>5. UpdatingFollowsLogin'
  BY <1>1, <1>2, <1>3 DEF UpdatingFollowsLogin
<1>6. Registered'
  <2>1. Registered
    BY DEF Inv
  <2> QED
    BY <1>1, <1>2, <1>3, <2>1 DEF Registered, TypeOK
<1>7. PushOnlyWhereLoggedIn'
  BY <1>3 DEF PushOnlyWhereLoggedIn, NoPush
<1>8. Held'
  <2>1. Held
    BY DEF Inv
  <2>2. userId'[s] \in Carried(s)' /\ loggedIn'[s] # {} /\ socket[s] = "connected"
    BY <1>3 DEF Carried
  <2>3. ASSUME NEW t \in Sessions \ {s}
        PROVE  Carried(t)' = Carried(t)
    BY <1>3 DEF Carried
  <2> HIDE DEF HandleLogin
  <2> QED
    BY <1>3, <2>1, <2>2, <2>3 DEF Held
<1>9. OnlineExplained'
  <2>1. SUFFICES ASSUME NEW w \in Users \ InitOnline, status'[w] # "offline"
                 PROVE  \E t \in Sessions :
                          \/ isAuthenticated'[t] /\ userId'[t] = w /\ socket'[t] # "closed"
                          \/ w \in abandoned'[t]
    BY DEF OnlineExplained
  <2>2. CASE w = u
    BY <1>3, <2>2
  <2>3. CASE w # u
    <3>1. PICK t \in Sessions :
            \/ isAuthenticated[t] /\ userId[t] = w /\ socket[t] # "closed"
            \/ w \in abandoned[t]
      BY <1>3, <2>1, <2>3 DEF Inv, OnlineExplained
    <3>2. CASE t = s
      BY <1>1, <2>3, <3>1, <3>2, Abandoning
    <3>3. CASE t # s
      BY <1>1, <1>3, <3>1, <3>3, Abandoning
    <3>4. QED
      BY <3>2, <3>3
  <2>4. QED
    BY <2>2, <2>3
<1>10. LoneOnline'
  <2>1. SUFFICES ASSUME "offline" \notin Chosen, NEW t \in Sessions, NEW w \in Users,
                        Lone(t, w)'
                 PROVE  status'[w] # "offline"
    BY DEF LoneOnline
  <2>2. CASE w = u
    BY <1>3, <2>2
  <2>3. CASE w # u
    <3>1. t # s
      BY <1>3, <2>1, <2>3 DEF Lone, Carried
    <3>2. Lone(t, w)
      BY <1>3, <2>1, <3>1 DEF Lone, Carried
    <3>3. QED
      BY <1>3, <2>1, <2>3, <3>2 DEF Inv, LoneOnline
  <2>4. QED
    BY <2>2, <2>3
<1>11. QED
  BY <1>4, <1>5, <1>6, <1>7, <1>8, <1>9, <1>10 DEF Inv

LEMMA LoginFailsInv ==
  ASSUME Inv, NEW s \in Sessions, NEW u \in Users, LoginFails(s, u)
  PROVE  Inv'
<1> USE DEF LoginFails, Dispatched
<1>1. TypeOK /\ UpdatingFollowsLogin
  BY DEF Inv
<1>2. u # NoUser
  BY SessionsAssumption DEF SessionsAssumption
<1>3. /\ UNCHANGED <<socket, isAuthenticated, updating, sessions, status, loggedIn>>
      /\ push' = NoPush
      /\ userId'[s] = u
      /\ mistried'[s] = mistried[s] \cup {u}
      /\ \A t \in Sessions \ {s} : userId'[t] = userId[t] /\ mistried'[t] = mistried[t]
  BY <1>1 DEF TypeOK
<1>4. TypeOK'
  BY <1>1, Abandoning DEF TypeOK, NoPush
<1>5. UpdatingFollowsLogin'
  BY <1>1, <1>2, <1>3 DEF UpdatingFollowsLogin
<1>6. Registered' /\ PushOnlyWhereLoggedIn' /\ Held'
  BY <1>2, <1>3 DEF Inv, Registered, PushOnlyWhereLoggedIn, NoPush, Held, Carried
<1>7. OnlineExplained'
  <2>1. SUFFICES ASSUME NEW w \in Users \ InitOnline, status'[w] # "offline"
                 PROVE  \E t \in Sessions :
                          \/ isAuthenticated'[t] /\ userId'[t] = w /\ socket'[t] # "closed"
                          \/ w \in abandoned'[t]
    BY DEF OnlineExplained
  <2>2. PICK t \in Sessions :
          \/ isAuthenticated[t] /\ userId[t] = w /\ socket[t] # "closed"
          \/ w \in abandoned[t]
    BY <1>3, <2>1 DEF Inv, OnlineExplained
  <2>3. CASE t = s
    BY <1>1, <1>3, <2>2, <2>3, Abandoning
  <2>4. CASE t # s
    BY <1>1, <1>3, <2>2, <2>4, Abandoning
  <2>5. QED
    BY <2>3, <2>4
<1>8. LoneOnline'
  <2>1. SUFFICES ASSUME "offline" \notin Chosen, NEW t \in Sessions, NEW w \in Users,
                        Lone(t, w)'
                 PROVE  status'[w] # "offline"
    BY DEF LoneOnline
  <2>2. loggedIn[t] # {}
    BY <1>3, <2>1 DEF Inv, Held, Lone
  <2>3. Lone(t, w)
    BY <1>3, <2>1, <2>2 DEF Lone, Carried
  <2>4. QED
    BY <1>3, <2>1, <2>3 DEF Inv, LoneOnline
<1>9. QED
  BY <1>4, <1>5, <1>6, <1>7, <1>8 DEF Inv

\* LOGOUT, and the end of a connection, set the user of the session offline.
LEMMA HandleLogoutInv ==
  ASSUME Inv, NEW s \in Sessions, HandleLogout(s)
  PROVE  Inv'
<1> USE DEF HandleLogout, Dispatched, UpdateStatus
<1>1. TypeOK
  BY DEF Inv
<1>2. /\ UNCHANGED <<socket, sessions, history>>
      /\ push' = NoPush
      /\ userId[s] \in Users
      /\ userId'[s] = NoUser /\ ~isAuthenticated'[s] /\ ~updating'[s]
      /\ \A t \in Sessions \ {s} :
           /\ userId'[t] = userId[t] /\ updating'[t] = updating[t]
           /\ isAuthenticated'[t] = isAuthenticated[t]
      /\ status'[userId[s]] = "offline"
      /\ \A w \in Users \ {userId[s]} : status'[w] = status[w]
  BY <1>1 DEF TypeOK, history
<1>3. TypeOK'
  BY <1>1 DEF TypeOK, UserStatuses, NoPush, history
<1>4. UpdatingFollowsLogin' /\ Registered' /\ PushOnlyWhereLoggedIn' /\ Held'
  BY <1>2
  DEF Inv, UpdatingFollowsLogin, Registered, PushOnlyWhereLoggedIn, NoPush, Held,
      Carried, history
<1>5. OnlineExplained'
  <2>1. SUFFICES ASSUME NEW w \in Users \ InitOnline, status'[w] # "offline"
                 PROVE  \E t \in Sessions :
                          \/ isAuthenticated'[t] /\ userId'[t] = w /\ socket'[t] # "closed"
                          \/ w \in abandoned'[t]
    BY DEF OnlineExplained
  <2>2. w # userId[s] /\ status[w] # "offline"
    BY <1>2, <2>1
  <2>3. PICK t \in Sessions :
          \/ isAuthenticated[t] /\ userId[t] = w /\ socket[t] # "closed"
          \/ w \in abandoned[t]
    BY <2>2 DEF Inv, OnlineExplained
  <2>4. QED
    BY <1>2, <2>2, <2>3 DEF history
<1>6. LoneOnline'
  <2>1. SUFFICES ASSUME "offline" \notin Chosen, NEW t \in Sessions, NEW w \in Users,
                        Lone(t, w)'
                 PROVE  status'[w] # "offline"
    BY DEF LoneOnline
  <2>2. t # s /\ Lone(t, w)
    BY <1>2, <2>1 DEF Lone, Carried, history
  <2>3. w # userId[s]
    BY <1>2, <2>2 DEF Lone, Inv, Held
  <2>4. QED
    BY <1>2, <2>1, <2>2, <2>3 DEF Inv, LoneOnline
<1>7. QED
  BY <1>3, <1>4, <1>5, <1>6 DEF Inv

LEMMA HandleErrorInv ==
  ASSUME Inv, NEW s \in Sessions, HandleError(s)
  PROVE  Inv'
<1> USE DEF HandleError, UpdateStatus
<1>1. TypeOK /\ UpdatingFollowsLogin
  BY DEF Inv
<1>2. /\ UNCHANGED <<userId, isAuthenticated, state, updating, sessions, loggedIn,
                     mistried, abandoned>>
      /\ push' = NoPush
      /\ socket'[s] = "closed"
      /\ \A t \in Sessions \ {s} : socket'[t] = socket[t]
      /\ isAuthenticated[s] => userId[s] \in Users /\ status'[userId[s]] = "offline"
      /\ \A w \in Users :
           ~(isAuthenticated[s] /\ userId[s] = w) => status'[w] = status[w]
  BY <1>1 DEF TypeOK, UpdatingFollowsLogin, members, history
<1>3. TypeOK'
  BY <1>1 DEF TypeOK, UserStatuses, NoPush, members, history
<1>4. UpdatingFollowsLogin' /\ Registered' /\ PushOnlyWhereLoggedIn' /\ Held'
  BY <1>2
  DEF Inv, UpdatingFollowsLogin, Registered, PushOnlyWhereLoggedIn, NoPush, Held, Carried
<1>5. OnlineExplained'
  <2>1. SUFFICES ASSUME NEW w \in Users \ InitOnline, status'[w] # "offline"
                 PROVE  \E t \in Sessions :
                          \/ isAuthenticated'[t] /\ userId'[t] = w /\ socket'[t] # "closed"
                          \/ w \in abandoned'[t]
    BY DEF OnlineExplained
  <2>2. ~(isAuthenticated[s] /\ userId[s] = w) /\ status[w] # "offline"
    BY <1>2, <2>1
  <2>3. PICK t \in Sessions :
          \/ isAuthenticated[t] /\ userId[t] = w /\ socket[t] # "closed"
          \/ w \in abandoned[t]
    BY <2>2 DEF Inv, OnlineExplained
  <2>4. QED
    BY <1>2, <2>2, <2>3
<1>6. LoneOnline'
  <2>1. SUFFICES ASSUME "offline" \notin Chosen, NEW t \in Sessions, NEW w \in Users,
                        Lone(t, w)'
                 PROVE  status'[w] # "offline"
    BY DEF LoneOnline
  <2>2. t # s /\ Lone(t, w)
    BY <1>2, <2>1 DEF Lone, Carried
  <2>3. userId[s] # w
    BY <2>2, SessionsAssumption DEF Lone, Inv, Held, SessionsAssumption
  <2>4. QED
    BY <1>2, <2>1, <2>2, <2>3 DEF Inv, LoneOnline
<1>7. QED
  BY <1>3, <1>4, <1>5, <1>6 DEF Inv

LEMMA HandleStatusUpdateInv ==
  ASSUME Inv, NEW s \in Sessions, NEW st \in Chosen, HandleStatusUpdate(s, st)
  PROVE  Inv'
<1> USE DEF HandleStatusUpdate, Dispatched, UpdateStatus, ValidStatus
<1>1. TypeOK
  BY DEF Inv
<1>2. /\ UNCHANGED <<socket, userId, isAuthenticated, state, updating, sessions,
                     loggedIn, mistried, abandoned>>
      /\ push' = NoPush
      /\ isAuthenticated[s] /\ socket[s] = "connected" /\ userId[s] \in Users
      /\ status'[userId[s]] = st
      /\ \A w \in Users \ {userId[s]} : status'[w] = status[w]
  BY <1>1 DEF TypeOK, members, history
<1>3. TypeOK'
  BY <1>1 DEF TypeOK, NoPush, members, history
<1>4. UpdatingFollowsLogin' /\ Registered' /\ PushOnlyWhereLoggedIn' /\ Held'
  BY <1>2
  DEF Inv, UpdatingFollowsLogin, Registered, PushOnlyWhereLoggedIn, NoPush, Held, Carried
<1>5. OnlineExplained'
  <2>1. SUFFICES ASSUME NEW w \in Users \ InitOnline, status'[w] # "offline"
                 PROVE  \E t \in Sessions :
                          \/ isAuthenticated'[t] /\ userId'[t] = w /\ socket'[t] # "closed"
                          \/ w \in abandoned'[t]
    BY DEF OnlineExplained
  <2>2. CASE w = userId[s]
    BY <1>2, <2>2
  <2>3. CASE w # userId[s]
    BY <1>2, <2>1, <2>3 DEF Inv, OnlineExplained
  <2>4. QED
    BY <2>2, <2>3
<1>6. LoneOnline'
  BY <1>2 DEF Inv, LoneOnline, Lone, Carried
<1>7. QED
  BY <1>3, <1>4, <1>5, <1>6 DEF Inv

LEMMA PushToInv ==
  ASSUME Inv, NEW s \in Sessions, NEW u \in Users, PushTo(s, u)
  PROVE  Inv'
<1>1. UNCHANGED <<socket, userId, isAuthenticated, state, updating, clients, sessions,
                  status, loggedIn, mistried, abandoned>>
  BY DEF PushTo, members, history
<1>2. push'.to = u /\ push'.via = sessions[u]
  BY DEF PushTo
<1>3. TypeOK'
  BY <1>1 DEF Inv, TypeOK, PushTo
<1>4. PushOnlyWhereLoggedIn'
  BY <1>1, <1>2 DEF Inv, Registered, PushOnlyWhereLoggedIn
<1>5. UpdatingFollowsLogin' /\ Registered' /\ Held' /\ OnlineExplained' /\ LoneOnline'
  BY <1>1
  DEF Inv, UpdatingFollowsLogin, Registered, Held, Carried, OnlineExplained, LoneOnline,
      Lone
<1>6. QED
  BY <1>3, <1>4, <1>5 DEF Inv

\* The other steps change only the socket of a session, and its state member.
LEMMA OtherInv ==
  ASSUME Inv, NEW s \in Sessions,
         \/ HandleNewConnection(s) \/ LoginUnknown(s) \/ DropSilentClient(s)
         \/ \E st \in Chosen : StatusRefused(s, st)
  PROVE  Inv'
<1> USE DEF HandleNewConnection, LoginUnknown, DropSilentClient, StatusRefused, Dispatched
<1>1. TypeOK
  BY DEF Inv
<1>2. /\ UNCHANGED <<userId, isAuthenticated, updating, sessions, status, loggedIn,
                     mistried, abandoned>>
      /\ push' = NoPush
  BY DEF members, history
<1>3. \A t \in Sessions :
        /\ socket'[t] = "closed" => socket[t] = "closed"
        /\ socket'[t] = "new" => socket[t] = "new"
        /\ socket'[t] = "connected" => socket[t] \in {"new", "connected"}
  BY <1>1 DEF TypeOK
<1>4. TypeOK'
  <2>1. socket' \in [Sessions -> {"new", "connected", "closed", "dropped"}]
    BY <1>1 DEF TypeOK
  <2>2. state' \in [Sessions -> {"initial", "authenticated"}]
    BY <1>1 DEF TypeOK, members
  <2>3. clients' \subseteq Sessions
    BY <1>1 DEF TypeOK
  <2>4. QED
    BY <1>1, <1>2, <2>1, <2>2, <2>3 DEF TypeOK, NoPush
<1>5. UpdatingFollowsLogin' /\ Registered' /\ PushOnlyWhereLoggedIn' /\ Held'
  BY <1>2, <1>3
  DEF Inv, UpdatingFollowsLogin, Registered, PushOnlyWhereLoggedIn, NoPush, Held, Carried
<1>6. OnlineExplained'
  BY <1>2, <1>3 DEF Inv, OnlineExplained
<1>7. LoneOnline'
  <2>1. SUFFICES ASSUME "offline" \notin Chosen, NEW t \in Sessions, NEW w \in Users,
                        Lone(t, w)'
                 PROVE  status'[w] # "offline"
    BY DEF LoneOnline
  <2>2. Lone(t, w)
    BY <1>2, <1>3, <2>1 DEF Lone, Carried, Inv, Held
  <2>3. QED
    BY <1>2, <2>1, <2>2 DEF Inv, LoneOnline
<1>8. QED
  BY <1>4, <1>5, <1>6, <1>7 DEF Inv

LEMMA NextInv == Inv /\ [Next]_vars => Inv'
<1> SUFFICES ASSUME Inv, [Next]_vars PROVE Inv'
  OBVIOUS
<1>1. ASSUME NEW s \in Sessions, NEW u \in Users,
             HandleLogin(s, u) \/ LoginFails(s, u) \/ PushTo(s, u)
      PROVE  Inv'
  BY <1>1, HandleLoginInv, LoginFailsInv, PushToInv
<1>2. ASSUME NEW s \in Sessions, HandleLogout(s) \/ HandleError(s)
      PROVE  Inv'
  BY <1>2, HandleLogoutInv, HandleErrorInv
<1>3. ASSUME NEW s \in Sessions, NEW st \in Chosen, HandleStatusUpdate(s, st)
      PROVE  Inv'
  BY <1>3, HandleStatusUpdateInv
<1>4. ASSUME NEW s \in Sessions,
             \/ HandleNewConnection(s) \/ LoginUnknown(s) \/ DropSilentClient(s)
             \/ \E st \in Chosen : StatusRefused(s, st)
      PROVE  Inv'
  BY <1>4, OtherInv
<1>5. CASE UNCHANGED vars
  BY <1>5
  DEF vars, members, history, Inv, TypeOK, UpdatingFollowsLogin, Registered,
      PushOnlyWhereLoggedIn, Held, Carried, OnlineExplained, LoneOnline, Lone
<1>6. QED
  BY <1>1, <1>2, <1>3, <1>4, <1>5 DEF Next

LEMMA InvHolds == Spec => []Inv
  BY InitInv, NextInv, PTL DEF Spec
-----------------------------------------------------------------------------
\* Type correctness.
THEOREM TypeOKHolds == Spec => []TypeOK
<1>1. Inv => TypeOK
  BY DEF Inv
<1>2. QED
  BY InvHolds, <1>1, PTL

\* Whoever is shown as not offline is so for one of the reasons the code has.
THEOREM OnlineExplainedHolds == Spec => []OnlineExplained
<1>1. Inv => OnlineExplained
  BY DEF Inv
<1>2. QED
  BY InvHolds, <1>1, PTL

\* The one session of a user is the one that the registry names, and keeps the
\* user online.
THEOREM LoneSessionReachedHolds == Spec => []LoneSessionReached
  BY InvHolds, LoneSession, PTL

\* Pushes go only where their receiver has logged in.
THEOREM PushOnlyWhereLoggedInHolds == Spec => []PushOnlyWhereLoggedIn
<1>1. Inv => PushOnlyWhereLoggedIn
  BY DEF Inv
<1>2. QED
  BY InvHolds, <1>1, PTL

\* The status timer runs exactly in the sessions that are logged in.
THEOREM UpdatingFollowsLoginHolds == Spec => []UpdatingFollowsLogin
<1>1. Inv => UpdatingFollowsLogin
  BY DEF Inv
<1>2. QED
  BY InvHolds, <1>1, PTL
-----------------------------------------------------------------------------
(* What a push that goes astray needs.                                     *)

\* A push that reached anyone went through a session, and only PushTo makes one.
ReachedSome == push.reached => push.via # NoSession

LEMMA ReachedSomeNext == ReachedSome /\ [Next]_vars => ReachedSome'
<1> SUFFICES ASSUME ReachedSome, [Next]_vars PROVE ReachedSome'
  OBVIOUS
<1>1. ASSUME NEW s \in Sessions, NEW u \in Users, PushTo(s, u)
      PROVE  ReachedSome'
  BY <1>1 DEF PushTo, ReachedSome
<1>2. CASE push' = NoPush
  BY <1>2 DEF NoPush, ReachedSome
<1>3. CASE UNCHANGED vars
  BY <1>3 DEF vars, ReachedSome
<1>4. ASSUME NEW s \in Sessions, NEW u \in Users, HandleLogin(s, u) \/ LoginFails(s, u)
      PROVE  push' = NoPush
  BY <1>4 DEF HandleLogin, LoginFails
<1>5. ASSUME NEW s \in Sessions, NEW st \in Chosen,
             HandleStatusUpdate(s, st) \/ StatusRefused(s, st)
      PROVE  push' = NoPush
  BY <1>5 DEF HandleStatusUpdate, StatusRefused
<1>6. ASSUME NEW s \in Sessions,
             \/ HandleNewConnection(s) \/ LoginUnknown(s) \/ HandleLogout(s)
             \/ HandleError(s) \/ DropSilentClient(s)
      PROVE  push' = NoPush
  BY <1>6
  DEF HandleNewConnection, LoginUnknown, HandleLogout, HandleError, DropSilentClient
<1>7. QED
  BY <1>1, <1>2, <1>3, <1>4, <1>5, <1>6 DEF Next

\* The last push went to a connection that its receiver used before.
WentToFormer ==
  /\ push.via \in Sessions /\ push.to \in loggedIn[push.via]
  /\ ~isAuthenticated[push.via] \/ Carried(push.via) # {push.to}

\* PushReachesReceiver, which the code violates, fails in two ways only, for any
\* users and sessions: the connection that gets the message is one on which the
\* receiver did log in, and since then it was logged out, or another account was
\* tried on it, with the right password or a wrong one.
THEOREM StrayPushesExplained == Spec => [](PushReachesReceiver \/ WentToFormer)
<1>1. Init => ReachedSome
  BY DEF Init, NoPush, ReachedSome
<1>2. Inv /\ ReachedSome => PushReachesReceiver \/ WentToFormer
  <2> SUFFICES ASSUME Inv, ReachedSome, push.reached
               PROVE  /\ push.via \in Sessions /\ push.to \in loggedIn[push.via]
                      /\ \/ isAuthenticated[push.via] /\ userId[push.via] = push.to
                         \/ ~isAuthenticated[push.via]
                         \/ Carried(push.via) # {push.to}
    BY DEF PushReachesReceiver, WentToFormer
  <2>1. push.via \in Sessions
    BY DEF Inv, TypeOK, ReachedSome
  <2>2. push.to \in loggedIn[push.via]
    BY DEF Inv, PushOnlyWhereLoggedIn, ReachedSome
  <2>3. isAuthenticated[push.via] => userId[push.via] \in Carried(push.via)
    BY <2>1 DEF Inv, UpdatingFollowsLogin, Held
  <2>4. QED
    BY <2>1, <2>2, <2>3
<1>3. QED
  BY InvHolds, ReachedSomeNext, <1>1, <1>2, PTL DEF Spec
=============================================================================
