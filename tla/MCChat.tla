------------------------------- MODULE MCChat -------------------------------
(***************************************************************************)
(* Small instances of Chat and of Connection for TLC.  A behaviour is one  *)
(* of the one or of the other, as `part` says: here they share no state.   *)
(* Connection has a unit of time in which a ping interval is two.          *)
(***************************************************************************)
EXTENDS Chat, Connection

VARIABLE part

all == <<part, chatVars, connectionVars>>

ForwardOnly == {4}
OneBrace == {<<"(">>, <<")">>}

MCInit ==
  /\ part \in {"chat", "connection"}
  /\ ChatInit
  /\ ConnectionInit

OfConnection(step) == part = "connection" /\ step /\ UNCHANGED <<part, chatVars>>

MCNext ==
  \/ part = "chat" /\ ChatNext /\ UNCHANGED <<part, connectionVars>>
  \/ OfConnection(ConnectionNext)

\* ConnectionFairness in its part.
MCFairness ==
  /\ WF_all(OfConnection(TimePasses))
  /\ WF_all(OfConnection(CheckSendsPing))
  /\ WF_wire(part = "connection" /\ Alive /\ \E n \in 1..Len(wire) : Arrive(n))

MCSpec == MCInit /\ [][MCNext]_all /\ MCFairness
=============================================================================
