---------------------------- MODULE MCHeartbeat ----------------------------
(***************************************************************************)
(* Small instances of Heartbeat and of Stream for TLC.  A behaviour is one *)
(* of the one or of the other, as `part` says; the other stays in its      *)
(* initial state.  Heartbeat has one second as its unit of time.           *)
(***************************************************************************)
EXTENDS Heartbeat, Stream

VARIABLE part

all == <<part, vars, streamVars>>

BackAndForth == {-15, 40}
SomeTexts == {<<"x">>, <<"(", ")">>, <<"(">>, <<")">>, <<")", "(">>,
              <<")", "(", " ", ")", "(", ")">>}

MCInit ==
  /\ part \in {"heartbeat", "stream"}
  /\ Init
  /\ StreamInit

\* A step of Heartbeat.
OfHeartbeat(step) == part = "heartbeat" /\ step /\ UNCHANGED <<part, streamVars>>

MCNext ==
  \/ OfHeartbeat(Next)
  \/ part = "stream" /\ StreamNext /\ UNCHANGED <<part, vars>>

\* Fairness and StreamFairness, each in its part.
MCFairness ==
  /\ WF_all(OfHeartbeat(Tick))
  /\ WF_all(OfHeartbeat(CheckConnectionStatus))
  /\ WF_wire(part = "stream" /\ \E n \in 1..Len(wire) : Arrive(n))

MCSpec == MCInit /\ [][MCNext]_all /\ MCFairness
=============================================================================
