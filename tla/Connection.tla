----------------------------- MODULE Connection ----------------------------
(***************************************************************************)
(* One connection: the byte stream of Framing carries the PONGs that the   *)
(* heartbeat of the session waits for.  A PONG is heard when processBuffer *)
(* finds it, which it does not while a brace of an earlier text is open.   *)
(*                                                                         *)
(* A live client answers every ping.  The time that the ping, the client   *)
(* and the PONG take is spent on the wire: the PONG is there as soon as    *)
(* its ping was sent, and is read at most Delay later.  The client sends   *)
(* no PINGs of its own.                                                    *)
(***************************************************************************)
EXTENDS Framing, Heartbeat

CONSTANT MaxTexts   \* bound: the number of other messages the client sends

VARIABLES
  wire, buffer,  \* as in Stream.tla
  pongs,         \* the PONGs on the wire: the time since the ping, and the
                 \* number of bytes up to the end of the PONG
  texts          \* history: the texts of the other messages sent

connectionVars == <<wire, buffer, vars, pongs, texts>>

Alive == Connected /\ client = "live"

\* A PONG is a message of its own kind: the one that contains no text.
Pong == Encode(<<>>)

ConnectionInit ==
  /\ Init
  /\ wire = <<>>
  /\ buffer = <<>>
  /\ pongs = {}
  /\ texts = <<>>
-----------------------------------------------------------------------------
ClientSends(text) ==
  /\ Alive
  /\ Len(texts) < MaxTexts
  /\ texts' = Append(texts, text)
  /\ wire' = wire \o Encode(text)
  /\ UNCHANGED <<buffer, vars, pongs>>

\* n bytes leave the wire.
Arrive(n) ==
  /\ n \in 1..Len(wire)
  /\ wire' = SubSeq(wire, n + 1, Len(wire))

\* handleReadyRead with n bytes available, and what processMessage does with
\* a PONG; the other handlers do not touch the heartbeat.
HandleReadyRead(n) ==
  /\ Alive
  /\ Arrive(n)
  /\ pongs' = {[p EXCEPT !.upto = @ - n] : p \in {q \in pongs : q.upto > n}}
  /\ LET result == ProcessBuffer(buffer \o SubSeq(wire, 1, n))
     IN  /\ buffer' = result.rest
         /\ IF Contains(result.messages, Pong) THEN Heard /\ owed' = NoPing
            ELSE UNCHANGED vars
  /\ UNCHANGED texts

\* The client's answer to a ping that is sent now.
Answer ==
  IF Alive
  THEN /\ wire' = wire \o Pong
       /\ pongs' = pongs \cup {[age |-> 0, upto |-> Len(wire) + Len(Pong)]}
  ELSE UNCHANGED <<wire, pongs>>

\* Mutation: a message that is being received counts as a sign of life, and
\* while it is, no ping is sent.
ReceivingCounts ==
  /\ phase >= PING - Jitter
  /\ IF Connected /\ StartPos(buffer) # 0
     THEN /\ phase' = 0 /\ age' = 0 /\ quiet' = 0 /\ jumps' = 0
          /\ missedPings' = 0
          /\ owed' = NoPing
          /\ UNCHANGED <<socket, client, wire, pongs>>
     ELSE CheckConnectionStatus /\ Answer
  /\ UNCHANGED <<buffer, texts>>

\* checkConnectionStatus sends a ping first.
CheckSendsPing ==
  /\ CheckConnectionStatus
  /\ Answer
  /\ UNCHANGED <<buffer, texts>>

\* One unit of time, in which no live client's PONG gets older than Delay.
TimePasses ==
  /\ Alive => \A p \in pongs : p.age < Delay
  /\ Elapse
  /\ pongs' = IF Alive THEN {[p EXCEPT !.age = @ + 1] : p \in pongs} ELSE pongs
  /\ UNCHANGED <<wire, buffer, texts>>

ClientEnds ==
  /\ GoSilent \/ ClientCloses
  /\ UNCHANGED <<wire, buffer, pongs, texts>>

ClockIsSet(d) ==
  /\ ClockJump(d)
  /\ UNCHANGED <<wire, buffer, pongs, texts>>

ConnectionNext ==
  \/ \E text \in Texts : ClientSends(text)
  \/ \E n \in 1..Len(wire) : HandleReadyRead(n)
  \/ CheckSendsPing
  \/ TimePasses
  \/ \E d \in Jumps : ClockIsSet(d)
  \/ ClientEnds

\* Time passes, and the event loop runs the timer that is due and reads what
\* has arrived.
ConnectionFairness ==
  /\ WF_connectionVars(TimePasses)
  /\ WF_connectionVars(CheckSendsPing)
  /\ WF_wire(Alive /\ \E n \in 1..Len(wire) : Arrive(n))

ConnectionSpec == ConnectionInit /\ [][ConnectionNext]_connectionVars /\ ConnectionFairness
-----------------------------------------------------------------------------
(* Properties.                                                             *)

AllHarmless == \A i \in DOMAIN texts : Harmless(texts[i])

\* A client that answers its pings in time and none of whose texts leaves a
\* brace open is never dropped, however its bytes are cut into pieces and the
\* wall clock is set.
AnsweringClientKept == socket = "dropped" => client = "silent" \/ ~AllHarmless

\* A message whose braces stay open does not keep a session for ever: once
\* another message has begun behind it, either a later text closes them, or the
\* heartbeat, which does not hear the PONGs behind them, ends the connection.
Stalled ==
  /\ Connected
  /\ \E i, j \in DOMAIN buffer : i = StartPos(buffer) /\ i < j /\ buffer[j] = "{"
StalledIsDropped == Stalled ~> ~Stalled
=============================================================================
