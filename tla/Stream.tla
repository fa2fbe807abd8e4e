------------------------------- MODULE Stream ------------------------------
(***************************************************************************)
(* The bytes of one client on their way to processMessage.  TCP keeps      *)
(* their order and delivers them in pieces of any length.                  *)
(***************************************************************************)
EXTENDS Framing

CONSTANT MaxMessages   \* bound: the number of messages the client sends

VARIABLES
  sent,        \* history: the texts of the messages sent
  wire,        \* bytes the server has not read yet
  buffer,      \* ClientSession::buffer
  dispatched   \* history: the frames given to processMessage

streamVars == <<sent, wire, buffer, dispatched>>

StreamInit ==
  /\ sent = <<>>
  /\ wire = <<>>
  /\ buffer = <<>>
  /\ dispatched = <<>>

Send(text) ==
  /\ Len(sent) < MaxMessages
  /\ sent' = Append(sent, text)
  /\ wire' = wire \o Encode(text)
  /\ UNCHANGED <<buffer, dispatched>>

\* n bytes leave the wire.
Arrive(n) ==
  /\ n \in 1..Len(wire)
  /\ wire' = SubSeq(wire, n + 1, Len(wire))

\* Mutation: a piece that completes no message is thrown away.
ReadyReadForgets(n) ==
  /\ Arrive(n)
  /\ LET result == ProcessBuffer(buffer \o SubSeq(wire, 1, n))
     IN  /\ buffer' = IF result.messages = <<>> THEN buffer ELSE result.rest
         /\ dispatched' = dispatched \o result.messages
  /\ UNCHANGED sent

\* handleReadyRead with n bytes available.
HandleReadyRead(n) ==
  /\ Arrive(n)
  /\ LET result == ProcessBuffer(buffer \o SubSeq(wire, 1, n))
     IN  /\ buffer' = result.rest
         /\ dispatched' = dispatched \o result.messages
  /\ UNCHANGED sent

StreamNext ==
  \/ \E text \in Texts : Send(text)
  \/ \E n \in 1..Len(wire) : HandleReadyRead(n)

\* All that is sent arrives, and the event loop goes on reading it: bytes leave
\* the wire in HandleReadyRead only.
StreamFairness == WF_wire(\E n \in 1..Len(wire) : Arrive(n))

StreamSpec == StreamInit /\ [][StreamNext]_streamVars /\ StreamFairness
-----------------------------------------------------------------------------
(* Properties.                                                             *)

\* The bytes of the messages with these texts.
Encoded(texts) ==
  LET Upto[n \in 0..Len(texts)] ==
        IF n = 0 THEN <<>> ELSE Upto[n - 1] \o Encode(texts[n])
  IN  Upto[Len(texts)]

Arrived == SubSeq(Encoded(sent), 1, Len(Encoded(sent)) - Len(wire))
HasArrived(n) == Len(Encoded(SubSeq(sent, 1, n))) <= Len(Arrived)

\* However the stream is cut into pieces, processBuffer dispatches the frames
\* that a reader of single bytes would, and its buffer holds the bytes of the
\* frame that is not complete yet.
CutIndependent ==
  LET reader == Read(Arrived)
      start == StartPos(buffer)
  IN  /\ dispatched = reader.messages
      /\ reader.frame = IF start = 0 THEN <<>> ELSE SubSeq(buffer, start, Len(buffer))

\* An empty object that stands in the text.
InText(frame, text) ==
  /\ IsEmptyObject(frame)
  /\ \E i, j \in DOMAIN text : frame = SubSeq(text, i, j)

\* Whatever braces the texts contain, processMessage gets the messages sent, none
\* twice and none out of order, and besides them nothing but the empty objects
\* in texts whose own message it does not get: these alone are answered although
\* nobody sent them.
DispatchedWereSent ==
  \E which \in [DOMAIN dispatched -> DOMAIN sent] :
    /\ \A i \in DOMAIN dispatched : \/ dispatched[i] = Encode(sent[which[i]])
                                   \/ InText(dispatched[i], sent[which[i]])
    /\ \A i, j \in DOMAIN dispatched :
         i < j => \/ which[i] < which[j]
                  \/ /\ which[i] = which[j]
                     /\ IsEmptyObject(dispatched[i]) /\ IsEmptyObject(dispatched[j])

\* How many of the first n texts are nested.
NestedUpto(n) == Cardinality({i \in 1..n : Nested(sent[i])})

\* A message is lost only if braces in its own text are not nested, or if an
\* earlier text left a brace open: up to the first of those, every message with
\* a nested text is dispatched when it has arrived, in its place among them.
LossIsLocal ==
  \A n \in 1..Len(sent) :
    (HasArrived(n) /\ Nested(sent[n]) /\ \A i \in 1..n : Harmless(sent[i])) =>
      \E i \in DOMAIN dispatched :
        /\ dispatched[i] = Encode(sent[n])
        /\ Cardinality({j \in 1..i : IsMessage(dispatched[j])}) = NestedUpto(n)

\* The inductive strengthening of CutIndependent: what has not arrived is on the
\* wire, and no complete frame is left in the buffer.
StreamTypeOK ==
  /\ sent \in Seq(Texts)
  /\ wire \in Seq(Bytes) /\ buffer \in Seq(Bytes)
  /\ dispatched \in Seq(Seq(Bytes))

StreamInv ==
  /\ StreamTypeOK
  /\ Arrived \in Seq(Bytes) /\ Encoded(sent) = Arrived \o wire
  /\ FirstFrame(buffer) = <<>>
  /\ CutIndependent

\* If all texts are nested, every message sent is dispatched in the end.
AllNested == \A i \in DOMAIN sent : Nested(sent[i])
NestedAreDispatched ==
  (Len(dispatched) < Len(sent)) ~> (Len(dispatched) = Len(sent) \/ ~AllNested)
=============================================================================
