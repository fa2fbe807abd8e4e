------------------------------ MODULE Framing ------------------------------
(***************************************************************************)
(* How ClientSession cuts the byte stream of a client into JSON messages:  *)
(* it counts braces, those inside texts too.                               *)
(*                                                                         *)
(* A byte is one of six tokens: "{" and "}" begin and end a message, "("   *)
(* and ")" are braces that belong to a text inside a message, " " is a     *)
(* space of a text, "x" is any other byte.  Objects nested in a message    *)
(* are closed inside it, so they are not told apart from other bytes.      *)
(***************************************************************************)
EXTENDS Integers, Sequences, FiniteSets, SequencesExt

CONSTANT Texts   \* the texts of the messages a client may send

Opens == {"{", "("}
Closes == {"}", ")"}
TextBytes == {"(", ")", " ", "x"}
Bytes == {"{", "}"} \cup TextBytes

ASSUME FramingAssumption == Texts \subseteq Seq(TextBytes)

\* The bytes of a message.
Encode(text) == <<"{">> \o text \o <<"}">>

\* The number of opening braces less that of closing ones: how much the bytes
\* change braceCount.
Balance(bytes) == Cardinality({i \in DOMAIN bytes : bytes[i] \in Opens})
                    - Cardinality({i \in DOMAIN bytes : bytes[i] \in Closes})

\* Does the frame run from the start of a message to the end of the same message?
IsMessage(frame) ==
  /\ frame[1] = "{"
  /\ frame[Len(frame)] = "}"
  /\ \A i \in 2..(Len(frame) - 1) : frame[i] \notin {"{", "}"}

\* An object without members, cut out of a text.
IsEmptyObject(frame) ==
  /\ Len(frame) >= 2
  /\ frame[1] = "("
  /\ frame[Len(frame)] = ")"
  /\ \A i \in 2..(Len(frame) - 1) : frame[i] = " "

\* Is the frame valid JSON?  What else is cut out of a text, or holds parts of
\* several messages, is not: quotes in a text are escaped, and the first that is
\* not ends a text that no colon follows.
Parses(frame) == IsMessage(frame) \/ IsEmptyObject(frame)

\* Mutation: the bytes before the first opening brace are not skipped.
StartAtFirstByte(b) == IF b = <<>> THEN 0 ELSE 1

\* startPos, counted from 1; 0 if there is no brace.
StartPos(b) == SelectInSeq(b, LAMBDA c : c \in Opens)

\* Mutation: a closing brace ends the message whatever was opened in it.
EndAtFirstClose(b, start) ==
  LET ends == {i \in (start + 1)..Len(b) : b[i] \in Closes}
  IN  IF ends = {} THEN 0 ELSE Min(ends)

\* endPos: where braceCount, which is 1 at startPos, comes back to 0 first.
EndPos(b, start) ==
  LET ends == {i \in (start + 1)..Len(b) : Balance(SubSeq(b, start, i)) = 0}
  IN  IF ends = {} THEN 0 ELSE Min(ends)

\* One turn of the loop: the frame it finds, <<>> if there is none.
FirstFrame(b) ==
  LET start == StartPos(b)
      end == IF start = 0 THEN 0 ELSE EndPos(b, start)
  IN  IF end = 0 THEN <<>> ELSE SubSeq(b, start, end)

\* What one turn makes of the frames dispatched so far and of the buffer.  A
\* frame that does not parse is dropped without an answer, as are the bytes
\* before it; processMessage gets the others.  It answers an empty object, which
\* has no type, with an error and changes nothing.
AfterFrame(result, frame) ==
  [messages |-> IF Parses(frame) THEN Append(result.messages, frame)
                ELSE result.messages,
   rest |-> SubSeq(result.rest, StartPos(result.rest) + Len(frame), Len(result.rest))]

Unprocessed(b) == [messages |-> <<>>, rest |-> b]

\* Mutation: one message is taken from the buffer for each readyRead.
ProcessOnce(b) ==
  IF FirstFrame(b) = <<>> THEN Unprocessed(b)
  ELSE AfterFrame(Unprocessed(b), FirstFrame(b))

\* Mutation: the buffer is cleared when a message was found in it.
ProcessAndClear(b) ==
  IF FirstFrame(b) = <<>> THEN Unprocessed(b)
  ELSE [AfterFrame(Unprocessed(b), FirstFrame(b)) EXCEPT !.rest = <<>>]

\* Mutation: a frame that is all of the buffer is dispatched but not removed.
ProcessKeepLast(b) ==
  IF FirstFrame(b) = b THEN [AfterFrame(Unprocessed(b), b) EXCEPT !.rest = b]
  ELSE ProcessOnce(b)

Turn(result) ==
  LET frame == FirstFrame(result.rest)
  IN  IF frame = <<>> THEN result ELSE AfterFrame(result, frame)

\* processBuffer: the frames it dispatches, in order, and what stays in the
\* buffer.  A turn that finds a frame shortens the buffer, so the loop has ended
\* after one turn for each byte.
ProcessBuffer(b) ==
  LET After[n \in 0..Len(b)] ==
        IF n = 0 THEN Unprocessed(b) ELSE Turn(After[n - 1])
  IN  After[Len(b)]
-----------------------------------------------------------------------------
(* The reference: the same stream read byte by byte, with no buffer.        *)

NextByte(reader, c) ==
  LET frame == Append(reader.frame, c)
  IN  IF reader.frame = <<>> /\ c \notin Opens THEN reader
      ELSE IF Balance(frame) > 0 THEN [reader EXCEPT !.frame = frame]
      ELSE [frame |-> <<>>,
            messages |-> IF Parses(frame) THEN Append(reader.messages, frame)
                         ELSE reader.messages]

ReadFrom(reader, bytes) ==
  LET After[n \in 0..Len(bytes)] ==
        IF n = 0 THEN reader ELSE NextByte(After[n - 1], bytes[n])
  IN  After[Len(bytes)]

Read(bytes) == ReadFrom([frame |-> <<>>, messages |-> <<>>], bytes)

\* Braces in the text are nested.
Nested(text) ==
  /\ \A i \in DOMAIN text : Balance(SubSeq(text, 1, i)) >= 0
  /\ Balance(text) = 0

\* The text leaves no brace open: it may lose its own message, but no other.
Harmless(text) == Read(Encode(text)).frame = <<>>
=============================================================================
