---------------------------- MODULE StreamProofs ---------------------------
(***************************************************************************)
(* Proofs about Stream, for any texts, any number of messages and any way  *)
(* of cutting the stream into pieces.                                      *)
(***************************************************************************)
EXTENDS Stream, FramingProofs

\* The bytes of the first 0, 1, ... messages.
IsEncoding(f, texts) ==
  /\ f[0] = <<>>
  /\ \A n \in 0..Len(texts) : f[n] \in Seq(Bytes)
  /\ \A n \in 1..Len(texts) : f[n] = f[n - 1] \o Encode(texts[n])

LEMMA EncodingExists ==
  ASSUME NEW texts \in Seq(Texts)
  PROVE  \E f : IsEncoding(f, texts) /\ Encoded(texts) = f[Len(texts)]
<1> DEFINE N == Len(texts)
           next == [n \in 1..N |-> [s \in Seq(Bytes) |-> s \o Encode(texts[n])]]
           Upto(f) == f = [n \in 0..N |-> IF n = 0 THEN <<>>
                                          ELSE f[n - 1] \o Encode(texts[n])]
<1>1. N \in Nat /\ \A n \in 1..N : texts[n] \in Texts
  OBVIOUS
<1>2. \A n \in 1..N : \A s \in Seq(Bytes) : s \o Encode(texts[n]) \in Seq(Bytes)
  BY <1>1, EncodeType, ConcatProperties
<1>3. next \in [1..N -> [Seq(Bytes) -> Seq(Bytes)]]
  BY <1>2
<1>4. \A s \in Seq(Bytes), n \in 1..N : next[n][s] = s \o Encode(texts[n])
  OBVIOUS
<1>5. <<>> \in Seq(Bytes)
  OBVIOUS
<1>6. PICK f \in [0..N -> Seq(Bytes)] :
        f[0] = <<>> /\ \A n \in 1..N : f[n] = next[n][f[n - 1]]
  <2>1. IsRecursion(Seq(Bytes), <<>>, next, N)
    BY <1>1, <1>3, <1>5 DEF IsRecursion
  <2> HIDE DEF next
  <2> QED
    BY <2>1, Recursion DEF Defines
<1>7. ASSUME NEW n \in 0..N
      PROVE  f[n] = IF n = 0 THEN <<>> ELSE f[n - 1] \o Encode(texts[n])
  <2>1. n # 0 => n \in 1..N /\ n - 1 \in 0..N
    BY <1>1
  <2>2. n # 0 => f[n - 1] \in Seq(Bytes)
    BY <2>1
  <2> HIDE DEF next
  <2> QED
    BY <1>4, <1>6, <2>1, <2>2
<1>8. Upto(f)
  <2> HIDE DEF next
  <2> QED
    BY <1>6, <1>7
<1> DEFINE g == CHOOSE g : Upto(g)
<1>9. Upto(g)
  <2> HIDE DEF Upto
  <2> QED
    BY <1>8
<1>10. Encoded(texts) = g[N]
  BY DEF Encoded
<1> HIDE DEF g
<1>11. g[0] = <<>> /\ \A n \in 1..N : g[n] = g[n - 1] \o Encode(texts[n])
  <2>1. g[0] = <<>>
    <3>1. 0 \in 0..N
      BY <1>1
    <3>2. g[0] = IF 0 = 0 THEN <<>> ELSE g[0 - 1] \o Encode(texts[0])
      BY <1>9, <3>1
    <3> QED
      BY <3>2
  <2>2. ASSUME NEW n \in 1..N
        PROVE  g[n] = g[n - 1] \o Encode(texts[n])
    <3>1. n \in 0..N /\ n # 0
      BY <1>1
    <3> QED
      BY <1>9, <3>1
  <2> QED
    BY <2>1, <2>2
<1>12. \A n \in 0..N : n \in {k \in Nat : g[k] \in Seq(Bytes)}
  <2>1. ASSUME NEW n \in 1..N, n - 1 \in {k \in Nat : g[k] \in Seq(Bytes)}
        PROVE  n \in {k \in Nat : g[k] \in Seq(Bytes)}
    <3>1. g[n - 1] \o Encode(texts[n]) \in Seq(Bytes)
      BY <1>2, <2>1
    <3>2. n \in Nat /\ g[n] = g[n - 1] \o Encode(texts[n])
      BY <1>11
    <3> QED
      BY <3>1, <3>2
  <2>2. 0 \in {k \in Nat : g[k] \in Seq(Bytes)}
    BY <1>5, <1>11
  <2> QED
    BY <1>1, <2>1, <2>2, InductionUpto
<1> QED
  BY <1>10, <1>11, <1>12 DEF IsEncoding

LEMMA EncodedEmpty == Encoded(<<>>) = <<>>
<1>1. <<>> \in Seq(Texts) /\ Len(<<>>) = 0
  OBVIOUS
<1> QED
  BY <1>1, EncodingExists DEF IsEncoding

\* One message more.
LEMMA EncodedAppend ==
  ASSUME NEW texts \in Seq(Texts), NEW text \in Texts
  PROVE  /\ Encoded(texts) \in Seq(Bytes)
         /\ Encoded(Append(texts, text)) = Encoded(texts) \o Encode(text)
<1> DEFINE more == Append(texts, text)
           N == Len(texts)
<1>1. /\ more \in Seq(Texts) /\ Len(more) = N + 1 /\ more[N + 1] = text /\ N \in Nat
      /\ \A n \in 1..N : more[n] = texts[n]
  BY AppendProperties
<1>2. PICK f : IsEncoding(f, texts) /\ Encoded(texts) = f[N]
  BY EncodingExists
<1>3. PICK g : IsEncoding(g, more) /\ Encoded(more) = g[N + 1]
  <2> HIDE DEF more
  <2> QED
    BY <1>1, EncodingExists
<1> HIDE DEF more
<1> DEFINE S == {n \in Nat : f[n] = g[n]}
<1>4. 0 \in S
  BY <1>2, <1>3 DEF IsEncoding
<1>5. ASSUME NEW n \in 1..N, n - 1 \in S
      PROVE  n \in S
  <2>1. f[n] = f[n - 1] \o Encode(texts[n])
    BY <1>2 DEF IsEncoding
  <2>2. g[n] = g[n - 1] \o Encode(more[n])
    <3>1. n \in 1..Len(more)
      BY <1>1
    <3> QED
      BY <1>3, <3>1 DEF IsEncoding
  <2>3. f[n - 1] = g[n - 1] /\ more[n] = texts[n] /\ n \in Nat
    BY <1>1, <1>5
  <2>4. f[n] = g[n]
    BY <2>1, <2>2, <2>3
  <2> QED
    BY <2>3, <2>4
<1>6. \A n \in 0..N : n \in S
  <2> HIDE DEF S
  <2> QED
    BY <1>1, <1>4, <1>5, InductionUpto
<1>7. f[N] = g[N] /\ f[N] \in Seq(Bytes)
  <2>1. N \in 0..N
    BY <1>1
  <2> QED
    BY <1>2, <1>6, <2>1 DEF IsEncoding
<1>8. g[N + 1] = g[N] \o Encode(text)
  <2>1. N + 1 \in 1..Len(more) /\ (N + 1) - 1 = N
    BY <1>1
  <2> QED
    BY <1>1, <1>3, <2>1 DEF IsEncoding
<1> QED
  BY <1>2, <1>3, <1>7, <1>8 DEF more
-----------------------------------------------------------------------------
(* The stream.                                                             *)

\* The beginning of a stream whose end is w.
LEMMA BeforeWire ==
  ASSUME NEW a \in Seq(Bytes), NEW w \in Seq(Bytes), NEW e, e = a \o w
  PROVE  SubSeq(e, 1, Len(e) - Len(w)) = a
<1>1. Len(a \o w) - Len(w) = Len(a)
  BY ConcatProperties
<1>2. SubSeq(a \o w, 1, Len(a)) = a
  BY PrefixOfConcat
<1> QED
  BY <1>1, <1>2

\* A reader is its frame and its messages.
LEMMA ReadIs ==
  ASSUME NEW a \in Seq(Bytes), NEW frame, NEW m
  PROVE  /\ Read(a) \in Readers
         /\ Read(a).messages = m /\ Read(a).frame = frame <=> Read(a) = Reader(frame, m)
<1>1. <<>> \in Seq(Seq(Bytes))
  OBVIOUS
<1>2. Read(a) = ReadFrom(Reader(<<>>, <<>>), a) /\ Reader(<<>>, <<>>) \in Readers
  BY <1>1, EmptyReader DEF Read, Reader
<1>3. PICK r \in Readers : r = Read(a)
  BY <1>2, ReadFromType
<1>4. r = [frame |-> r.frame, messages |-> r.messages]
  BY DEF Readers
<1>5. r.messages = m /\ r.frame = frame <=> r = Reader(frame, m)
  BY <1>4 DEF Reader
<1> QED
  BY <1>3, <1>5

\* A new session has received nothing.
LEMMA InitInv == StreamInit => StreamInv
<1> SUFFICES ASSUME StreamInit PROVE StreamInv
  OBVIOUS
<1>1. StreamTypeOK
  <2>1. <<>> \in Seq(Texts) /\ <<>> \in Seq(Bytes) /\ <<>> \in Seq(Seq(Bytes))
    OBVIOUS
  <2> QED
    BY <2>1 DEF StreamInit, StreamTypeOK
<1>2. Arrived = <<>> /\ <<>> \in Seq(Bytes) /\ Encoded(sent) = <<>> \o wire
  <2>1. <<>> \in Seq(Bytes) /\ <<>> \o <<>> = <<>>
    OBVIOUS
  <2>2. Encoded(sent) = <<>> \o wire
    BY <2>1, EncodedEmpty DEF StreamInit
  <2> QED
    BY <1>1, <2>1, <2>2, BeforeWire DEF StreamTypeOK, Arrived
<1>3. FirstFrame(<<>>) = <<>> /\ Unfinished(<<>>) = <<>>
  BY FirstFrameEmpty
<1>4. <<>> \in Seq(Seq(Bytes))
  OBVIOUS
<1>5. Read(<<>>) = Reader(<<>>, <<>>)
  BY <1>4, EmptyReader, ReadEmpty DEF Read, Reader
<1>6. buffer = <<>> /\ dispatched = <<>>
  BY DEF StreamInit
<1>7. CutIndependent
  BY <1>2, <1>3, <1>5, <1>6, ReadIs DEF CutIndependent, Unfinished
<1> QED
  BY <1>1, <1>2, <1>3, <1>6, <1>7 DEF StreamInv

\* A message more is a longer wire.
LEMMA SendInv ==
  ASSUME NEW text \in Texts, StreamInv, Send(text)
  PROVE  StreamInv'
<1>1. /\ sent \in Seq(Texts) /\ wire \in Seq(Bytes)
      /\ Encode(text) \in Seq(Bytes)
  BY EncodeType DEF StreamInv, StreamTypeOK
<1>2. PICK a \in Seq(Bytes) : a = Arrived
  BY DEF StreamInv
<1>3. StreamTypeOK'
  <2>1. wire \o Encode(text) \in Seq(Bytes) /\ Append(sent, text) \in Seq(Texts)
    BY <1>1, ConcatProperties, AppendProperties
  <2> QED
    BY <2>1 DEF StreamInv, StreamTypeOK, Send
<1>4. Encoded(sent)' = a \o wire'
  <2>1. Encoded(Append(sent, text)) = (a \o wire) \o Encode(text)
    BY <1>1, <1>2, EncodedAppend DEF StreamInv
  <2>2. (a \o wire) \o Encode(text) = a \o (wire \o Encode(text))
    BY <1>1, ConcatAssociative
  <2> QED
    BY <2>1, <2>2 DEF Send
<1>5. Arrived' = a
  <2>1. wire' \in Seq(Bytes)
    BY <1>3 DEF StreamTypeOK
  <2> QED
    BY <1>4, <2>1, BeforeWire DEF Arrived
<1>6. Arrived' \in Seq(Bytes) /\ Encoded(sent)' = Arrived' \o wire'
  BY <1>4, <1>5
<1>7. buffer' = buffer /\ dispatched' = dispatched
  BY DEF Send
<1>8. CutIndependent'
  BY <1>2, <1>5, <1>7 DEF CutIndependent, StreamInv
<1> QED
  BY <1>3, <1>6, <1>7, <1>8 DEF StreamInv

\* What processBuffer makes of the buffer and of a piece is what a reader makes
\* of the piece.
LEMMA ReadyReadInv ==
  ASSUME NEW n \in 1..Len(wire), StreamInv, HandleReadyRead(n)
  PROVE  StreamInv'
<1>1. sent \in Seq(Texts) /\ wire \in Seq(Bytes) /\ buffer \in Seq(Bytes)
      /\ dispatched \in Seq(Seq(Bytes)) /\ FirstFrame(buffer) = <<>>
  BY DEF StreamInv, StreamTypeOK
<1>2. PICK a \in Seq(Bytes) : a = Arrived /\ Encoded(sent) = a \o wire
  BY DEF StreamInv
<1>3. PICK piece \in Seq(Bytes), rest \in Seq(Bytes) :
        /\ piece = SubSeq(wire, 1, n) /\ rest = SubSeq(wire, n + 1, Len(wire))
        /\ piece \o rest = wire
  BY <1>1, SplitPiece
<1>4. PICK result \in Results : result = ProcessBuffer(buffer \o piece)
  <2>1. buffer \o piece \in Seq(Bytes)
    BY <1>1, ConcatProperties
  <2> QED
    BY <1>1, <2>1, ProcessBufferReads
<1>5. /\ wire' = rest /\ sent' = sent /\ buffer' = result.rest
      /\ dispatched' = dispatched \o result.messages
  BY <1>3, <1>4 DEF HandleReadyRead, Arrive
<1>6. result.rest \in Seq(Bytes) /\ result.messages \in Seq(Seq(Bytes))
  BY DEF Results
<1>7. StreamTypeOK'
  <2>1. dispatched \o result.messages \in Seq(Seq(Bytes))
    BY <1>1, <1>6, ConcatProperties
  <2> QED
    BY <1>1, <1>5, <1>6, <2>1 DEF StreamTypeOK
<1>8. a \o piece \in Seq(Bytes) /\ Encoded(sent)' = (a \o piece) \o wire'
  <2>1. (a \o piece) \o rest = a \o (piece \o rest)
    BY ConcatAssociative
  <2>2. a \o piece \in Seq(Bytes)
    BY ConcatProperties
  <2> QED
    BY <1>2, <1>3, <1>5, <2>1, <2>2
<1>9. Arrived' = a \o piece
  <2>1. wire' \in Seq(Bytes)
    BY <1>5
  <2> QED
    BY <1>8, <2>1, BeforeWire DEF Arrived
<1>10. Read(a) = Reader(Unfinished(buffer), dispatched)
  BY <1>2, ReadIs DEF StreamInv, CutIndependent, Unfinished
<1>11. /\ FirstFrame(buffer') = <<>>
       /\ Read(a \o piece) = Reader(Unfinished(buffer'), dispatched')
  <2>1. /\ Reader(<<>>, <<>>) \in Readers /\ Reader(<<>>, dispatched) \in Readers
        /\ \A s : Read(s) = ReadFrom(Reader(<<>>, <<>>), s)
    <3>1. <<>> \in Seq(Seq(Bytes))
      OBVIOUS
    <3> QED
      BY <1>1, <3>1, EmptyReader DEF Read, Reader
  <2>2. Read(a \o piece) = ReadFrom(Read(a), piece)
    BY <2>1, ReadConcat
  <2>3. Read(a) = ReadFrom(Reader(<<>>, dispatched), buffer)
    BY <1>1, <1>10, ReadUnfinished
  <2>4. ReadFrom(ReadFrom(Reader(<<>>, dispatched), buffer), piece)
          = ReadFrom(Reader(<<>>, dispatched), buffer \o piece)
    BY <1>1, <2>1, ReadConcat
  <2>5. buffer \o piece \in Seq(Bytes)
    BY <1>1, ConcatProperties
  <2>6. /\ FirstFrame(result.rest) = <<>>
        /\ ReadFrom(Reader(<<>>, dispatched), buffer \o piece)
             = Reader(Unfinished(result.rest), dispatched \o result.messages)
    BY <1>1, <1>4, <2>5, ProcessBufferReads
  <2> QED
    BY <1>5, <2>2, <2>3, <2>4, <2>6
<1>12. CutIndependent'
  BY <1>8, <1>9, <1>11, ReadIs DEF CutIndependent, Unfinished
<1> QED
  BY <1>7, <1>8, <1>9, <1>11, <1>12 DEF StreamInv

\* The invariant is inductive.
THEOREM StreamInvHolds == StreamSpec => []StreamInv
<1>1. StreamInv /\ [StreamNext]_streamVars => StreamInv'
  <2>1. StreamInv /\ UNCHANGED streamVars => StreamInv'
    BY DEF StreamInv, StreamTypeOK, streamVars, Arrived, CutIndependent
  <2> QED
    BY <2>1, SendInv, ReadyReadInv DEF StreamNext
<1> QED
  BY InitInv, <1>1, PTL DEF StreamSpec

\* However TCP cuts the stream into pieces, ClientSession dispatches the same
\* messages and waits for the end of the same frame.
THEOREM CutIndependentHolds == StreamSpec => []CutIndependent
BY StreamInvHolds, PTL DEF StreamInv
-----------------------------------------------------------------------------
(* One message read.                                                       *)

\* Up to each byte of a text, braceCount is one more than in the text alone.
LEMMA BalanceOfMessage ==
  ASSUME NEW text \in Texts
  PROVE  /\ \A j \in 0..Len(text) :
              /\ Balance(SubSeq(text, 1, j)) \in Int
              /\ Balance(SubSeq(Encode(text), 1, j + 1)) = 1 + Balance(SubSeq(text, 1, j))
         /\ Balance(Encode(text)) = Balance(text)
<1>1. PICK E \in Seq(Bytes) : E = Encode(text) /\ IsBraced(E, text)
  BY EncodeType, EncodeIsBraced
<1>2. text \in Seq(Bytes)
  BY EncodeType
<1>3. PICK N \in Nat : N = Len(text) /\ Len(E) = N + 2
  BY <1>1 DEF IsBraced
<1>4. /\ E[1] = "{" /\ E[N + 2] = "}"
      /\ \A i \in 2..(N + 1) : E[i] = text[i - 1]
  BY <1>1, <1>3 DEF IsBraced
<1> DEFINE P(j) == /\ Balance(SubSeq(text, 1, j)) \in Int
                   /\ Balance(SubSeq(E, 1, j + 1)) = 1 + Balance(SubSeq(text, 1, j))
           S == {j \in Nat : P(j)}
<1>5. 0 \in S
  <2>1. SubSeq(text, 1, 0) = <<>> /\ 1 \in 1..Len(E)
    BY <1>3, SubSeqEmpty
  <2>2. SubSeq(E, 1, 1) = <<E[1]>>
    BY <2>1, SubSeqOne
  <2>3. Balance(SubSeq(E, 1, 1)) = 1
    BY <1>4, <2>2, BalanceOne, Weights
  <2>4. Balance(SubSeq(text, 1, 0)) = 0
    BY <2>1, BalanceEmpty
  <2>5. P(0)
    BY <2>3, <2>4
  <2> HIDE DEF P
  <2> QED
    BY <2>5
<1>6. ASSUME NEW j \in 1..N, j - 1 \in S
      PROVE  j \in S
  <2>1. PICK i \in 2..(N + 1) : i = j + 1 /\ i - 1 = j
    BY <1>3
  <2>2. j \in 1..Len(text) /\ 1 \in 1..Len(text) /\ 1 \in 1..Len(E) /\ i \in 1..Len(E)
    BY <1>3, <2>1
  <2>3. E[i] = text[j] /\ text[j] \in Bytes
    <3>1. E[i] = text[i - 1]
      BY <1>4, <2>1
    <3> QED
      BY <1>2, <2>1, <2>2, <3>1
  <2>4. /\ SubSeq(text, 1, j - 1) \in Seq(Bytes)
        /\ SubSeq(text, 1, j) = Append(SubSeq(text, 1, j - 1), text[j])
    BY <1>2, <2>2, SubSeqAppend
  <2>5. /\ SubSeq(E, 1, i - 1) \in Seq(Bytes)
        /\ SubSeq(E, 1, i) = Append(SubSeq(E, 1, i - 1), E[i])
    BY <2>2, SubSeqAppend
  <2>6. Balance(SubSeq(text, 1, j)) = Balance(SubSeq(text, 1, j - 1)) + Weight(text[j])
    BY <2>3, <2>4, BalanceAppend
  <2>7. Balance(SubSeq(E, 1, j + 1)) = Balance(SubSeq(E, 1, j)) + Weight(text[j])
    BY <2>1, <2>3, <2>5, BalanceAppend
  <2>8. /\ Balance(SubSeq(text, 1, j - 1)) \in Int /\ Weight(text[j]) \in Int
        /\ Balance(SubSeq(E, 1, j)) = 1 + Balance(SubSeq(text, 1, j - 1))
    <3>1. P(j - 1) /\ (j - 1) + 1 = j
      BY <1>6
    <3> QED
      BY <2>3, <3>1, Weights
  <2>9. P(j)
    BY <2>6, <2>7, <2>8
  <2> HIDE DEF P
  <2> QED
    BY <2>9
<1>7. \A j \in 0..N : j \in S
  <2> HIDE DEF S
  <2> QED
    BY <1>5, <1>6, InductionUpto
<1>8. Balance(E) = Balance(text)
  <2>1. N \in 0..N /\ SubSeq(text, 1, N) = text
    BY <1>2, <1>3, SubSeqFull
  <2>2. Balance(text) \in Int /\ Balance(SubSeq(E, 1, N + 1)) = 1 + Balance(text)
    <3>1. P(N)
      BY <1>7, <2>1
    <3> QED
      BY <2>1, <3>1
  <2>3. PICK i \in 1..Len(E) : i = N + 2 /\ i = Len(E) /\ i - 1 = N + 1 /\ 1 \in 1..Len(E)
    BY <1>3
  <2>4. /\ SubSeq(E, 1, i - 1) \in Seq(Bytes)
        /\ SubSeq(E, 1, i) = Append(SubSeq(E, 1, i - 1), E[i])
    BY <2>3, SubSeqAppend
  <2>5. SubSeq(E, 1, i) = E
    BY <2>3, SubSeqFull
  <2>6. Balance(E) = Balance(SubSeq(E, 1, i - 1)) + -1
    BY <1>4, <2>3, <2>4, <2>5, BalanceAppend, Weights
  <2> QED
    BY <2>2, <2>3, <2>6
<1> QED
  BY <1>1, <1>3, <1>7, <1>8

\* braceCount stays positive in a message up to its last brace exactly if the
\* braces of its text are nested or one of them stays open.
LEMMA NestedIsPositive ==
  ASSUME NEW text \in Texts
  PROVE  Nested(text) <=>
           /\ \A k \in 1..(Len(text) + 1) : Balance(SubSeq(Encode(text), 1, k)) > 0
           /\ ~(Balance(Encode(text)) > 0)
<1> DEFINE E == Encode(text)
<1>1. /\ text \in Seq(Bytes) /\ Len(text) \in Nat /\ DOMAIN text = 1..Len(text)
      /\ SubSeq(text, 1, Len(text)) = text
  <2>1. text \in Seq(Bytes)
    BY EncodeType
  <2> QED
    BY <2>1, SubSeqFull
<1>2. ASSUME NEW j \in 0..Len(text)
      PROVE  /\ Balance(SubSeq(text, 1, j)) \in Int
             /\ Balance(SubSeq(E, 1, j + 1)) = 1 + Balance(SubSeq(text, 1, j))
  BY BalanceOfMessage
<1>3. Balance(E) = Balance(text)
  BY BalanceOfMessage
<1>4. Balance(SubSeq(text, 1, 0)) = 0
  <2>1. SubSeq(text, 1, 0) = <<>>
    BY SubSeqEmpty
  <2> QED
    BY <2>1, BalanceEmpty
<1>5. Balance(text) \in Int
  <2>1. Len(text) \in 0..Len(text)
    BY <1>1
  <2> QED
    BY <1>1, <1>2, <2>1
<1> HIDE DEF E
<1>6. ASSUME Nested(text), NEW k \in 1..(Len(text) + 1)
      PROVE  Balance(SubSeq(E, 1, k)) > 0
  <2>1. PICK j \in 0..Len(text) : k = j + 1
    BY <1>1
  <2>2. Balance(SubSeq(text, 1, j)) >= 0
    <3>1. j = 0 \/ j \in DOMAIN text
      BY <1>1
    <3> QED
      BY <1>4, <1>6, <3>1 DEF Nested
  <2> QED
    BY <1>2, <2>1, <2>2
<1>7. ASSUME Nested(text)
      PROVE  ~(Balance(E) > 0)
  BY <1>3, <1>5, <1>7 DEF Nested
<1>8. ASSUME \A k \in 1..(Len(text) + 1) : Balance(SubSeq(E, 1, k)) > 0,
             ~(Balance(E) > 0)
      PROVE  Nested(text)
  <2>1. ASSUME NEW j \in 0..Len(text)
        PROVE  Balance(SubSeq(text, 1, j)) >= 0
    <3>1. j + 1 \in 1..(Len(text) + 1)
      BY <1>1
    <3>2. Balance(SubSeq(E, 1, j + 1)) > 0
      BY <1>8, <3>1
    <3> QED
      BY <1>2, <3>2
  <2>2. Balance(text) >= 0
    <3>1. Len(text) \in 0..Len(text)
      BY <1>1
    <3> QED
      BY <1>1, <2>1, <3>1
  <2>3. \A j \in DOMAIN text : j \in 0..Len(text)
    BY <1>1
  <2> QED
    BY <1>3, <1>5, <1>8, <2>1, <2>2, <2>3 DEF Nested
<1> QED
  BY <1>6, <1>7, <1>8 DEF E

LEMMA EncodeIsMessage ==
  ASSUME NEW text \in Texts
  PROVE  IsMessage(Encode(text)) /\ Parses(Encode(text))
<1>1. PICK E \in Seq(Bytes) : E = Encode(text) /\ IsBraced(E, text)
  BY EncodeType, EncodeIsBraced
<1>2. PICK N \in Nat : N = Len(text) /\ Len(E) = N + 2
  BY <1>1 DEF IsBraced
<1>3. /\ E[1] = "{" /\ E[N + 2] = "}"
      /\ \A i \in 2..(N + 1) : E[i] \in TextBytes
  BY <1>1, <1>2 DEF IsBraced
<1>4. ASSUME NEW i \in 2..(Len(E) - 1)
      PROVE  E[i] \notin {"{", "}"}
  <2>1. i \in 2..(N + 1)
    BY <1>2
  <2> QED
    BY <1>3, <2>1 DEF TextBytes
<1> QED
  BY <1>1, <1>2, <1>3, <1>4 DEF IsMessage, Parses

\* A message whose text is nested is read, wherever an empty reader meets it.
LEMMA NestedIsRead ==
  ASSUME NEW text \in Texts, NEW m \in Seq(Seq(Bytes)), Nested(text)
  PROVE  ReadFrom(Reader(<<>>, m), Encode(text)) = Reader(<<>>, Append(m, Encode(text)))
<1>1. PICK E \in Seq(Bytes) : E = Encode(text) /\ IsBraced(E, text)
  BY EncodeType, EncodeIsBraced
<1>2. PICK N \in Nat : N = Len(text) /\ Len(E) = N + 2
  BY <1>1 DEF IsBraced
<1>3. /\ \A k \in 1..(N + 1) : Balance(SubSeq(E, 1, k)) > 0
      /\ ~(Balance(E) > 0)
  BY <1>1, <1>2, NestedIsPositive
<1>4. PICK top \in 0..Len(E) : top = N + 1 /\ ~(top < 1)
  BY <1>2
<1>5. ReadFrom(Reader(<<>>, m), SubSeq(E, 1, top)) = Reader(SubSeq(E, 1, top), m)
  <2>1. 1 \in 1..(Len(E) + 1) /\ \A i \in 1..(1 - 1) : E[i] \notin Opens
    BY <1>2
  <2>2. E[1] \in Opens
    BY <1>1 DEF IsBraced, Opens
  <2>3. \A i \in 1..top : Balance(SubSeq(E, 1, i)) > 0
    BY <1>3, <1>4
  <2>4. ReadFrom(Reader(<<>>, m), SubSeq(E, 1, top))
          = Reader(IF top < 1 THEN <<>> ELSE SubSeq(E, 1, top), m)
    BY <2>1, <2>2, <2>3, ReadGrows
  <2> QED
    BY <1>4, <2>4
<1>6. PICK last \in 1..Len(E) : last = Len(E) /\ last - 1 = top /\ 1 \in 1..Len(E)
  BY <1>2, <1>4
<1>7. /\ SubSeq(E, 1, top) \in Seq(Bytes) /\ E[last] \in Bytes
      /\ E = Append(SubSeq(E, 1, top), E[last])
  BY <1>6, SubSeqAppend, SubSeqFull
<1>8. ReadFrom(Reader(<<>>, m), E) = NextByte(Reader(SubSeq(E, 1, top), m), E[last])
  <2>1. Reader(<<>>, m) \in Readers
    BY EmptyReader
  <2> QED
    BY <1>5, <1>7, <2>1, ReadAppend
<1>9. SubSeq(E, 1, top) # <<>>
  <2>1. Len(SubSeq(E, 1, top)) = (top - 1) + 1
    <3>1. \A i \in 1..top : E[i] \in Bytes
      BY <1>4
    <3>2. 1 \in Int /\ top \in Int /\ 1 <= top
      BY <1>4
    <3> QED
      BY <3>1, <3>2, SubSeqProperties
  <2>2. (top - 1) + 1 # 0
    BY <1>4
  <2>3. Len(<<>>) = 0
    OBVIOUS
  <2> QED
    BY <2>1, <2>2, <2>3
<1>10. NextByte(Reader(SubSeq(E, 1, top), m), E[last])
         = Reader(<<>>, IF Parses(E) THEN Append(m, E) ELSE m)
  BY <1>3, <1>7, <1>9, NextByteEnds
<1> QED
  BY <1>1, <1>8, <1>10, EncodeIsMessage

\* Another message began in the frame, which then does not parse.
Spoilt(frame) == \E i \in 2..Len(frame) : frame[i] = "{"

\* The byte that spoils a frame, or follows in one that is spoilt.
Spoils(frame, c) == Spoilt(frame) \/ (frame # <<>> /\ c = "{")

LEMMA SpoiltDoesNotParse ==
  ASSUME NEW frame \in Seq(Bytes), Spoilt(frame)
  PROVE  ~Parses(frame)
<1>1. PICK i \in 2..Len(frame) : frame[i] = "{"
  BY DEF Spoilt
<1>2. i = Len(frame) \/ i \in 2..(Len(frame) - 1)
  OBVIOUS
<1>3. ~IsMessage(frame)
  BY <1>1, <1>2 DEF IsMessage
<1>4. ~IsEmptyObject(frame)
  BY <1>1, <1>2 DEF IsEmptyObject
<1> QED
  BY <1>3, <1>4 DEF Parses

LEMMA SpoiltStays ==
  ASSUME NEW frame \in Seq(Bytes), NEW c \in Bytes,
         Spoils(frame, c)
  PROVE  Spoilt(Append(frame, c)) /\ frame # <<>>
<1>1. PICK s \in Seq(Bytes) : s = Append(frame, c)
  BY AppendProperties
<1>2. PICK n \in Nat : n = Len(frame) /\ Len(s) = n + 1
  BY <1>1, AppendProperties
<1>3. s[n + 1] = c /\ \A i \in 1..n : s[i] = frame[i]
  BY <1>1, <1>2, AppendProperties
<1>4. n = 0 <=> frame = <<>>
  BY <1>2, EmptySeq
<1>5. ASSUME NEW i \in 2..n, frame[i] = "{"
      PROVE  Spoilt(s) /\ n # 0
  <2>1. i \in 2..(n + 1) /\ i \in 1..n /\ n # 0
    <3> HIDE <1>5
    <3> QED
      OBVIOUS
  <2> QED
    BY <1>2, <1>3, <1>5, <2>1 DEF Spoilt
<1>6. ASSUME n # 0, c = "{"
      PROVE  Spoilt(s)
  <2>1. n + 1 \in 2..(n + 1)
    <3>1. n # 0
      BY <1>6
    <3> HIDE <1>6
    <3> QED
      BY <3>1
  <2> QED
    BY <1>2, <1>3, <1>6, <2>1 DEF Spoilt
<1> QED
  BY <1>1, <1>2, <1>4, <1>5, <1>6 DEF Spoilt, Spoils

LEMMA SpoiltReads ==
  ASSUME NEW frame \in Seq(Bytes), NEW m \in Seq(Seq(Bytes)), NEW c \in Bytes,
         Spoils(frame, c)
  PROVE  \E next \in Seq(Bytes) :
           /\ next = <<>> \/ Spoilt(next)
           /\ NextByte(Reader(frame, m), c) = Reader(next, m)
<1>1. /\ Spoilt(Append(frame, c)) /\ Append(frame, c) \in Seq(Bytes) /\ frame # <<>>
  BY SpoiltStays, AppendProperties
<1>2. <<>> \in Seq(Bytes) /\ ~Parses(Append(frame, c))
  <2>1. <<>> \in Seq(Bytes)
    OBVIOUS
  <2> QED
    BY <1>1, <2>1, SpoiltDoesNotParse
<1>3. CASE Balance(Append(frame, c)) > 0
  <2>1. NextByte(Reader(frame, m), c) = Reader(Append(frame, c), m)
    BY <1>1, <1>3, NextByteKept
  <2> QED
    BY <1>1, <2>1
<1>4. CASE ~(Balance(Append(frame, c)) > 0)
  <2>1. NextByte(Reader(frame, m), c) = Reader(<<>>, m)
    BY <1>1, <1>2, <1>4, NextByteEnds
  <2> QED
    BY <1>2, <2>1
<1> QED
  BY <1>3, <1>4

LEMMA SubSeqIs ==
  ASSUME NEW S, NEW s \in Seq(S), NEW m \in 1..Len(s), NEW n \in m..Len(s)
  PROVE  /\ SubSeq(s, m, n) \in Seq(S) /\ Len(SubSeq(s, m, n)) = n - m + 1
         /\ \A x \in 1..(n - m + 1) : SubSeq(s, m, n)[x] = s[m + x - 1]
<1>1. m \in Int /\ n \in Int /\ m <= n /\ \A x \in m..n : s[x] \in S
  <2>1. \A x \in m..n : x \in 1..Len(s)
    OBVIOUS
  <2> QED
    BY <2>1
<1>2. SubSeq(s, m, n) \in Seq(S)
  BY SubSeqAppend
<1>3. PICK t \in Seq(S) : t = SubSeq(s, m, n)
  BY <1>2
<1>4. /\ Len(t) = IF m <= n THEN n - m + 1 ELSE 0
      /\ \A x \in 1..(n - m + 1) : t[x] = s[m + x - 1]
  BY <1>1, <1>3, SubSeqProperties
<1>5. Len(t) = n - m + 1
  BY <1>1, <1>4
<1> QED
  BY <1>2, <1>3, <1>4, <1>5

\* The bytes of a message from its a-th to its k-th, which are those of its text
\* before each.
LEMMA PartOfMessage ==
  ASSUME NEW text \in Texts, NEW a \in 1..Len(Encode(text)), NEW k \in a..Len(Encode(text))
  PROVE  LET E == Encode(text)
             s == SubSeq(E, a, k)
         IN  /\ s \in Seq(Bytes) /\ s # <<>> /\ Len(s) = k - a + 1
             /\ s[1] = E[a] /\ s[Len(s)] = E[k]
             /\ a >= 2 /\ k < Len(E) => /\ a - 1 \in DOMAIN text /\ k - 1 \in DOMAIN text
                                        /\ s = SubSeq(text, a - 1, k - 1)
<1>1. PICK E \in Seq(Bytes) : E = Encode(text) /\ IsBraced(E, text)
  BY EncodeType, EncodeIsBraced
<1>2. PICK N \in Nat : N = Len(text) /\ Len(E) = N + 2 /\ text \in Seq(Bytes)
  BY <1>1 DEF IsBraced
<1>3. PICK i \in 1..(N + 2), j \in 1..(N + 2) : i = a /\ j = k /\ i <= j
  BY <1>1, <1>2
<1>4. PICK s \in Seq(Bytes) : /\ s = SubSeq(E, i, j) /\ Len(s) = j - i + 1
                              /\ \A x \in 1..(j - i + 1) : s[x] = E[i + x - 1]
  <2>1. i \in 1..Len(E) /\ j \in i..Len(E)
    BY <1>2, <1>3
  <2>2. /\ SubSeq(E, i, j) \in Seq(Bytes) /\ Len(SubSeq(E, i, j)) = j - i + 1
        /\ \A x \in 1..(j - i + 1) : SubSeq(E, i, j)[x] = E[i + x - 1]
    BY <2>1, SubSeqIs
  <2> QED
    BY <2>2
<1>5. /\ 1 \in 1..(j - i + 1) /\ i + 1 - 1 = i
      /\ j - i + 1 \in 1..(j - i + 1) /\ i + (j - i + 1) - 1 = j
      /\ j - i + 1 # 0
  BY <1>3
<1>6. s[1] = E[i] /\ s[Len(s)] = E[j]
  BY <1>4, <1>5
<1>7. s # <<>>
  BY <1>4, <1>5, EmptySeq
<1>8. ASSUME i >= 2, j < N + 2
      PROVE  /\ i - 1 \in DOMAIN text /\ j - 1 \in DOMAIN text
             /\ s = SubSeq(text, i - 1, j - 1)
  <2>1. i \in 2..(N + 1) /\ j \in i..(N + 1) /\ j \in 2..(N + 1)
    <3>1. i >= 2 /\ j < N + 2
      BY <1>8
    <3> HIDE <1>8
    <3> QED
      BY <1>3, <3>1
  <2>2. PICK b \in 1..N, e \in 1..N : b = i - 1 /\ e = j - 1 /\ b <= e
    BY <2>1
  <2>3. b \in 1..Len(text) /\ e \in b..Len(text)
    BY <1>2, <2>2
  <2>4. PICK t \in Seq(Bytes) : /\ t = SubSeq(text, b, e) /\ Len(t) = e - b + 1
                                /\ \A x \in 1..(e - b + 1) : t[x] = text[b + x - 1]
    <3>1. PICK u \in Seq(Bytes) : u = text
      BY <1>2
    <3>2. /\ SubSeq(u, b, e) \in Seq(Bytes) /\ Len(SubSeq(u, b, e)) = e - b + 1
          /\ \A x \in 1..(e - b + 1) : SubSeq(u, b, e)[x] = u[b + x - 1]
      BY <2>3, <3>1, SubSeqIs
    <3> QED
      BY <3>1, <3>2
  <2>5. Len(t) = Len(s)
    BY <1>4, <2>2, <2>4
  <2>6. ASSUME NEW x \in 1..Len(s)
        PROVE  s[x] = t[x]
    <3>1. /\ x \in 1..(j - i + 1) /\ x \in 1..(e - b + 1)
          /\ i + x - 1 \in 2..(N + 1) /\ (i + x - 1) - 1 = b + x - 1
      BY <1>4, <2>1, <2>2
    <3>2. E[i + x - 1] = text[b + x - 1]
      BY <1>1, <1>2, <3>1 DEF IsBraced
    <3> QED
      BY <1>4, <2>4, <3>1, <3>2
  <2>7. s = t
    BY <2>5, <2>6, SeqEqual
  <2>8. DOMAIN text = 1..N /\ b \in 1..N /\ e \in 1..N
    BY <1>2
  <2> QED
    BY <2>2, <2>4, <2>7, <2>8
<1> QED
  BY <1>1, <1>2, <1>3, <1>4, <1>6, <1>7, <1>8

\* Only the first byte of a message begins one, and only the last ends one.
LEMMA InsideMessage ==
  ASSUME NEW text \in Texts
  PROVE  LET E == Encode(text)
         IN  /\ E[1] = "{" /\ E[Len(E)] = "}" /\ Len(E) \in Nat /\ Len(E) >= 2
             /\ \A k \in 1..Len(E) : E[k] \in Bytes
             /\ \A k \in 2..Len(E) : E[k] # "{"
             /\ \A k \in 2..Len(E) : k # Len(E) => E[k] # "}"
<1>1. PICK E \in Seq(Bytes) : E = Encode(text) /\ IsBraced(E, text)
  BY EncodeType, EncodeIsBraced
<1>2. PICK N \in Nat : N = Len(text) /\ Len(E) = N + 2
  BY <1>1 DEF IsBraced
<1>3. E[1] = "{" /\ E[N + 2] = "}" /\ \A i \in 2..(N + 1) : E[i] \in TextBytes
  BY <1>1, <1>2 DEF IsBraced
<1>4. ASSUME NEW k \in 2..Len(E)
      PROVE  E[k] # "{" /\ (k # Len(E) => E[k] # "}")
  <2>1. k = N + 2 \/ k \in 2..(N + 1)
    BY <1>2
  <2> QED
    BY <1>2, <1>3, <2>1 DEF TextBytes
<1>5. Len(E) >= 2 /\ Len(E) \in Nat
  BY <1>2
<1>6. E[Len(E)] = "}" /\ E[1] = "{"
  BY <1>2, <1>3
<1>7. \A k \in 1..Len(E) : E[k] \in Bytes
  OBVIOUS
<1> QED
  BY <1>1, <1>4, <1>5, <1>6, <1>7

\* Of a message the reader makes a frame that ends in it: only the whole of it is
\* a message, only a part of its text an empty object.
LEMMA PartParses ==
  ASSUME NEW text \in Texts, NEW a \in 1..Len(Encode(text)), NEW k \in a..Len(Encode(text)),
         Parses(SubSeq(Encode(text), a, k))
  PROVE  \/ a = 1 /\ k = Len(Encode(text))
         \/ a # 1 /\ InText(SubSeq(Encode(text), a, k), text)
<1> DEFINE E == Encode(text)
           s == SubSeq(E, a, k)
<1>1. /\ s[1] = E[a] /\ s[Len(s)] = E[k]
      /\ a >= 2 /\ k < Len(E) => /\ a - 1 \in DOMAIN text /\ k - 1 \in DOMAIN text
                                 /\ s = SubSeq(text, a - 1, k - 1)
  BY PartOfMessage
<1>2. /\ E[1] = "{" /\ E[Len(E)] = "}" /\ Len(E) \in Nat /\ Len(E) >= 2
      /\ \A i \in 2..Len(E) : E[i] # "{"
      /\ \A i \in 2..Len(E) : i # Len(E) => E[i] # "}"
  BY InsideMessage
<1>3. PICK n \in Nat : n = Len(E) /\ n >= 2
  BY <1>2
<1> HIDE DEF E, s
<1>4. a \in 1..n /\ k \in a..n
  BY <1>3 DEF E
<1>5. CASE IsMessage(s)
  <2>1. E[a] = "{" /\ E[k] = "}"
    BY <1>1, <1>5 DEF IsMessage
  <2>2. a = 1
    <3>1. a # 1 => a \in 2..n
      BY <1>4
    <3> QED
      BY <1>2, <1>3, <2>1, <3>1
  <2>3. k = n
    <3>1. k = 1 \/ k \in 2..n
      BY <1>4
    <3>2. k # 1
      BY <1>2, <2>1
    <3> QED
      BY <1>2, <1>3, <2>1, <3>1, <3>2
  <2> QED
    BY <1>3, <2>2, <2>3 DEF E
<1>6. CASE IsEmptyObject(s)
  <2>1. E[a] = "(" /\ E[k] = ")"
    BY <1>1, <1>6 DEF IsEmptyObject
  <2>2. a # 1 /\ k # n
    BY <1>2, <1>3, <2>1
  <2>3. a >= 2 /\ k < n
    BY <1>4, <2>2
  <2>4. /\ a - 1 \in DOMAIN text /\ k - 1 \in DOMAIN text
        /\ s = SubSeq(text, a - 1, k - 1)
    BY <1>1, <1>3, <2>3
  <2> QED
    BY <1>6, <2>2, <2>4 DEF InText, E, s
<1>7. Parses(s)
  BY DEF E, s
<1> QED
  BY <1>5, <1>6, <1>7 DEF Parses

\* d is m and after it empty objects in the text.
Pieces(more, text) ==
  more \in Seq(Seq(Bytes)) /\ \A i \in DOMAIN more : InText(more[i], text)

Adds(d, m, text) == \E more \in Seq(Seq(Bytes)) : Pieces(more, text) /\ d = m \o more

LEMMA AddsMore ==
  ASSUME NEW text, NEW m \in Seq(Seq(Bytes)), NEW d, Adds(d, m, text),
         NEW frame \in Seq(Bytes), InText(frame, text)
  PROVE  Adds(Append(d, frame), m, text)
<1>1. PICK e \in Seq(Seq(Bytes)) : Pieces(e, text) /\ d = m \o e
  BY DEF Adds
<1>2. PICK n \in Nat : n = Len(e) /\ DOMAIN e = 1..n
  OBVIOUS
<1>3. PICK longer \in Seq(Seq(Bytes)) :
        /\ longer = Append(e, frame) /\ DOMAIN longer = 1..(n + 1)
        /\ longer[n + 1] = frame /\ \A i \in 1..n : longer[i] = e[i]
  <2>1. /\ Append(e, frame) \in Seq(Seq(Bytes)) /\ Len(Append(e, frame)) = n + 1
        /\ \A i \in 1..n : Append(e, frame)[i] = e[i]
        /\ Append(e, frame)[n + 1] = frame
    BY <1>2, AppendProperties
  <2> QED
    BY <2>1, LenProperties
<1>4. \A i \in 1..(n + 1) : i = n + 1 \/ i \in 1..n
  OBVIOUS
<1>5. Pieces(longer, text)
  BY <1>1, <1>2, <1>3, <1>4 DEF Pieces
<1>6. Append(d, frame) = m \o longer
  <2>1. <<frame>> \in Seq(Seq(Bytes))
    OBVIOUS
  <2>2. /\ Append(m \o e, frame) = (m \o e) \o <<frame>>
        /\ Append(e, frame) = e \o <<frame>>
    BY AppendIsConcat, ConcatProperties
  <2>3. (m \o e) \o <<frame>> = m \o (e \o <<frame>>)
    BY <2>1, ConcatAssociative
  <2> QED
    BY <1>1, <1>3, <2>2, <2>3
<1> QED
  BY <1>5, <1>6 DEF Adds

LEMMA AddsType ==
  ASSUME NEW text, NEW m \in Seq(Seq(Bytes))
  PROVE  /\ Adds(m, m, text)
         /\ \A d : Adds(d, m, text) => d \in Seq(Seq(Bytes))
<1>1. <<>> \in Seq(Seq(Bytes)) /\ DOMAIN <<>> = {}
  OBVIOUS
<1>2. Pieces(<<>>, text) /\ m = m \o <<>>
  BY <1>1, ConcatEmptySeq DEF Pieces
<1> QED
  BY <1>1, <1>2, ConcatProperties DEF Adds

\* What the reader holds after k bytes of a message, if that is not all of them
\* from the first on: nothing, a frame in which the message began, or bytes of
\* the message from a later one on.
Holds(frame, text, k) ==
  \/ frame = <<>>
  \/ Spoilt(frame)
  \/ \E a \in 2..k : frame = SubSeq(Encode(text), a, k)

\* One byte of the message more, which the reader had read d before.
GoesOn(r, d, text, k) ==
  \E next \in Seq(Bytes) :
    /\ Holds(next, text, k)
    /\ \/ r = Reader(next, d)
       \/ \E piece \in Seq(Bytes) : InText(piece, text) /\ r = Reader(next, Append(d, piece))

LEMMA HoldsNext ==
  ASSUME NEW text \in Texts, NEW k \in 2..Len(Encode(text)),
         NEW frame \in Seq(Bytes), NEW d \in Seq(Seq(Bytes)), Holds(frame, text, k - 1)
  PROVE  GoesOn(NextByte(Reader(frame, d), Encode(text)[k]), d, text, k)
<1>1. PICK E \in Seq(Bytes) : E = Encode(text)
  BY EncodeType
<1>2. /\ k \in Nat /\ k \in 1..Len(E) /\ k \in 2..k /\ k \in k..Len(E) /\ E[k] \in Bytes
      /\ Len(E) \in Nat
  <2>1. k \in Nat /\ k \in 1..Len(E) /\ k \in 2..k /\ k \in k..Len(E)
    BY <1>1
  <2> QED
    BY <2>1
<1>3. <<>> \in Seq(Bytes)
  OBVIOUS
<1> DEFINE c == E[k]
           Goal == GoesOn(NextByte(Reader(frame, d), c), d, text, k)
<1>4. ASSUME NEW a \in 2..k, Append(frame, c) = SubSeq(E, a, k),
             frame # <<>> \/ c \in Opens
      PROVE  Goal
  <2>1. a \in 1..Len(E) /\ k \in a..Len(E) /\ a # 1
    BY <1>2
  <2>2. PICK s \in Seq(Bytes) : s = SubSeq(E, a, k) /\ s = Append(frame, c)
    BY <1>1, <1>4, <2>1, PartOfMessage
  <2>3. CASE Balance(s) > 0
    <3>1. NextByte(Reader(frame, d), c) = Reader(s, d)
      BY <1>2, <1>4, <2>2, <2>3, NextByteKept
    <3>2. Holds(s, text, k)
      BY <1>1, <2>2 DEF Holds
    <3> QED
      BY <3>1, <3>2 DEF GoesOn
  <2>4. CASE ~(Balance(s) > 0)
    <3>1. NextByte(Reader(frame, d), c) = Reader(<<>>, IF Parses(s) THEN Append(d, s) ELSE d)
      BY <1>2, <1>4, <2>2, <2>4, NextByteEnds
    <3>2. Parses(s) => InText(s, text)
      BY <1>1, <2>1, <2>2, PartParses
    <3>3. Holds(<<>>, text, k)
      BY DEF Holds
    <3> QED
      BY <1>3, <2>2, <3>1, <3>2, <3>3 DEF GoesOn
  <2> QED
    BY <2>3, <2>4
<1>5. CASE Spoilt(frame)
  <2>1. PICK next \in Seq(Bytes) :
          (next = <<>> \/ Spoilt(next)) /\ NextByte(Reader(frame, d), c) = Reader(next, d)
    <3>1. Spoils(frame, c)
      BY <1>5 DEF Spoils
    <3> QED
      BY <1>2, <3>1, SpoiltReads
  <2> QED
    BY <1>1, <2>1 DEF Holds, GoesOn
<1>6. CASE frame = <<>> /\ c \notin Opens
  <2>1. NextByte(Reader(frame, d), c) = Reader(<<>>, d)
    BY <1>2, <1>6, NextByteSkipped
  <2>2. Holds(<<>>, text, k)
    BY DEF Holds
  <2> QED
    BY <1>1, <1>3, <2>1, <2>2 DEF GoesOn
<1>7. CASE frame = <<>> /\ c \in Opens
  <2>1. SubSeq(E, k, k) = <<c>> /\ Append(<<>>, c) = <<c>>
    BY <1>2, SubSeqOne
  <2> QED
    BY <1>1, <1>2, <1>4, <1>7, <2>1
<1>8. ASSUME NEW a \in 2..(k - 1), frame = SubSeq(E, a, k - 1)
      PROVE  Goal
  <2>1. a \in 1..Len(E) /\ k - 1 \in a..Len(E) /\ a \in 2..k /\ k \in a..Len(E)
    BY <1>2
  <2>2. frame # <<>>
    BY <1>1, <1>8, <2>1, PartOfMessage
  <2>3. SubSeq(E, a, k) = Append(SubSeq(E, a, k - 1), E[k])
    BY <1>2, <2>1, SubSeqAppend
  <2> QED
    BY <1>4, <1>8, <2>1, <2>2, <2>3
<1>9. Goal
  BY <1>1, <1>5, <1>6, <1>7, <1>8 DEF Holds
<1> QED
  BY <1>1, <1>9

\* Reading a message, or a part of it, adds that message, and that only if its
\* text is nested, or else empty objects in its text, whatever the reader held.
LEMMA MessageReads ==
  ASSUME NEW text \in Texts, NEW frame \in Seq(Bytes), NEW m \in Seq(Seq(Bytes)),
         NEW q \in 0..Len(Encode(text))
  PROVE  LET r == ReadFrom(Reader(frame, m), SubSeq(Encode(text), 1, q))
         IN  \/ Nested(text) /\ r.messages = Append(m, Encode(text))
             \/ Adds(r.messages, m, text)
<1>1. PICK E \in Seq(Bytes) : E = Encode(text)
  BY EncodeType
<1>2. PICK N \in Nat : N = Len(text) /\ Len(E) = N + 2
  BY <1>1, EncodeIsBraced DEF IsBraced
<1> DEFINE R(k) == ReadFrom(Reader(frame, m), SubSeq(E, 1, k))
           Collects(k) == /\ R(k) = Reader(SubSeq(E, 1, k), m)
                          /\ \A j \in 1..k : Balance(SubSeq(E, 1, j)) > 0
           Whole(k) == k = Len(E) /\ Nested(text) /\ R(k) = Reader(<<>>, Append(m, E))
           Lost(k) == \E next \in Seq(Bytes), d \in Seq(Seq(Bytes)) :
                        Adds(d, m, text) /\ Holds(next, text, k) /\ R(k) = Reader(next, d)
           S == {k \in Nat : k = 0 \/ Collects(k) \/ Whole(k) \/ Lost(k)}
<1>3. 0 \in S
  OBVIOUS
<1>4. Reader(frame, m) \in Readers /\ R(0) = Reader(frame, m)
  <2>1. SubSeq(E, 1, 0) = <<>>
    BY SubSeqEmpty
  <2> QED
    BY <2>1, ReaderType, ReadEmpty
<1>5. ASSUME NEW k \in 1..Len(E)
      PROVE  /\ E[k] \in Bytes /\ SubSeq(E, 1, k) \in Seq(Bytes)
             /\ SubSeq(E, 1, k - 1) \in Seq(Bytes)
             /\ SubSeq(E, 1, k) = Append(SubSeq(E, 1, k - 1), E[k])
             /\ R(k) = NextByte(R(k - 1), E[k])
  <2>1. 1 \in 1..Len(E) /\ k \in 1..Len(E) /\ E[k] \in Bytes
    BY <1>2
  <2>2. /\ SubSeq(E, 1, k) \in Seq(Bytes) /\ SubSeq(E, 1, k - 1) \in Seq(Bytes)
        /\ SubSeq(E, 1, k) = Append(SubSeq(E, 1, k - 1), E[k])
    BY <2>1, SubSeqAppend
  <2>3. R(k) = NextByte(R(k - 1), E[k])
    BY <1>4, <2>1, <2>2, ReadAppend
  <2> QED
    BY <2>1, <2>2, <2>3
<1>6. Adds(m, m, text)
  BY AddsType
<1> HIDE DEF R
<1>7. 1 \in S
  <2>1. 1 \in 1..Len(E) /\ 1 - 1 = 0 /\ 1 \in Nat
    BY <1>2
  <2>2. R(1) = NextByte(Reader(frame, m), E[1]) /\ E[1] \in Bytes
    BY <1>4, <1>5, <2>1
  <2>3. CASE frame = <<>>
    <3>1. E[1] \in Opens /\ Weight(E[1]) = 1
      BY <1>1, EncodeIsBraced, Weights DEF IsBraced, Opens
    <3>2. SubSeq(E, 1, 1) = <<E[1]>> /\ Append(<<>>, E[1]) = <<E[1]>>
      BY <2>1, SubSeqOne
    <3>3. Balance(<<E[1]>>) > 0
      BY <2>2, <3>1, BalanceOne
    <3>4. R(1) = Reader(<<E[1]>>, m)
      BY <2>2, <2>3, <3>1, <3>2, <3>3, NextByteKept
    <3>5. \A j \in 1..1 : j = 1
      OBVIOUS
    <3>6. Collects(1)
      BY <3>2, <3>3, <3>4, <3>5
    <3> HIDE DEF Collects
    <3> QED
      BY <2>1, <3>6
  <2>4. CASE frame # <<>>
    <3>1. Spoils(frame, E[1])
      BY <1>1, <2>4, InsideMessage DEF Spoils
    <3>2. PICK next \in Seq(Bytes) :
            (next = <<>> \/ Spoilt(next)) /\ R(1) = Reader(next, m)
      BY <2>2, <3>1, SpoiltReads
    <3>3. Holds(next, text, 1)
      BY <3>2 DEF Holds
    <3>4. Lost(1)
      BY <1>6, <3>2, <3>3
    <3> HIDE DEF Lost
    <3> QED
      BY <2>1, <3>4
  <2> QED
    BY <2>3, <2>4
<1>8. ASSUME NEW k \in 2..Len(E), Collects(k - 1)
      PROVE  Collects(k) \/ Whole(k) \/ Lost(k)
  <2>1. /\ k \in 1..Len(E) /\ k - 1 \in 1..Len(E) /\ k \in Nat
        /\ \A j \in 1..k : j \in 1..(k - 1) \/ j = k
    BY <1>2
  <2>2. R(k) = NextByte(Reader(SubSeq(E, 1, k - 1), m), E[k])
    BY <1>5, <1>8, <2>1
  <2>3. SubSeq(E, 1, k - 1) # <<>>
    <3>1. PICK p \in 1..Len(E) : p = k - 1
      BY <2>1
    <3>2. SubSeq(E, 1, p) = Append(SubSeq(E, 1, p - 1), E[p]) /\ E[p] \in Bytes
          /\ SubSeq(E, 1, p - 1) \in Seq(Bytes)
      BY <1>5
    <3> QED
      BY <3>1, <3>2, AppendProperties
  <2>4. CASE Balance(SubSeq(E, 1, k)) > 0
    <3>1. SubSeq(E, 1, k) = Append(SubSeq(E, 1, k - 1), E[k])
      BY <1>5, <2>1
    <3>2. NextByte(Reader(SubSeq(E, 1, k - 1), m), E[k])
            = Reader(Append(SubSeq(E, 1, k - 1), E[k]), m)
      BY <2>3, <2>4, <3>1, NextByteKept
    <3>3. Collects(k)
      BY <1>8, <2>1, <2>2, <2>4, <3>1, <3>2
    <3> QED
      BY <3>3
  <2>5. CASE ~(Balance(SubSeq(E, 1, k)) > 0)
    <3>1. R(k) = Reader(<<>>, IF Parses(SubSeq(E, 1, k))
                              THEN Append(m, SubSeq(E, 1, k)) ELSE m)
      BY <1>5, <2>1, <2>2, <2>3, <2>5, NextByteEnds
    <3>2. CASE Parses(SubSeq(E, 1, k))
      <4>1. k = Len(E)
        <5>1. 1 \in 1..Len(E) /\ k \in 1..Len(E)
          BY <2>1
        <5> QED
          BY <1>1, <3>2, <5>1, PartParses
      <4>2. SubSeq(E, 1, k) = E
        BY <4>1, SubSeqFull
      <4>3. \A j \in 1..(N + 1) : Balance(SubSeq(E, 1, j)) > 0
        <5>1. \A j \in 1..(N + 1) : j \in 1..(k - 1)
          BY <1>2, <4>1
        <5> QED
          BY <1>8, <5>1
      <4>4. Nested(text)
        BY <1>1, <1>2, <2>5, <4>2, <4>3, NestedIsPositive
      <4>5. Whole(k)
        BY <3>1, <3>2, <4>1, <4>2, <4>4
      <4> QED
        BY <4>5
    <3>3. CASE ~Parses(SubSeq(E, 1, k))
      <4>1. <<>> \in Seq(Bytes) /\ Holds(<<>>, text, k)
        <5>1. <<>> \in Seq(Bytes)
          OBVIOUS
        <5> QED
          BY <5>1 DEF Holds
      <4>2. Lost(k)
        BY <1>6, <3>1, <3>3, <4>1
      <4> QED
        BY <4>2
    <3> QED
      BY <3>2, <3>3
  <2> QED
    BY <2>4, <2>5
<1>9. ASSUME NEW k \in 2..Len(E), Lost(k - 1)
      PROVE  Lost(k)
  <2>1. PICK next \in Seq(Bytes), d \in Seq(Seq(Bytes)) :
          Adds(d, m, text) /\ Holds(next, text, k - 1) /\ R(k - 1) = Reader(next, d)
    BY <1>9
  <2>2. k \in 1..Len(E)
    BY <1>2
  <2>3. GoesOn(R(k), d, text, k)
    <3>1. k \in 2..Len(Encode(text))
      BY <1>1
    <3>2. GoesOn(NextByte(Reader(next, d), Encode(text)[k]), d, text, k)
      BY <2>1, <3>1, HoldsNext
    <3>3. R(k) = NextByte(Reader(next, d), E[k])
      BY <1>5, <2>1, <2>2
    <3> QED
      BY <1>1, <3>2, <3>3
  <2>4. PICK last \in Seq(Bytes) :
          /\ Holds(last, text, k)
          /\ \/ R(k) = Reader(last, d)
             \/ \E piece \in Seq(Bytes) :
                  InText(piece, text) /\ R(k) = Reader(last, Append(d, piece))
    BY <2>3 DEF GoesOn
  <2>5. ASSUME NEW piece \in Seq(Bytes), InText(piece, text),
               R(k) = Reader(last, Append(d, piece))
        PROVE  Lost(k)
    <3>1. PICK longer : longer = Append(d, piece)
      OBVIOUS
    <3>2. Adds(longer, m, text)
      BY <2>1, <2>5, <3>1, AddsMore
    <3>3. longer \in Seq(Seq(Bytes))
      BY <3>2, AddsType
    <3> QED
      BY <2>4, <2>5, <3>1, <3>2, <3>3
  <2> QED
    BY <2>1, <2>4, <2>5
<1>10. ASSUME NEW k \in 1..Len(E), k - 1 \in S
       PROVE  k \in S
  <2>1. k \in Nat /\ (k = 1 \/ (k \in 2..Len(E) /\ k - 1 # 0 /\ k - 1 # Len(E)))
    BY <1>2
  <2>2. ~Whole(k - 1) \/ k = 1
    BY <2>1
  <2> HIDE DEF Collects, Whole, Lost
  <2> QED
    BY <1>7, <1>8, <1>9, <1>10, <2>1, <2>2
<1>11. \A k \in 0..Len(E) : k \in S
  <2>1. Len(E) \in Nat
    OBVIOUS
  <2> HIDE DEF S
  <2> QED
    BY <1>3, <1>10, <2>1, InductionUpto
<1>12. q = 0 \/ Collects(q) \/ Whole(q) \/ Lost(q)
  BY <1>1, <1>11
<1>13. \A f, d : Reader(f, d).messages = d
  BY DEF Reader
<1>14. Collects(q) \/ Lost(q) \/ q = 0 => Adds(R(q).messages, m, text)
  BY <1>4, <1>6, <1>13
<1>15. Whole(q) => Nested(text) /\ R(q).messages = Append(m, E)
  BY <1>13
<1> QED
  BY <1>1, <1>12, <1>14, <1>15 DEF R
-----------------------------------------------------------------------------
(* Many messages read.                                                     *)

\* Of two beginnings of a sequence, the longer one begins with the shorter one.
Continues(a, p, e) ==
  \E q \in 0..Len(e) : SubSeq(e, 1, q) \in Seq(Bytes) /\ a = p \o SubSeq(e, 1, q)

LEMMA LongerBeginning ==
  ASSUME NEW p \in Seq(Bytes), NEW e \in Seq(Bytes),
         NEW a \in Seq(Bytes), NEW w \in Seq(Bytes),
         p \o e = a \o w, Len(p) <= Len(a)
  PROVE  Continues(a, p, e)
<1>1. PICK s \in Seq(Bytes) : s = p \o e /\ s = a \o w
  BY ConcatProperties
<1>2. /\ Len(s) = Len(p) + Len(e) /\ Len(s) = Len(a) + Len(w)
      /\ \A i \in 1..(Len(p) + Len(e)) : s[i] = IF i <= Len(p) THEN p[i] ELSE e[i - Len(p)]
      /\ \A i \in 1..(Len(a) + Len(w)) : s[i] = IF i <= Len(a) THEN a[i] ELSE w[i - Len(a)]
  BY <1>1, ConcatProperties
<1>3. PICK q \in 0..Len(e) : q = Len(a) - Len(p)
  <2>1. Len(a) - Len(p) \in 0..Len(e)
    BY <1>2
  <2> QED
    BY <2>1
<1>4. PICK t \in Seq(Bytes) : /\ t = SubSeq(e, 1, q) /\ Len(t) = q
                          /\ \A i \in 1..q : t[i] = e[i]
  <2>1. SubSeq(e, 1, q) \in Seq(Bytes) /\ Len(SubSeq(e, 1, q)) = q
    OBVIOUS
  <2>2. \A i \in 1..q : SubSeq(e, 1, q)[i] = e[i]
    OBVIOUS
  <2> QED
    BY <2>1, <2>2
<1>5. PICK u \in Seq(Bytes) : u = p \o t
  BY ConcatProperties
<1>6. /\ Len(u) = Len(p) + q
      /\ \A i \in 1..(Len(p) + q) : u[i] = IF i <= Len(p) THEN p[i] ELSE t[i - Len(p)]
  BY <1>4, <1>5, ConcatProperties
<1>7. Len(u) = Len(a)
  BY <1>3, <1>6
<1>8. ASSUME NEW i \in 1..Len(a)
      PROVE  a[i] = u[i]
  <2>1. /\ i \in 1..(Len(p) + q) /\ i \in 1..(Len(p) + Len(e))
        /\ i \in 1..(Len(a) + Len(w)) /\ i <= Len(a)
    BY <1>2, <1>3
  <2>2. a[i] = s[i]
    BY <1>2, <2>1
  <2>3. ~(i <= Len(p)) => i - Len(p) \in 1..q
    BY <1>3, <2>1
  <2>4. s[i] = u[i]
    BY <1>2, <1>4, <1>6, <2>1, <2>3
  <2> QED
    BY <2>2, <2>4
<1>9. a = u
  BY <1>7, <1>8, SeqEqual
<1> QED
  BY <1>4, <1>5, <1>9 DEF Continues

\* The bytes of the first n messages.
Upto(texts, n) == Encoded(SubSeq(texts, 1, n))

LEMMA UptoGrows ==
  ASSUME NEW texts \in Seq(Texts)
  PROVE  /\ Upto(texts, 0) = <<>> /\ Upto(texts, Len(texts)) = Encoded(texts)
         /\ \A n \in 0..Len(texts) : Upto(texts, n) \in Seq(Bytes)
         /\ \A n \in 1..Len(texts) :
              Upto(texts, n) = Upto(texts, n - 1) \o Encode(texts[n])
<1>1. SubSeq(texts, 1, 0) = <<>> /\ SubSeq(texts, 1, Len(texts)) = texts
  BY SubSeqEmpty, SubSeqFull
<1>2. \A n \in 0..Len(texts) : SubSeq(texts, 1, n) \in Seq(Texts)
  OBVIOUS
<1>3. \A s \in Seq(Texts) : Encoded(s) \in Seq(Bytes)
  <2>1. CASE Texts = {}
    <3>1. \A s \in Seq(Texts) : s = <<>>
      BY <2>1
    <3>2. <<>> \in Seq(Bytes)
      OBVIOUS
    <3> QED
      BY <3>1, <3>2, EncodedEmpty
  <2>2. CASE Texts # {}
    BY <2>2, EncodedAppend
  <2> QED
    BY <2>1, <2>2
<1>4. ASSUME NEW n \in 1..Len(texts)
      PROVE  Upto(texts, n) = Upto(texts, n - 1) \o Encode(texts[n])
  <2>1. 1 \in 1..Len(texts) /\ texts[n] \in Texts
    OBVIOUS
  <2>2. /\ SubSeq(texts, 1, n - 1) \in Seq(Texts)
        /\ SubSeq(texts, 1, n) = Append(SubSeq(texts, 1, n - 1), texts[n])
    BY <2>1, SubSeqAppend
  <2> QED
    BY <2>1, <2>2, EncodedAppend DEF Upto
<1> QED
  BY <1>1, <1>2, <1>3, <1>4, EncodedEmpty DEF Upto

\* The frame is the message with this text, or an empty object in it.
ComesFrom(frame, text) == frame = Encode(text) \/ InText(frame, text)

\* The frames come from the first n messages sent, in the order in which these
\* were sent, and no message twice.
Within(frames, texts, n) ==
  \E which \in [DOMAIN frames -> 1..n] :
    /\ \A i \in DOMAIN frames : ComesFrom(frames[i], texts[which[i]])
    /\ \A i, j \in DOMAIN frames :
         i < j => \/ which[i] < which[j]
                  \/ /\ which[i] = which[j]
                     /\ IsEmptyObject(frames[i]) /\ IsEmptyObject(frames[j])

\* What one message adds: itself, if its text is nested, or empty objects in it.
Yields(more, text) ==
  \/ Nested(text) /\ more = <<Encode(text)>>
  \/ Pieces(more, text)

\* What is at each place of two sequences of frames put together.
Joins(all, m, more, L, K) ==
  /\ all = m \o more /\ L = Len(m) /\ K = Len(more) /\ Len(all) = L + K
  /\ DOMAIN m = 1..L /\ DOMAIN more = 1..K /\ DOMAIN all = 1..(L + K)
  /\ \A i \in 1..L : i \in 1..(L + K) /\ i <= L /\ all[i] = m[i]
  /\ \A i \in 1..(L + K) : /\ i <= L => i \in 1..L
                           /\ ~(i <= L) => i - L \in 1..K /\ all[i] = more[i - L]

LEMMA BothParts ==
  ASSUME NEW m \in Seq(Seq(Bytes)), NEW more \in Seq(Seq(Bytes))
  PROVE  \E all \in Seq(Seq(Bytes)), L \in Nat, K \in Nat : Joins(all, m, more, L, K)
<1>1. PICK L \in Nat : L = Len(m) /\ DOMAIN m = 1..L
  OBVIOUS
<1>2. PICK K \in Nat : K = Len(more) /\ DOMAIN more = 1..K
  OBVIOUS
<1>3. /\ m \o more \in Seq(Seq(Bytes)) /\ Len(m \o more) = L + K
      /\ \A i \in 1..(L + K) : (m \o more)[i] = IF i <= L THEN m[i] ELSE more[i - L]
  BY <1>1, <1>2, ConcatProperties
<1>4. DOMAIN (m \o more) = 1..(L + K)
  BY <1>3, LenProperties
<1>5. /\ \A i \in 1..L : i \in 1..(L + K) /\ i <= L
      /\ \A i \in 1..(L + K) : /\ i <= L => i \in 1..L
                               /\ ~(i <= L) => i - L \in 1..K
  OBVIOUS
<1>6. PICK all \in Seq(Seq(Bytes)) : all = m \o more
  BY <1>3
<1> QED
  BY <1>1, <1>2, <1>3, <1>4, <1>5, <1>6 DEF Joins

LEMMA WithinMore ==
  ASSUME NEW texts \in Seq(Texts), NEW n \in 1..Len(texts), NEW m \in Seq(Seq(Bytes)),
         Within(m, texts, n - 1),
         NEW more \in Seq(Seq(Bytes)), Yields(more, texts[n])
  PROVE  Within(m \o more, texts, n)
<1>1. PICK which \in [DOMAIN m -> 1..(n - 1)] :
        /\ \A i \in DOMAIN m : ComesFrom(m[i], texts[which[i]])
        /\ \A i, j \in DOMAIN m :
             i < j => \/ which[i] < which[j]
                      \/ /\ which[i] = which[j]
                         /\ IsEmptyObject(m[i]) /\ IsEmptyObject(m[j])
  BY DEF Within
<1>2. PICK all \in Seq(Seq(Bytes)), L \in Nat, K \in Nat : Joins(all, m, more, L, K)
  BY BothParts
<1>3. /\ K = Len(more) /\ DOMAIN m = 1..L /\ DOMAIN more = 1..K /\ DOMAIN all = 1..(L + K)
      /\ \A i \in 1..L : i \in 1..(L + K) /\ i <= L /\ all[i] = m[i]
      /\ \A i \in 1..(L + K) : /\ i <= L => i \in 1..L
                               /\ ~(i <= L) => i - L \in 1..K /\ all[i] = more[i - L]
  BY <1>2 DEF Joins
<1> DEFINE new == [i \in 1..(L + K) |-> IF i <= L THEN which[i] ELSE n]
<1>4. /\ n \in 1..n /\ \A i \in 1..(n - 1) : i \in 1..n /\ i < n
      /\ \A i \in 1..L : which[i] \in 1..(n - 1)
  BY <1>1, <1>3
<1>5. /\ \A i \in 1..L : new[i] = which[i]
      /\ \A i \in 1..(L + K) : ~(i <= L) => new[i] = n
  BY <1>3
<1>6. new \in [DOMAIN all -> 1..n]
  BY <1>3, <1>4
<1>7. \A i \in 1..K : ComesFrom(more[i], texts[n])
  <2>1. ASSUME more = <<Encode(texts[n])>>, NEW i \in 1..K
        PROVE  more[i] = Encode(texts[n])
    BY <1>3, <2>1
  <2>2. Pieces(more, texts[n]) => \A i \in 1..K : InText(more[i], texts[n])
    BY <1>3 DEF Pieces
  <2> QED
    BY <2>1, <2>2 DEF ComesFrom, Yields
<1>8. \A i, j \in 1..K : i < j => IsEmptyObject(more[i]) /\ IsEmptyObject(more[j])
  <2>1. ASSUME more = <<Encode(texts[n])>>, NEW i \in 1..K, NEW j \in 1..K
        PROVE  ~(i < j)
    BY <1>3, <2>1
  <2>2. Pieces(more, texts[n]) => \A i \in 1..K : IsEmptyObject(more[i])
    BY <1>3 DEF Pieces, InText
  <2> QED
    BY <2>1, <2>2 DEF Yields
<1> HIDE DEF new
<1>9. ASSUME NEW i \in DOMAIN all
      PROVE  ComesFrom(all[i], texts[new[i]])
  <2>1. CASE i <= L
    BY <1>1, <1>3, <1>5, <2>1
  <2>2. CASE ~(i <= L)
    BY <1>3, <1>5, <1>7, <2>2
  <2> QED
    BY <2>1, <2>2
<1>10. ASSUME NEW i \in DOMAIN all, NEW j \in DOMAIN all, i < j
      PROVE  \/ new[i] < new[j]
             \/ new[i] = new[j] /\ IsEmptyObject(all[i]) /\ IsEmptyObject(all[j])
  <2>1. i \in 1..(L + K) /\ j \in 1..(L + K)
    BY <1>3
  <2>2. CASE j <= L
    <3>1. i \in 1..L /\ j \in 1..L
      <4>1. i <= L
        BY <1>10, <2>1, <2>2
      <4> QED
        BY <1>3, <2>1, <2>2, <4>1
    <3> QED
      BY <1>1, <1>3, <1>5, <1>10, <3>1
  <2>3. CASE i <= L /\ ~(j <= L)
    BY <1>3, <1>4, <1>5, <2>1, <2>3
  <2>4. CASE ~(i <= L)
    <3>1. ~(j <= L) /\ i - L < j - L
      BY <1>10, <2>1, <2>4
    <3> QED
      BY <1>3, <1>5, <1>8, <2>1, <2>4, <3>1
  <2> QED
    BY <2>2, <2>3, <2>4
<1>11. Within(all, texts, n)
  BY <1>6, <1>9, <1>10 DEF Within
<1> QED
  BY <1>2, <1>11 DEF Joins

\* A message of which nothing comes changes nothing.
LEMMA WithinStays ==
  ASSUME NEW texts \in Seq(Texts), NEW n \in 1..Len(texts), NEW m \in Seq(Seq(Bytes)),
         Within(m, texts, n - 1)
  PROVE  Within(m, texts, n)
<1>1. PICK none \in Seq(Seq(Bytes)) : none = <<>> /\ Pieces(none, texts[n])
  <2>1. <<>> \in Seq(Seq(Bytes)) /\ DOMAIN <<>> = {}
    OBVIOUS
  <2> QED
    BY <2>1 DEF Pieces
<1>2. Within(m \o none, texts, n)
  BY <1>1, WithinMore DEF Yields
<1>3. m \o none = m
  BY <1>1, ConcatEmptySeq
<1> QED
  BY <1>2, <1>3

\* Reading goes on where it was.
LEMMA ReadGoesOn ==
  ASSUME NEW a \in Seq(Bytes)
  PROVE  /\ \E frame \in Seq(Bytes), m \in Seq(Seq(Bytes)) : Read(a) = Reader(frame, m)
         /\ \A b \in Seq(Bytes) : Read(a \o b) = ReadFrom(Read(a), b)
         /\ Read(<<>>) = Reader(<<>>, <<>>) /\ <<>> \in Seq(Seq(Bytes))
<1>1. <<>> \in Seq(Seq(Bytes))
  OBVIOUS
<1>2. Reader(<<>>, <<>>) \in Readers /\ \A s : Read(s) = ReadFrom(Reader(<<>>, <<>>), s)
  BY <1>1, EmptyReader DEF Read, Reader
<1>3. PICK r \in Readers : r = Read(a)
  BY <1>2, ReadFromType
<1>4. /\ r.frame \in Seq(Bytes) /\ r.messages \in Seq(Seq(Bytes))
      /\ r = Reader(r.frame, r.messages)
  BY DEF Readers, Reader
<1>5. \A b \in Seq(Bytes) : Read(a \o b) = ReadFrom(Read(a), b)
  BY <1>2, ReadConcat
<1>6. Read(<<>>) = Reader(<<>>, <<>>)
  BY <1>2, ReadEmpty
<1> QED
  BY <1>1, <1>3, <1>4, <1>5, <1>6

LEMMA OneMore ==
  ASSUME NEW m \in Seq(Seq(Bytes)), NEW e \in Seq(Bytes)
  PROVE  \E one \in Seq(Seq(Bytes)) : one = <<e>> /\ Append(m, e) = m \o one
<1>1. <<e>> \in Seq(Seq(Bytes))
  OBVIOUS
<1>2. Append(m, e) = m \o <<e>>
  BY AppendIsConcat
<1> QED
  BY <1>1, <1>2

\* Whatever part of the stream is read, the frames found come from the messages
\* sent.
LEMMA ReadsWhatWasSent ==
  ASSUME NEW texts \in Seq(Texts), NEW a \in Seq(Bytes), NEW w \in Seq(Bytes),
         Encoded(texts) = a \o w
  PROVE  Within(Read(a).messages, texts, Len(texts))
<1> DEFINE Part(n) == \A s, t \in Seq(Bytes) :
             Upto(texts, n) = s \o t => Within(Read(s).messages, texts, n)
           S == {n \in Nat : Part(n)}
<1>1. \A f, m : Reader(f, m).messages = m
  BY DEF Reader
<1>2. 0 \in S
  <2>1. ASSUME NEW s \in Seq(Bytes), NEW t \in Seq(Bytes), Upto(texts, 0) = s \o t
        PROVE  Within(Read(s).messages, texts, 0)
    <3>1. s = <<>>
      <4>1. s \o t = <<>>
        BY <2>1, UptoGrows
      <4> QED
        BY <4>1, ConcatEqualIffEmpty
    <3>2. Read(s).messages = <<>>
      BY <1>1, <3>1, ReadGoesOn
    <3>3. <<>> \in [DOMAIN <<>> -> 1..0] /\ DOMAIN <<>> = {}
      OBVIOUS
    <3> QED
      BY <3>2, <3>3 DEF Within
  <2> QED
    BY <2>1
<1>3. ASSUME NEW n \in 1..Len(texts), n - 1 \in S
      PROVE  n \in S
  <2>1. ASSUME NEW s \in Seq(Bytes), NEW t \in Seq(Bytes), Upto(texts, n) = s \o t
        PROVE  Within(Read(s).messages, texts, n)
    <3>1. PICK E \in Seq(Bytes) : E = Encode(texts[n]) /\ texts[n] \in Texts
      BY EncodeType
    <3>2. PICK p \in Seq(Bytes) : p = Upto(texts, n - 1) /\ Upto(texts, n) = p \o E
      <4>1. n - 1 \in 0..Len(texts)
        OBVIOUS
      <4> QED
        BY <3>1, <4>1, UptoGrows
    <3>3. Part(n - 1)
      BY <1>3
    <3>4. CASE Len(s) <= Len(p)
      <4>1. s \o t = p \o E
        BY <2>1, <3>2
      <4>2. PICK q \in 0..Len(t) : SubSeq(t, 1, q) \in Seq(Bytes) /\ p = s \o SubSeq(t, 1, q)
        BY <3>4, <4>1, LongerBeginning DEF Continues
      <4>3. Within(Read(s).messages, texts, n - 1)
        BY <3>2, <3>3, <4>2
      <4>4. PICK frame \in Seq(Bytes), m \in Seq(Seq(Bytes)) : Read(s) = Reader(frame, m)
        BY ReadGoesOn
      <4> QED
        BY <1>1, <4>3, <4>4, WithinStays
    <3>5. CASE Len(p) <= Len(s)
      <4>1. p \o E = s \o t
        BY <2>1, <3>2
      <4>2. PICK q \in 0..Len(E) : SubSeq(E, 1, q) \in Seq(Bytes) /\ s = p \o SubSeq(E, 1, q)
        BY <3>5, <4>1, LongerBeginning DEF Continues
      <4>3. PICK frame \in Seq(Bytes), m \in Seq(Seq(Bytes)) : Read(p) = Reader(frame, m)
        BY ReadGoesOn
      <4>4. Within(m, texts, n - 1)
        <5>1. p = p \o <<>> /\ <<>> \in Seq(Bytes)
          BY ConcatEmptySeq
        <5>2. Within(Read(p).messages, texts, n - 1)
          BY <3>2, <3>3, <5>1
        <5> QED
          BY <1>1, <4>3, <5>2
      <4>5. Read(s) = ReadFrom(Reader(frame, m), SubSeq(E, 1, q))
        BY <4>2, <4>3, ReadGoesOn
      <4>6. PICK more \in Seq(Seq(Bytes)) :
              Yields(more, texts[n]) /\ Read(s).messages = m \o more
        <5>1. \/ Nested(texts[n]) /\ Read(s).messages = Append(m, E)
              \/ Adds(Read(s).messages, m, texts[n])
          BY <3>1, <4>5, MessageReads
        <5>2. CASE Nested(texts[n]) /\ Read(s).messages = Append(m, E)
          <6>1. PICK one \in Seq(Seq(Bytes)) : one = <<E>> /\ Append(m, E) = m \o one
            BY OneMore
          <6> QED
            BY <3>1, <5>2, <6>1 DEF Yields
        <5>3. CASE Adds(Read(s).messages, m, texts[n])
          BY <5>3 DEF Adds, Yields
        <5> QED
          BY <5>1, <5>2, <5>3
      <4> QED
        BY <4>4, <4>6, WithinMore
    <3>6. Len(s) <= Len(p) \/ Len(p) <= Len(s)
      OBVIOUS
    <3> QED
      BY <3>4, <3>5, <3>6
  <2>2. n \in Nat
    OBVIOUS
  <2>3. Part(n)
    BY <2>1
  <2> HIDE DEF Part
  <2> QED
    BY <2>2, <2>3
<1>4. \A n \in 0..Len(texts) : n \in S
  <2>1. Len(texts) \in Nat
    OBVIOUS
  <2> HIDE DEF S
  <2> QED
    BY <1>2, <1>3, <2>1, InductionUpto
<1>5. Part(Len(texts))
  <2>1. Len(texts) \in 0..Len(texts)
    OBVIOUS
  <2> HIDE DEF Part
  <2> QED
    BY <1>4, <2>1
<1> QED
  BY <1>5, UptoGrows

\* Whatever braces the texts contain, processMessage gets the messages sent, none
\* twice and none out of order, and besides them only empty objects, from texts
\* whose own message it does not get.
THEOREM DispatchedWereSentHolds == StreamSpec => []DispatchedWereSent
<1>1. StreamInv => DispatchedWereSent
  <2> SUFFICES ASSUME StreamInv PROVE DispatchedWereSent
    OBVIOUS
  <2>1. /\ sent \in Seq(Texts) /\ wire \in Seq(Bytes) /\ Arrived \in Seq(Bytes)
        /\ Encoded(sent) = Arrived \o wire /\ dispatched = Read(Arrived).messages
    BY DEF StreamInv, StreamTypeOK, CutIndependent
  <2>2. Within(dispatched, sent, Len(sent))
    BY <2>1, ReadsWhatWasSent
  <2>3. DOMAIN sent = 1..Len(sent)
    BY <2>1
  <2> QED
    BY <2>2, <2>3 DEF Within, ComesFrom, DispatchedWereSent
<1> QED
  BY <1>1, StreamInvHolds, PTL
-----------------------------------------------------------------------------
(* Messages without open braces.                                           *)

\* A harmless message leaves an empty reader empty, which then has it exactly if
\* its text is nested, and otherwise perhaps empty objects in its text.
LEMMA HarmlessIsRead ==
  ASSUME NEW text \in Texts, NEW m \in Seq(Seq(Bytes)), Harmless(text)
  PROVE  \E more \in Seq(Seq(Bytes)) :
           /\ ReadFrom(Reader(<<>>, m), Encode(text)) = Reader(<<>>, m \o more)
           /\ IF Nested(text) THEN more = <<Encode(text)>> ELSE Pieces(more, text)
<1>1. PICK E \in Seq(Bytes) : E = Encode(text)
  BY EncodeType
<1>2. CASE Nested(text)
  <2>1. PICK one \in Seq(Seq(Bytes)) : one = <<E>> /\ Append(m, E) = m \o one
    BY OneMore
  <2>2. ReadFrom(Reader(<<>>, m), E) = Reader(<<>>, Append(m, E))
    BY <1>1, <1>2, NestedIsRead
  <2> QED
    BY <1>1, <1>2, <2>1, <2>2
<1>3. CASE ~Nested(text)
  <2>1. PICK r \in Readers : r = Read(E)
    BY <1>1, ReadIs
  <2>2. r.frame = <<>>
    BY <1>1, <2>1 DEF Harmless
  <2>3. /\ Reader(<<>>, <<>>) \in Readers /\ <<>> \in Seq(Seq(Bytes)) /\ <<>> \in Seq(Bytes)
        /\ r = ReadFrom(Reader(<<>>, <<>>), E)
    <3>1. <<>> \in Seq(Seq(Bytes))
      OBVIOUS
    <3> QED
      BY <2>1, <3>1, EmptyReader DEF Read, Reader
  <2>4. PICK more \in Seq(Seq(Bytes)) : Pieces(more, text) /\ r.messages = more
    <3>1. Len(E) \in 0..Len(Encode(text)) /\ SubSeq(Encode(text), 1, Len(E)) = E
      BY <1>1, SubSeqFull
    <3>2. Adds(r.messages, <<>>, text)
      BY <1>3, <2>3, <3>1, MessageReads
    <3>3. PICK more \in Seq(Seq(Bytes)) : Pieces(more, text) /\ r.messages = <<>> \o more
      BY <3>2 DEF Adds
    <3>4. <<>> \o more = more
      BY ConcatEmptySeq
    <3> QED
      BY <3>3, <3>4
  <2>5. Shifted(Reader(<<>>, <<>>), m) = Reader(<<>>, m) /\ Shifted(r, m) = Reader(<<>>, m \o more)
    <3>1. m \o <<>> = m
      BY ConcatEmptySeq
    <3> QED
      BY <2>2, <2>4, <3>1 DEF Shifted, Reader
  <2>6. ReadFrom(Reader(<<>>, m), Encode(text)) = Reader(<<>>, m \o more)
    BY <1>1, <2>3, <2>5, ReadShifted
  <2> QED
    BY <1>3, <2>4, <2>6
<1> QED
  BY <1>2, <1>3

\* How many of the first n frames are messages.
MessagesUpto(frames, n) == Cardinality({j \in 1..n : IsMessage(frames[j])})

LEMMA MessagesGrow ==
  ASSUME NEW m \in Seq(Seq(Bytes)), NEW more \in Seq(Seq(Bytes))
  PROVE  /\ MessagesUpto(m \o more, Len(m)) = MessagesUpto(m, Len(m))
         /\ (\A i \in DOMAIN more : ~IsMessage(more[i])) =>
              MessagesUpto(m \o more, Len(m \o more)) = MessagesUpto(m, Len(m))
         /\ Len(more) = 1 /\ IsMessage(more[1]) =>
              MessagesUpto(m \o more, Len(m \o more)) = MessagesUpto(m, Len(m)) + 1
<1>1. PICK all \in Seq(Seq(Bytes)), L \in Nat, K \in Nat : Joins(all, m, more, L, K)
  BY BothParts
<1>2. /\ K = Len(more) /\ L = Len(m) /\ Len(all) = L + K /\ DOMAIN more = 1..K
      /\ \A i \in 1..L : i \in 1..(L + K) /\ i <= L /\ all[i] = m[i]
      /\ \A i \in 1..(L + K) : /\ i <= L => i \in 1..L
                               /\ ~(i <= L) => i - L \in 1..K /\ all[i] = more[i - L]
  BY <1>1 DEF Joins
<1> DEFINE Old == {j \in 1..L : IsMessage(m[j])}
           New == {j \in 1..(L + K) : IsMessage(all[j])}
<1>3. IsFiniteSet(Old) /\ Cardinality(Old) \in Nat
  <2>1. IsFiniteSet(1..L)
    BY FS_Interval
  <2>2. Old \in SUBSET (1..L)
    OBVIOUS
  <2> HIDE DEF Old
  <2> QED
    BY <2>1, <2>2, FS_Subset, FS_CardinalityType
<1>4. {j \in 1..L : IsMessage(all[j])} = Old
  BY <1>2
<1>5. ASSUME \A i \in DOMAIN more : ~IsMessage(more[i])
      PROVE  New = Old
  BY <1>2, <1>5
<1>6. ASSUME Len(more) = 1, IsMessage(more[1])
      PROVE  Cardinality(New) = Cardinality(Old) + 1
  <2>1. L + 1 \in 1..(L + K) /\ ~(L + 1 <= L) /\ (L + 1) - L = 1
        /\ \A i \in 1..(L + K) : i <= L \/ i = L + 1
    BY <1>2, <1>6
  <2>2. all[L + 1] = more[1]
    BY <1>2, <2>1
  <2>3. New = Old \cup {L + 1}
    BY <1>2, <1>6, <2>1, <2>2
  <2>4. L + 1 \notin Old
    BY <2>1
  <2> HIDE DEF Old, New
  <2> QED
    BY <1>3, <2>3, <2>4, FS_AddElement
<1>7. all = m \o more
  BY <1>1 DEF Joins
<1> QED
  BY <1>2, <1>4, <1>5, <1>6, <1>7 DEF MessagesUpto

\* How many of the first n texts are nested.
Nests(texts, n) == Cardinality({i \in 1..n : Nested(texts[i])})

LEMMA NestsGrow ==
  ASSUME NEW texts, NEW n \in Nat \ {0}
  PROVE  /\ Nests(texts, n - 1) \in Nat /\ Nests(texts, 0) = 0
         /\ Nests(texts, n) = Nests(texts, n - 1) + (IF Nested(texts[n]) THEN 1 ELSE 0)
<1> DEFINE Old == {i \in 1..(n - 1) : Nested(texts[i])}
           New == {i \in 1..n : Nested(texts[i])}
<1>1. IsFiniteSet(Old) /\ Cardinality(Old) \in Nat
  <2>1. IsFiniteSet(1..(n - 1))
    BY FS_Interval
  <2>2. Old \in SUBSET (1..(n - 1))
    OBVIOUS
  <2> HIDE DEF Old
  <2> QED
    BY <2>1, <2>2, FS_Subset, FS_CardinalityType
<1>2. New = IF Nested(texts[n]) THEN Old \cup {n} ELSE Old
  <2>1. 1..n = (1..(n - 1)) \cup {n}
    OBVIOUS
  <2> QED
    BY <2>1
<1>3. Cardinality(Old \cup {n}) = Cardinality(Old) + 1
  <2>1. n \notin Old
    OBVIOUS
  <2> HIDE DEF Old
  <2> QED
    BY <1>1, <2>1, FS_AddElement
<1>4. Cardinality(New) = Cardinality(Old) + (IF Nested(texts[n]) THEN 1 ELSE 0)
  <2> HIDE DEF Old, New
  <2> QED
    BY <1>1, <1>2, <1>3
<1>5. {i \in 1..0 : Nested(texts[i])} = {}
  OBVIOUS
<1> QED
  BY <1>1, <1>4, <1>5, FS_EmptySet DEF Nests

\* What a reader has after n harmless messages: those with a nested text, the
\* last of them at the end, and nothing else if all texts are nested.
HasNested(m, texts, n) ==
  /\ MessagesUpto(m, Len(m)) = Nests(texts, n)
  /\ n # 0 /\ Nested(texts[n]) => Len(m) # 0 /\ m[Len(m)] = Encode(texts[n])
  /\ (\A i \in 1..n : Nested(texts[i])) => Len(m) = n

LEMMA HasNestedMore ==
  ASSUME NEW texts \in Seq(Texts), NEW n \in 1..Len(texts), NEW m \in Seq(Seq(Bytes)),
         HasNested(m, texts, n - 1), NEW more \in Seq(Seq(Bytes)),
         IF Nested(texts[n]) THEN more = <<Encode(texts[n])>> ELSE Pieces(more, texts[n])
  PROVE  HasNested(m \o more, texts, n)
<1>1. PICK all \in Seq(Seq(Bytes)), L \in Nat, K \in Nat : Joins(all, m, more, L, K)
  BY BothParts
<1>2. /\ all = m \o more /\ K = Len(more) /\ L = Len(m) /\ Len(all) = L + K
      /\ DOMAIN more = 1..K
      /\ \A i \in 1..(L + K) : ~(i <= L) => i - L \in 1..K /\ all[i] = more[i - L]
  BY <1>1 DEF Joins
<1>3. PICK E \in Seq(Bytes) : E = Encode(texts[n])
  BY EncodeType
<1>4. n \in Nat \ {0} /\ texts[n] \in Texts /\ n - 1 \in Nat
  OBVIOUS
<1>5. /\ Nests(texts, n) = Nests(texts, n - 1) + (IF Nested(texts[n]) THEN 1 ELSE 0)
      /\ Nests(texts, n - 1) \in Nat
  BY <1>4, NestsGrow
<1>6. CASE Nested(texts[n])
  <2>1. Len(more) = 1 /\ more[1] = E
    <3>1. more = <<E>>
      BY <1>3, <1>6
    <3> QED
      BY <3>1
  <2>2. IsMessage(E)
    BY <1>3, <1>4, EncodeIsMessage
  <2>3. MessagesUpto(all, Len(all)) = MessagesUpto(m, Len(m)) + 1
    BY <1>2, <2>1, <2>2, MessagesGrow
  <2>4. Len(all) = L + 1 /\ all[L + 1] = E
    <3>1. L + 1 \in 1..(L + K) /\ ~(L + 1 <= L) /\ (L + 1) - L = 1
      BY <1>2, <2>1
    <3> QED
      BY <1>2, <2>1, <3>1
  <2>5. (\A i \in 1..n : Nested(texts[i])) => Len(all) = n
    <3>1. \A i \in 1..(n - 1) : i \in 1..n
      BY <1>4
    <3>2. (\A i \in 1..n : Nested(texts[i])) => L = n - 1
      BY <1>2, <3>1 DEF HasNested
    <3> QED
      BY <1>4, <2>4, <3>2
  <2>6. MessagesUpto(all, Len(all)) = Nests(texts, n)
    BY <1>5, <1>6, <2>3 DEF HasNested
  <2> QED
    BY <1>2, <1>3, <2>4, <2>5, <2>6 DEF HasNested
<1>7. CASE ~Nested(texts[n])
  <2>1. \A i \in DOMAIN more : ~IsMessage(more[i])
    BY <1>7 DEF Pieces, InText, IsEmptyObject, IsMessage
  <2>2. MessagesUpto(all, Len(all)) = MessagesUpto(m, Len(m))
    BY <1>2, <2>1, MessagesGrow
  <2>3. MessagesUpto(all, Len(all)) = Nests(texts, n)
    BY <1>5, <1>7, <2>2 DEF HasNested
  <2>4. n \in 1..n
    BY <1>4
  <2> QED
    BY <1>2, <1>7, <2>3, <2>4 DEF HasNested
<1> QED
  BY <1>6, <1>7

LEMMA HarmlessUpto ==
  ASSUME NEW texts \in Seq(Texts), NEW top \in 0..Len(texts),
         \A i \in 1..top : Harmless(texts[i])
  PROVE  \E m \in Seq(Seq(Bytes)) :
           Read(Upto(texts, top)) = Reader(<<>>, m) /\ HasNested(m, texts, top)
<1> DEFINE Clear(n, m) ==
             Read(Upto(texts, n)) = Reader(<<>>, m) /\ HasNested(m, texts, n)
           T == {n \in Nat : \E m \in Seq(Seq(Bytes)) : Clear(n, m)}
<1>1. top \in Nat /\ \A n \in 1..top : n \in 1..Len(texts) /\ texts[n] \in Texts
  OBVIOUS
<1>2. 0 \in T
  <2>1. Upto(texts, 0) = <<>> /\ <<>> \in Seq(Bytes)
    <3>1. <<>> \in Seq(Bytes)
      OBVIOUS
    <3> QED
      BY <3>1, UptoGrows
  <2>2. Read(<<>>) = Reader(<<>>, <<>>) /\ <<>> \in Seq(Seq(Bytes))
    BY <2>1, ReadGoesOn
  <2>3. Nests(texts, 0) = 0
    <3>1. 1 \in Nat \ {0}
      OBVIOUS
    <3> QED
      BY <3>1, NestsGrow
  <2>4. Len(<<>>) = 0
    OBVIOUS
  <2>5. MessagesUpto(<<>>, 0) = 0
    <3>1. {j \in 1..0 : IsMessage(<<>>[j])} = {}
      OBVIOUS
    <3> QED
      BY <3>1, FS_EmptySet DEF MessagesUpto
  <2>6. HasNested(<<>>, texts, 0)
    BY <2>3, <2>4, <2>5 DEF HasNested
  <2>7. Clear(0, <<>>)
    BY <2>1, <2>2, <2>6
  <2> HIDE DEF Clear
  <2> QED
    BY <2>2, <2>7
<1>3. ASSUME NEW n \in 1..top, n - 1 \in T
      PROVE  n \in T
  <2>1. PICK m \in Seq(Seq(Bytes)) :
          Read(Upto(texts, n - 1)) = Reader(<<>>, m) /\ HasNested(m, texts, n - 1)
    BY <1>3
  <2>2. n \in 1..Len(texts) /\ n - 1 \in 0..Len(texts) /\ n \in Nat
    BY <1>1
  <2>3. PICK E \in Seq(Bytes) : E = Encode(texts[n])
    BY <1>1, EncodeType
  <2>4. PICK p \in Seq(Bytes) : p = Upto(texts, n - 1) /\ Upto(texts, n) = p \o E
    BY <2>2, <2>3, UptoGrows
  <2>5. PICK more \in Seq(Seq(Bytes)) :
          /\ ReadFrom(Reader(<<>>, m), E) = Reader(<<>>, m \o more)
          /\ IF Nested(texts[n]) THEN more = <<Encode(texts[n])>> ELSE Pieces(more, texts[n])
    BY <1>1, <2>3, HarmlessIsRead
  <2>6. Read(p \o E) = ReadFrom(Reader(<<>>, m), E)
    BY <2>1, <2>4, ReadGoesOn
  <2>7. HasNested(m \o more, texts, n)
    BY <2>1, <2>2, <2>5, HasNestedMore
  <2>8. Clear(n, m \o more)
    BY <2>4, <2>5, <2>6, <2>7
  <2>9. m \o more \in Seq(Seq(Bytes))
    BY ConcatProperties
  <2> HIDE DEF Clear
  <2> QED
    BY <2>2, <2>8, <2>9
<1>4. \A n \in 0..top : n \in T
  <2> HIDE DEF T
  <2> QED
    BY <1>1, <1>2, <1>3, InductionUpto
<1>5. top \in 0..top
  BY <1>1
<1> QED
  BY <1>4, <1>5

\* The first n messages, and all of them, begin in the same way.
LEMMA UptoBegins ==
  ASSUME NEW texts \in Seq(Texts), NEW n \in 0..Len(texts)
  PROVE  \E rest \in Seq(Bytes) : Encoded(texts) = Upto(texts, n) \o rest
<1> DEFINE Begins(k) == \E rest \in Seq(Bytes) : Upto(texts, k) = Upto(texts, n) \o rest
           T == {k \in Nat : n <= k => Begins(k)}
<1>1. Len(texts) \in Nat /\ n \in Nat /\ Upto(texts, n) \in Seq(Bytes)
  BY UptoGrows
<1>2. <<>> \in Seq(Bytes) /\ Upto(texts, n) = Upto(texts, n) \o <<>>
  BY <1>1, ConcatEmptySeq
<1>3. 0 \in T
  <2>1. n <= 0 => n = 0
    BY <1>1
  <2> QED
    BY <1>2, <2>1
<1>4. ASSUME NEW k \in 1..Len(texts), k - 1 \in T
      PROVE  k \in T
  <2>1. CASE n <= k - 1
    <3>1. PICK rest \in Seq(Bytes) : Upto(texts, k - 1) = Upto(texts, n) \o rest
      BY <1>4, <2>1
    <3>2. PICK E \in Seq(Bytes) : E = Encode(texts[k])
      BY EncodeType
    <3>3. Upto(texts, k) = (Upto(texts, n) \o rest) \o E
      BY <3>1, <3>2, UptoGrows
    <3>4. (Upto(texts, n) \o rest) \o E = Upto(texts, n) \o (rest \o E)
      BY <1>1, ConcatAssociative
    <3>5. rest \o E \in Seq(Bytes)
      BY ConcatProperties
    <3>6. Begins(k)
      BY <3>3, <3>4, <3>5
    <3> HIDE DEF Begins
    <3> QED
      BY <3>6
  <2>2. CASE n = k
    <3>1. Begins(k)
      BY <1>2, <2>2
    <3> HIDE DEF Begins
    <3> QED
      BY <3>1
  <2>3. n <= k => n <= k - 1 \/ n = k
    BY <1>1
  <2> HIDE DEF Begins
  <2> QED
    BY <2>1, <2>2, <2>3
<1>5. \A k \in 0..Len(texts) : k \in T
  <2> HIDE DEF T
  <2> QED
    BY <1>1, <1>3, <1>4, InductionUpto
<1>6. Len(texts) \in 0..Len(texts) /\ n <= Len(texts)
  BY <1>1
<1> QED
  BY <1>5, <1>6, UptoGrows

\* A message is lost only through stray braces in its own text or an open one
\* before it.
THEOREM LossIsLocalHolds == StreamSpec => []LossIsLocal
<1>1. ASSUME StreamInv, NEW n \in 1..Len(sent), HasArrived(n), Nested(sent[n]),
             \A i \in 1..n : Harmless(sent[i])
      PROVE  \E i \in DOMAIN dispatched :
               /\ dispatched[i] = Encode(sent[n])
               /\ Cardinality({j \in 1..i : IsMessage(dispatched[j])}) = NestedUpto(n)
  <2>1. /\ sent \in Seq(Texts) /\ wire \in Seq(Bytes) /\ Arrived \in Seq(Bytes)
        /\ dispatched \in Seq(Seq(Bytes))
        /\ Encoded(sent) = Arrived \o wire /\ dispatched = Read(Arrived).messages
    BY <1>1 DEF StreamInv, StreamTypeOK, CutIndependent
  <2>2. n \in 0..Len(sent) /\ n # 0
    BY <2>1
  <2>3. PICK p \in Seq(Bytes) : p = Upto(sent, n)
    BY <2>1, <2>2, UptoGrows
  <2>4. PICK rest \in Seq(Bytes) : Encoded(sent) = p \o rest
    BY <2>1, <2>2, <2>3, UptoBegins
  <2>5. PICK q \in 0..Len(rest) :
          SubSeq(rest, 1, q) \in Seq(Bytes) /\ Arrived = p \o SubSeq(rest, 1, q)
    <3>1. Len(p) <= Len(Arrived)
      BY <1>1, <2>3 DEF HasArrived, Upto
    <3>2. p \o rest = Arrived \o wire
      BY <2>1, <2>4
    <3> QED
      BY <2>1, <3>1, <3>2, LongerBeginning DEF Continues
  <2>6. PICK m \in Seq(Seq(Bytes)) :
          Read(p) = Reader(<<>>, m) /\ HasNested(m, sent, n)
    BY <1>1, <2>1, <2>2, <2>3, HarmlessUpto
  <2>7. PICK more \in Seq(Seq(Bytes)) : dispatched = m \o more
    <3>1. <<>> \in Seq(Seq(Bytes))
      OBVIOUS
    <3>2. Reader(<<>>, <<>>) \in Readers /\ Shifted(Reader(<<>>, <<>>), m) = Reader(<<>>, m)
      <4>1. m \o <<>> = m
        BY ConcatEmptySeq
      <4> QED
        BY <3>1, <4>1, EmptyReader DEF Shifted, Reader
    <3>3. PICK r \in Readers : r = ReadFrom(Reader(<<>>, <<>>), SubSeq(rest, 1, q))
      BY <2>5, <3>2, ReadFromType
    <3>4. Read(Arrived) = ReadFrom(Reader(<<>>, m), SubSeq(rest, 1, q))
      BY <2>5, <2>6, ReadGoesOn
    <3>5. Read(Arrived) = Shifted(r, m)
      BY <2>5, <3>2, <3>3, <3>4, ReadShifted
    <3>6. r.messages \in Seq(Seq(Bytes))
      BY DEF Readers
    <3>7. Shifted(r, m).messages = m \o r.messages
      BY DEF Shifted, Reader
    <3>8. dispatched = m \o r.messages
      BY <2>1, <3>5, <3>7
    <3> QED
      BY <3>6, <3>8
  <2>8. /\ Len(m) # 0 /\ m[Len(m)] = Encode(sent[n])
        /\ MessagesUpto(m, Len(m)) = Nests(sent, n)
    BY <1>1, <2>2, <2>6 DEF HasNested
  <2>9. Len(m) \in DOMAIN dispatched /\ dispatched[Len(m)] = m[Len(m)]
    <3>1. PICK all \in Seq(Seq(Bytes)), L \in Nat, K \in Nat : Joins(all, m, more, L, K)
      BY BothParts
    <3>2. /\ all = dispatched /\ L = Len(m) /\ DOMAIN all = 1..(L + K)
          /\ \A i \in 1..L : i \in 1..(L + K) /\ all[i] = m[i]
      BY <2>7, <3>1 DEF Joins
    <3>3. L \in 1..L
      BY <2>8, <3>2
    <3> QED
      BY <3>2, <3>3
  <2>10. MessagesUpto(dispatched, Len(m)) = MessagesUpto(m, Len(m))
    BY <2>7, MessagesGrow
  <2> QED
    BY <2>8, <2>9, <2>10 DEF Nests, NestedUpto, MessagesUpto
<1>2. StreamInv => LossIsLocal
  BY <1>1 DEF LossIsLocal
<1> QED
  BY <1>2, StreamInvHolds, PTL

\* What the liveness of Stream rests on: once all bytes have arrived, every message
\* has been dispatched, if the braces in all texts are nested.
NothingLost == wire = <<>> /\ AllNested => Len(dispatched) = Len(sent)

THEOREM NothingLostHolds == StreamSpec => []NothingLost
<1>1. ASSUME StreamInv, wire = <<>>, AllNested
      PROVE  Len(dispatched) = Len(sent)
  <2>1. /\ sent \in Seq(Texts) /\ Arrived \in Seq(Bytes)
        /\ Encoded(sent) = Arrived \o <<>> /\ dispatched = Read(Arrived).messages
    BY <1>1 DEF StreamInv, StreamTypeOK, CutIndependent
  <2>2. Arrived = Upto(sent, Len(sent))
    BY <2>1, ConcatEmptySeq, UptoGrows
  <2>3. \A i \in 1..Len(sent) : sent[i] \in Texts /\ Nested(sent[i])
    BY <1>1, <2>1 DEF AllNested
  <2>4. ASSUME NEW i \in 1..Len(sent)
        PROVE  Harmless(sent[i])
    <3>1. PICK text \in Texts : text = sent[i] /\ Nested(text)
      BY <2>3
    <3>2. <<>> \in Seq(Seq(Bytes))
      OBVIOUS
    <3>3. Read(Encode(text)) = Reader(<<>>, Append(<<>>, Encode(text)))
      BY <3>1, <3>2, NestedIsRead DEF Read, Reader
    <3> QED
      BY <3>1, <3>3 DEF Harmless, Reader
  <2>5. PICK m \in Seq(Seq(Bytes)) :
          Read(Arrived) = Reader(<<>>, m) /\ HasNested(m, sent, Len(sent))
    <3>1. Len(sent) \in 0..Len(sent)
      BY <2>1
    <3> QED
      BY <2>1, <2>2, <2>4, <3>1, HarmlessUpto
  <2>6. Len(m) = Len(sent)
    BY <2>3, <2>5 DEF HasNested
  <2> QED
    BY <2>1, <2>5, <2>6 DEF Reader
<1>2. StreamInv => NothingLost
  BY <1>1 DEF NothingLost
<1> QED
  BY <1>2, StreamInvHolds, PTL
=============================================================================
