-------------------------- MODULE HeartbeatProofs --------------------------
(***************************************************************************)
(* The heartbeat keeps live clients and drops silent ones in time, for     *)
(* every interval, timeout, jitter and setting of the wall clock.          *)
(***************************************************************************)
EXTENDS Connection, FramingProofs

USE DEF Connected, NoPing, MAX_MISSED_PINGS

\* A new session satisfies the invariant.
LEMMA InitInd == Init => IndInv
BY HeartbeatAssumption
   DEF Init, IndInv, TypeOK, Counted, StillOwed, StillQuiet, QuietAtCheck,
       LiveClientKept, DroppedOnlyAfterSilence

\* Time that passes moves quiet, phase and what is owed along together.
LEMMA TickInd == IndInv /\ Tick => IndInv'
<1> SUFFICES ASSUME IndInv, Tick PROVE IndInv'
  OBVIOUS
<1> USE HeartbeatAssumption DEF IndInv, Tick, Elapse
<1>1. TypeOK'
  BY DEF TypeOK
<1>2. (phase <= PING + Jitter)'
  BY DEF TypeOK
<1>3. Counted'
  BY DEF TypeOK, Counted, QuietAtCheck
<1>4. StillOwed'
  BY DEF TypeOK, StillOwed
<1>5. StillQuiet'
  BY DEF TypeOK, StillQuiet
<1>6. LiveClientKept' /\ DroppedOnlyAfterSilence'
  BY DEF TypeOK, LiveClientKept, DroppedOnlyAfterSilence
<1> QED
  BY <1>1, <1>2, <1>3, <1>4, <1>5, <1>6

\* Setting the clock only disturbs what is claimed while it is left alone.
LEMMA ClockJumpInd ==
  ASSUME NEW d \in Jumps, IndInv, ClockJump(d)
  PROVE  IndInv'
<1> USE HeartbeatAssumption DEF IndInv, ClockJump
<1>1. jumps' # 0
  BY DEF TypeOK
<1>2. TypeOK'
  BY DEF TypeOK
<1>3. Counted'
  BY <1>1 DEF Counted
<1> QED
  BY <1>2, <1>3 DEF StillOwed, StillQuiet, LiveClientKept, DroppedOnlyAfterSilence

\* A check counts at most one more missed ping, and the third one it counts
\* finds a client that has been quiet through two intervals.
LEMMA CheckInd == IndInv /\ CheckConnectionStatus => IndInv'
<1> SUFFICES ASSUME IndInv, CheckConnectionStatus PROVE IndInv'
  OBVIOUS
<1> USE HeartbeatAssumption DEF IndInv, CheckConnectionStatus
<1>1. CASE ~Connected
  BY <1>1 DEF TypeOK, Counted, StillOwed, StillQuiet, LiveClientKept,
              DroppedOnlyAfterSilence
<1>2. CASE Connected /\ ~Late
  <2>1. TypeOK' /\ (phase <= PING + Jitter)'
    BY <1>2 DEF TypeOK
  <2>2. Counted'
    BY <1>2 DEF TypeOK, Counted, QuietAtCheck, Late
  <2>3. StillOwed'
    BY <1>2 DEF TypeOK, StillOwed
  <2>4. StillQuiet'
    BY <1>2 DEF TypeOK, StillQuiet
  <2> QED
    BY <1>2, <2>1, <2>2, <2>3, <2>4 DEF LiveClientKept, DroppedOnlyAfterSilence
<1>3. CASE Connected /\ Late /\ missedPings < 2
  <2>1. missedPings' = missedPings + 1 /\ socket' = socket
    BY <1>3 DEF TypeOK, TooMany
  <2>2. TypeOK' /\ (phase <= PING + Jitter)'
    BY <1>3, <2>1 DEF TypeOK
  <2>3. Counted'
    BY <1>3, <2>1 DEF TypeOK, Counted, QuietAtCheck, Late
  <2>4. StillOwed'
    BY <1>3, <2>1 DEF TypeOK, StillOwed
  <2>5. StillQuiet'
    BY <1>3, <2>1 DEF TypeOK, StillQuiet
  <2> QED
    BY <1>3, <2>1, <2>2, <2>3, <2>4, <2>5 DEF LiveClientKept, DroppedOnlyAfterSilence
<1>4. CASE Connected /\ Late /\ missedPings = 2
  <2>1. missedPings' = 3 /\ socket' = "dropped"
    BY <1>4 DEF TooMany
  <2>2. TypeOK' /\ (phase <= PING + Jitter)'
    BY <1>4, <2>1 DEF TypeOK
  <2>3. LiveClientKept'
    BY <1>4 DEF TypeOK, StillOwed, LiveClientKept
  <2>4. DroppedOnlyAfterSilence'
    BY <1>4 DEF TypeOK, StillQuiet, Counted, QuietAtCheck, DroppedOnlyAfterSilence
  <2> QED
    BY <2>1, <2>2, <2>3, <2>4 DEF Counted, StillOwed, StillQuiet
<1> QED
  BY <1>1, <1>2, <1>3, <1>4 DEF TypeOK, StillQuiet

\* Whatever is heard of the client starts the count afresh.
LEMMA HeardInd == IndInv /\ (HandlePong \/ HandlePing) => IndInv'
<1> SUFFICES ASSUME IndInv, HandlePong \/ HandlePing PROVE IndInv'
  OBVIOUS
<1> USE HeartbeatAssumption DEF IndInv, HandlePong, HandlePing, Heard
<1>1. TypeOK' /\ (phase <= PING + Jitter)'
  BY DEF TypeOK
<1>2. Counted' /\ StillQuiet'
  BY DEF TypeOK, Counted, StillQuiet, QuietAtCheck
<1>3. StillOwed'
  BY DEF TypeOK, StillOwed
<1> QED
  BY <1>1, <1>2, <1>3 DEF LiveClientKept, DroppedOnlyAfterSilence

\* A client that falls silent or leaves changes nothing that was counted.
LEMMA ClientInd == IndInv /\ (GoSilent \/ ClientCloses) => IndInv'
BY DEF IndInv, GoSilent, ClientCloses, TypeOK, Counted, QuietAtCheck, StillOwed,
       StillQuiet, LiveClientKept, DroppedOnlyAfterSilence

LEMMA NextInd == IndInv /\ [Next]_vars => IndInv'
<1>1. IndInv /\ UNCHANGED vars => IndInv'
  BY DEF vars, IndInv, TypeOK, Counted, QuietAtCheck, StillOwed, StillQuiet,
         LiveClientKept, DroppedOnlyAfterSilence
<1> QED
  BY <1>1, TickInd, ClockJumpInd, CheckInd, HeardInd, ClientInd DEF Next

\* The invariant is inductive: it holds in every state of every behaviour.
THEOREM HeartbeatInd == Spec => []IndInv
BY InitInd, NextInd, PTL DEF Spec

\* The server's heartbeat never drops a client that answers its pings.
THEOREM LiveClientKeptHolds == Spec => []LiveClientKept
BY HeartbeatInd, PTL DEF IndInv

\* The server drops only a client it has not heard of for long enough.
THEOREM DroppedOnlyAfterSilenceHolds == Spec => []DroppedOnlyAfterSilence
BY HeartbeatInd, PTL DEF IndInv

\* No client is kept beyond the time in which silence must be noticed.
THEOREM DetectedInTimeHolds == Spec => []DetectedInTime
<1>1. IndInv => DetectedInTime
  BY HeartbeatAssumption
     DEF IndInv, TypeOK, Counted, QuietAtCheck, StillQuiet, DetectedInTime
<1> QED
  BY <1>1, HeartbeatInd, PTL
-----------------------------------------------------------------------------
(* The PONGs on their way through the stream of bytes.                     *)

LEMMA TwoBytes ==
  ASSUME NEW o \in Bytes, NEW c \in Bytes
  PROVE  /\ <<o>> \in Seq(Bytes) /\ <<o>> # <<>> /\ Append(<<>>, o) = <<o>>
         /\ <<o>> \o <<>> = <<o>> /\ <<o>> \o <<c>> = Append(<<o>>, c)
         /\ Append(<<o>>, c) \in Seq(Bytes) /\ Len(Append(<<o>>, c)) = 2
         /\ Append(<<o>>, c)[1] = o /\ Append(<<o>>, c)[2] = c
<1>1. <<o>> \in Seq(Bytes) /\ <<o>> # <<>> /\ Append(<<>>, o) = <<o>>
  OBVIOUS
<1>2. <<o>> \o <<>> = <<o>> /\ <<o>> \o <<c>> = Append(<<o>>, c)
  BY <1>1, ConcatEmptySeq, AppendIsConcat
<1>3. Append(<<o>>, c) \in Seq(Bytes) /\ Len(Append(<<o>>, c)) = 2
  OBVIOUS
<1>4. Append(<<o>>, c)[1] = o /\ Append(<<o>>, c)[2] = c
  OBVIOUS
<1> QED
  BY <1>1, <1>2, <1>3, <1>4

\* The message p consists of an opening brace and a closing one.
IsPair(o, c, p) ==
  /\ o \in Bytes /\ o \in Opens /\ Weight(o) = 1
  /\ c \in Bytes /\ Weight(c) = -1
  /\ <<o>> \in Seq(Bytes) /\ p \in Seq(Bytes) /\ p = Append(<<o>>, c)
  /\ Len(p) = 2 /\ p[1] = o /\ p[2] = c
  /\ Parses(p)

LEMMA PongIsPair == IsPair("{", "}", Pong)
<1>1. "{" \in Bytes /\ Weight("{") = 1 /\ "}" \in Bytes /\ Weight("}") = -1
  BY Weights
<1>2. "{" \in Opens
  BY DEF Opens
<1>3. Pong = Append(<<"{">>, "}")
  <2>1. \A o, c \in Bytes : <<o>> \o <<>> = <<o>> /\ <<o>> \o <<c>> = Append(<<o>>, c)
    BY TwoBytes
  <2>2. Pong = (<<"{">> \o <<>>) \o <<"}">>
    BY DEF Pong, Encode
  <2> QED
    BY <1>1, <2>1, <2>2
<1>4. /\ <<"{">> \in Seq(Bytes) /\ Pong \in Seq(Bytes) /\ Len(Pong) = 2
      /\ Pong[1] = "{" /\ Pong[2] = "}"
  BY <1>1, <1>3, TwoBytes
<1>5. 2..(2 - 1) = {}
  OBVIOUS
<1>6. Parses(Pong)
  BY <1>4, <1>5 DEF Parses, IsMessage
<1> QED
  BY <1>1, <1>2, <1>3, <1>4, <1>6 DEF IsPair

\* An empty reader that meets such a message, and one that has read its first
\* byte.
LEMMA PairReads ==
  ASSUME NEW o, NEW c, NEW p, IsPair(o, c, p), NEW m \in Seq(Seq(Bytes))
  PROVE  /\ NextByte(Reader(<<>>, m), o) = Reader(<<o>>, m)
         /\ NextByte(Reader(<<o>>, m), c) = Reader(<<>>, Append(m, p))
<1> USE DEF IsPair
<1>1. <<>> \in Seq(Bytes)
  OBVIOUS
<1>2. Append(<<>>, o) = <<o>> /\ <<o>> # <<>>
  BY TwoBytes
<1>3. /\ Balance(Append(<<>>, o)) = Balance(<<>>) + Weight(o)
      /\ Balance(Append(<<o>>, c)) = Balance(<<o>>) + Weight(c)
  BY <1>1, BalanceAppend
<1>4. Balance(Append(<<>>, o)) > 0 /\ ~(Balance(Append(<<o>>, c)) > 0)
  BY <1>2, <1>3, BalanceEmpty
<1>5. NextByte(Reader(<<>>, m), o) = Reader(<<o>>, m)
  BY <1>2, <1>4, NextByteKept
<1>6. NextByte(Reader(<<o>>, m), c)
        = Reader(<<>>, IF Parses(Append(<<o>>, c)) THEN Append(m, Append(<<o>>, c)) ELSE m)
  BY <1>2, <1>4, NextByteEnds
<1> QED
  BY <1>5, <1>6

\* Such a message put behind a stream that leaves no frame open.
LEMMA PairIsSent ==
  ASSUME NEW o, NEW c, NEW p, IsPair(o, c, p),
         NEW f \in Seq(Bytes), NEW w \in Seq(Bytes), Frame(f, w) = <<>>
  PROVE  Frame(f, Append(w, o)) = <<o>> /\ Frame(f, w \o p) = <<>>
<1>1. PICK d \in Seq(Seq(Bytes)) : ReadFrom(Reader(f, <<>>), w) = Reader(<<>>, d)
  BY FrameWas
<1>2. Reader(f, <<>>) \in Readers
  <2>1. <<>> \in Seq(Seq(Bytes))
    OBVIOUS
  <2> QED
    BY <2>1, ReaderType
<1>3. o \in Bytes /\ c \in Bytes /\ Append(w, o) \in Seq(Bytes)
  BY AppendProperties DEF IsPair
<1>4. ReadFrom(Reader(f, <<>>), Append(w, o)) = Reader(<<o>>, d)
  BY <1>1, <1>2, <1>3, ReadAppend, PairReads
<1>5. ReadFrom(Reader(f, <<>>), Append(Append(w, o), c)) = Reader(<<>>, Append(d, p))
  <2>1. NextByte(Reader(<<o>>, d), c) = Reader(<<>>, Append(d, p))
    BY PairReads
  <2> QED
    BY <1>2, <1>3, <1>4, <2>1, ReadAppend
<1>6. w \o p = Append(Append(w, o), c)
  <2>1. /\ <<o>> \in Seq(Bytes) /\ <<c>> \in Seq(Bytes) /\ p = <<o>> \o <<c>>
    BY <1>3, TwoBytes DEF IsPair
  <2>2. w \o (<<o>> \o <<c>>) = (w \o <<o>>) \o <<c>>
    BY <2>1, ConcatAssociative
  <2> QED
    BY <1>3, <2>1, <2>2, AppendIsConcat
<1> QED
  BY <1>4, <1>5, <1>6 DEF Frame, Reader

\* A reader that has read the first byte of it and goes on finds it.
LEMMA PairIsHeard ==
  ASSUME NEW o, NEW c, NEW p, IsPair(o, c, p),
         NEW f \in Seq(Bytes), NEW s \in Seq(Bytes), NEW t \in Seq(Bytes),
         Frame(f, s) = <<o>>
  PROVE  Contains(ReadFrom(Reader(f, <<>>), Append(s, c) \o t).messages, p)
<1>1. PICK d \in Seq(Seq(Bytes)) : ReadFrom(Reader(f, <<>>), s) = Reader(<<o>>, d)
  BY FrameWas
<1>2. Reader(f, <<>>) \in Readers
  <2>1. <<>> \in Seq(Seq(Bytes))
    OBVIOUS
  <2> QED
    BY <2>1, ReaderType
<1>3. c \in Bytes /\ p \in Seq(Bytes) /\ Append(s, c) \in Seq(Bytes)
  BY AppendProperties DEF IsPair
<1>4. ReadFrom(Reader(f, <<>>), Append(s, c)) = Reader(<<>>, Append(d, p))
  BY <1>1, <1>2, <1>3, ReadAppend, PairReads
<1>5. PICK more \in Seq(Seq(Bytes)) :
        /\ more = Append(d, p) /\ Len(more) = Len(d) + 1 /\ more[Len(d) + 1] = p
  BY <1>3, AppendProperties
<1>6. PICK e \in Seq(Seq(Bytes)) :
        /\ ReadFrom(Reader(<<>>, <<>>), t) = Reader(Frame(<<>>, t), e)
        /\ ReadFrom(Reader(<<>>, more), t) = Reader(Frame(<<>>, t), more \o e)
  <2>1. <<>> \in Seq(Bytes)
    OBVIOUS
  <2> QED
    BY <2>1, FrameIs
<1>7. ReadFrom(Reader(f, <<>>), Append(s, c) \o t) = Reader(Frame(<<>>, t), more \o e)
  <2>1. ReadFrom(Reader(f, <<>>), Append(s, c) \o t)
          = ReadFrom(ReadFrom(Reader(f, <<>>), Append(s, c)), t)
    BY <1>2, <1>3, ReadConcat
  <2> QED
    BY <1>4, <1>5, <1>6, <2>1
<1>8. ReadFrom(Reader(f, <<>>), Append(s, c) \o t).messages = more \o e
  BY <1>7 DEF Reader
<1>9. Len(d) + 1 \in 1..Len(more \o e) /\ (more \o e)[Len(d) + 1] = more[Len(d) + 1]
  <2>1. Len(more \o e) = Len(more) + Len(e)
    BY ConcatProperties
  <2>2. Len(d) + 1 \in 1..(Len(more) + Len(e)) /\ Len(d) + 1 <= Len(more)
    BY <1>5
  <2> QED
    BY <2>1, <2>2, ConcatProperties
<1> QED
  BY <1>5, <1>8, <1>9 DEF Contains

\* A message o c in a stream w: it ends at byte u, and a reader that begins with
\* the frame f has nothing but its first byte before that.
Waits(o, c, f, w, u) ==
  /\ u \in 1..Len(w) /\ w[u] = c
  /\ Frame(f, SubSeq(w, 1, u - 1)) = <<o>>

\* It waits while bytes are put behind it.
LEMMA WaitsLonger ==
  ASSUME NEW o, NEW c, NEW f \in Seq(Bytes), NEW w \in Seq(Bytes), NEW u,
         Waits(o, c, f, w, u), NEW e \in Seq(Bytes)
  PROVE  Waits(o, c, f, w \o e, u)
<1>1. u \in 1..Len(w)
  BY DEF Waits
<1>2. /\ Len(w \o e) = Len(w) + Len(e)
      /\ u \in 1..(Len(w) + Len(e)) /\ u <= Len(w)
  BY <1>1, ConcatProperties
<1>3. (w \o e)[u] = w[u]
  BY <1>2, ConcatProperties
<1>4. SubSeq(w \o e, 1, u - 1) = SubSeq(w, 1, u - 1)
  <2>1. CASE u = 1
    <3>1. SubSeq(w \o e, 1, 0) = <<>> /\ SubSeq(w, 1, 0) = <<>>
      BY SubSeqEmpty
    <3> QED
      BY <2>1, <3>1
  <2>2. CASE u # 1
    <3>1. 1 \in 1..Len(w) /\ u - 1 \in 1..Len(w) /\ u - 1 <= Len(w)
      BY <1>1, <2>2
    <3> QED
      BY <3>1, SubSeqOfConcat1
  <2> QED
    BY <2>1, <2>2
<1> QED
  BY <1>2, <1>3, <1>4 DEF Waits

LEMMA PairBehind ==
  ASSUME NEW o, NEW c, NEW p, IsPair(o, c, p), NEW w \in Seq(Bytes)
  PROVE  /\ Len(w) + Len(p) \in 1..Len(w \o p) /\ (w \o p)[Len(w) + Len(p)] = c
         /\ SubSeq(w \o p, 1, (Len(w) + Len(p)) - 1) = Append(w, o)
<1>1. p \in Seq(Bytes) /\ Len(p) = 2 /\ o \in Bytes /\ c \in Bytes
  BY DEF IsPair
<1>2. PICK front \in Seq(Bytes) : front = Append(w, o) /\ Len(front) = Len(w) + 1
  <2>1. Append(w, o) \in Seq(Bytes) /\ Len(Append(w, o)) = Len(w) + 1
    BY <1>1, AppendProperties
  <2> QED
    BY <2>1
<1>3. <<c>> \in Seq(Bytes) /\ w \o p = front \o <<c>>
  <2>1. <<o>> \in Seq(Bytes) /\ <<c>> \in Seq(Bytes) /\ p = <<o>> \o <<c>>
    BY <1>1, TwoBytes DEF IsPair
  <2>2. w \o (<<o>> \o <<c>>) = (w \o <<o>>) \o <<c>>
    BY <2>1, ConcatAssociative
  <2> QED
    BY <1>1, <1>2, <2>1, <2>2, AppendIsConcat
<1>4. /\ Len(w) + Len(p) \in 1..Len(w \o p) /\ Len(w) + Len(p) - 1 = Len(front)
      /\ (w \o p)[Len(w) + Len(p)] = c
  <2>1. Len(w) \in Nat /\ Len(w \o p) = Len(w) + Len(p)
    <3>1. p \in Seq(Bytes)
      BY <1>1
    <3>2. Len(w \o p) = Len(w) + Len(p)
      BY <3>1, ConcatProperties
    <3> QED
      BY <3>2
  <2>2. /\ Len(w) + Len(p) \in 1..(Len(w) + Len(p)) /\ ~(Len(w) + Len(p) <= Len(w))
        /\ (Len(w) + Len(p)) - Len(w) = 2
    BY <1>1, <2>1
  <2>3. (w \o p)[Len(w) + Len(p)] = p[2]
    BY <1>1, <2>1, <2>2, ConcatProperties
  <2> QED
    BY <1>1, <1>2, <2>1, <2>2, <2>3 DEF IsPair
<1>5. SubSeq(w \o p, 1, Len(front)) = Append(w, o)
  BY <1>2, <1>3, PrefixOfConcat
<1> QED
  BY <1>4, <1>5

\* It waits when it is put behind a stream that leaves no frame open.
LEMMA WaitsSent ==
  ASSUME NEW o, NEW c, NEW p, IsPair(o, c, p),
         NEW f \in Seq(Bytes), NEW w \in Seq(Bytes), Frame(f, w) = <<>>
  PROVE  Waits(o, c, f, w \o p, Len(w) + Len(p))
BY PairIsSent, PairBehind DEF Waits

LEMMA FirstAndRest ==
  ASSUME NEW w \in Seq(Bytes), NEW n \in 1..Len(w), NEW k \in n..Len(w)
  PROVE  /\ SubSeq(w, n + 1, Len(w)) \in Seq(Bytes)
         /\ Len(SubSeq(w, n + 1, Len(w))) = Len(w) - n
         /\ SubSeq(SubSeq(w, n + 1, Len(w)), 1, k - n) \in Seq(Bytes)
         /\ SubSeq(w, 1, k) = SubSeq(w, 1, n) \o SubSeq(SubSeq(w, n + 1, Len(w)), 1, k - n)
         /\ k # n => SubSeq(w, n + 1, Len(w))[k - n] = w[k]
<1>1. PICK rest \in Seq(Bytes) :
        /\ rest = SubSeq(w, n + 1, Len(w)) /\ Len(rest) = Len(w) - n
        /\ \A i \in 1..(Len(w) - n) : rest[i] = w[n + i]
  <2>1. SubSeq(w, n + 1, Len(w)) \in Seq(Bytes) /\ Len(SubSeq(w, n + 1, Len(w))) = Len(w) - n
    OBVIOUS
  <2>2. \A i \in 1..(Len(w) - n) : SubSeq(w, n + 1, Len(w))[i] = w[n + i]
    OBVIOUS
  <2> QED
    BY <2>1, <2>2
<1>2. SubSeq(w, 1, k) = SubSeq(w, 1, n) \o SubSeq(w, n + 1, k)
  <2>1. 1 \in 1..(Len(w) + 1) /\ n \in (1 - 1)..Len(w) /\ k \in n..Len(w)
    OBVIOUS
  <2> QED
    BY <2>1, ConcatAdjacentSubSeq
<1>3. SubSeq(w, n + 1, k) = SubSeq(rest, 1, k - n)
  <2>1. SubSeq(w, n + 1, k) \in Seq(Bytes) /\ Len(SubSeq(w, n + 1, k)) = k - n
    OBVIOUS
  <2>2. \A i \in 1..(k - n) : SubSeq(w, n + 1, k)[i] = w[n + i]
    OBVIOUS
  <2>3. k - n \in 0..Len(rest)
    BY <1>1
  <2>4. SubSeq(rest, 1, k - n) \in Seq(Bytes) /\ Len(SubSeq(rest, 1, k - n)) = k - n
    BY <2>3
  <2>5. \A i \in 1..(k - n) : SubSeq(rest, 1, k - n)[i] = rest[i]
    BY <2>3
  <2>6. \A i \in 1..(k - n) : SubSeq(rest, 1, k - n)[i] = SubSeq(w, n + 1, k)[i]
    BY <1>1, <2>2, <2>3, <2>5
  <2> QED
    BY <2>1, <2>4, <2>6, SeqEqual
<1>4. SubSeq(rest, 1, k - n) \in Seq(Bytes)
  BY <1>1
<1>5. k # n => rest[k - n] = w[k]
  BY <1>1
<1> QED
  BY <1>1, <1>2, <1>3, <1>4, <1>5

\* It waits while a piece before its end is read.
LEMMA WaitsOn ==
  ASSUME NEW o, NEW c, NEW f \in Seq(Bytes), NEW w \in Seq(Bytes), NEW u,
         Waits(o, c, f, w, u), NEW n \in 1..Len(w), n < u
  PROVE  Waits(o, c, Frame(f, SubSeq(w, 1, n)), SubSeq(w, n + 1, Len(w)), u - n)
<1>1. u \in 1..Len(w) /\ w[u] = c /\ Frame(f, SubSeq(w, 1, u - 1)) = <<o>>
  BY DEF Waits
<1>2. u \in n..Len(w) /\ u # n /\ u - 1 \in n..Len(w) /\ (u - 1) - n = (u - n) - 1
  BY <1>1
<1>3. u - n \in 1..(Len(w) - n) /\ Len(SubSeq(w, n + 1, Len(w))) = Len(w) - n
  BY <1>2, FirstAndRest
<1>4. SubSeq(w, n + 1, Len(w))[u - n] = c
  BY <1>1, <1>2, FirstAndRest
<1>5. /\ SubSeq(SubSeq(w, n + 1, Len(w)), 1, (u - n) - 1) \in Seq(Bytes)
      /\ SubSeq(w, 1, u - 1)
           = SubSeq(w, 1, n) \o SubSeq(SubSeq(w, n + 1, Len(w)), 1, (u - n) - 1)
  <2>1. PICK k \in n..Len(w) : k = u - 1 /\ k - n = (u - n) - 1
    BY <1>2
  <2>2. /\ SubSeq(SubSeq(w, n + 1, Len(w)), 1, k - n) \in Seq(Bytes)
        /\ SubSeq(w, 1, k) = SubSeq(w, 1, n) \o SubSeq(SubSeq(w, n + 1, Len(w)), 1, k - n)
    BY FirstAndRest
  <2> QED
    BY <2>1, <2>2
<1>6. SubSeq(w, 1, n) \in Seq(Bytes)
  OBVIOUS
<1>7. Frame(Frame(f, SubSeq(w, 1, n)), SubSeq(SubSeq(w, n + 1, Len(w)), 1, (u - n) - 1))
        = <<o>>
  <2> DEFINE more == SubSeq(SubSeq(w, n + 1, Len(w)), 1, (u - n) - 1)
  <2> HIDE DEF more
  <2>1. Frame(f, SubSeq(w, 1, n) \o more) = Frame(Frame(f, SubSeq(w, 1, n)), more)
    BY <1>5, <1>6, FrameConcat DEF more
  <2> QED
    BY <1>1, <1>5, <2>1 DEF more
<1> QED
  BY <1>3, <1>4, <1>7 DEF Waits

\* It is found in a piece that holds its end.
LEMMA WaitsHeard ==
  ASSUME NEW o, NEW c, NEW p, IsPair(o, c, p),
         NEW f \in Seq(Bytes), NEW w \in Seq(Bytes), NEW u, Waits(o, c, f, w, u),
         NEW n \in 1..Len(w), u <= n
  PROVE  Contains(ReadFrom(Reader(f, <<>>), SubSeq(w, 1, n)).messages, p)
<1>1. u \in 1..Len(w) /\ w[u] = c /\ Frame(f, SubSeq(w, 1, u - 1)) = <<o>>
  BY DEF Waits
<1>2. 1 \in 1..Len(w) /\ u \in 1..Len(w) /\ n \in u..Len(w)
  BY <1>1
<1>3. /\ SubSeq(w, 1, u - 1) \in Seq(Bytes)
      /\ SubSeq(w, 1, u) = Append(SubSeq(w, 1, u - 1), c)
  BY <1>1, <1>2, SubSeqAppend
<1>4. PICK t \in Seq(Bytes) : SubSeq(w, 1, n) = SubSeq(w, 1, u) \o t
  BY <1>2, FirstAndRest
<1> QED
  BY <1>1, <1>3, <1>4, PairIsHeard
-----------------------------------------------------------------------------
(* The connection: the heartbeat over the stream of bytes.                 *)

\* A PONG whose last byte is byte u of the stream w.
PongAt(f, w, u) == Waits("{", "}", f, w, u)

LEMMA PongStays ==
  ASSUME NEW f \in Seq(Bytes), NEW w \in Seq(Bytes), NEW u, PongAt(f, w, u)
  PROVE  /\ \A e \in Seq(Bytes) : PongAt(f, w \o e, u)
         /\ \A n \in 1..Len(w) :
              n < u => PongAt(Frame(f, SubSeq(w, 1, n)), SubSeq(w, n + 1, Len(w)), u - n)
BY WaitsLonger, WaitsOn DEF PongAt

LEMMA PongSent ==
  ASSUME NEW f \in Seq(Bytes), NEW w \in Seq(Bytes), Frame(f, w) = <<>>
  PROVE  /\ PongAt(f, w \o Pong, Len(w) + Len(Pong))
         /\ Pong \in Seq(Bytes) /\ Frame(f, w \o Pong) = <<>>
<1>1. Pong \in Seq(Bytes)
  BY PongIsPair DEF IsPair
<1> QED
  BY <1>1, PongIsPair, WaitsSent, PairIsSent DEF PongAt

LEMMA PongHeard ==
  ASSUME NEW f \in Seq(Bytes), NEW w \in Seq(Bytes), NEW u, PongAt(f, w, u),
         NEW n \in 1..Len(w), ~(n < u)
  PROVE  Contains(ReadFrom(Reader(f, <<>>), SubSeq(w, 1, n)).messages, Pong)
<1>1. u \in 1..Len(w)
  BY DEF PongAt, Waits
<1>2. u <= n
  BY <1>1
<1> QED
  BY <1>2, PongIsPair, WaitsHeard DEF PongAt

\* The types of the stream's variables, and processBuffer leaves no frame.
BufferInv ==
  /\ wire \in Seq(Bytes) /\ buffer \in Seq(Bytes)
  /\ texts \in Seq(Texts)
  /\ pongs \subseteq [age : Nat, upto : Nat]
  /\ FirstFrame(buffer) = <<>>

\* What holds for a live client none of whose texts leaves a brace open: the
\* whole wire will be read without a frame left open, every PONG on the wire will
\* be heard when its end is read, none is too old, and one of them answers the
\* ping that is owed.
Answering ==
  /\ Frame(Unfinished(buffer), wire) = <<>>
  /\ \A p \in pongs : PongAt(Unfinished(buffer), wire, p.upto) /\ p.age <= Delay
  /\ owed # NoPing => \E p \in pongs : owed <= p.age

ConnectionInv ==
  /\ BufferInv
  /\ AllHarmless => IndInv /\ (Alive => Answering)

LEMMA ConnectionInitInv == ConnectionInit => ConnectionInv
<1> SUFFICES ASSUME ConnectionInit PROVE ConnectionInv
  OBVIOUS
<1>1. Init /\ wire = <<>> /\ buffer = <<>> /\ pongs = {} /\ texts = <<>> /\ owed = NoPing
  BY DEF ConnectionInit, Init
<1>2. <<>> \in Seq(Bytes) /\ <<>> \in Seq(Texts)
  OBVIOUS
<1>3. <<>> \in Seq(Seq(Bytes))
  OBVIOUS
<1>4. BufferInv
  BY <1>1, <1>2, FirstFrameEmpty DEF BufferInv
<1>5. Frame(<<>>, <<>>) = <<>>
  <2>1. ReadFrom(Reader(<<>>, <<>>), <<>>) = Reader(<<>>, <<>>)
    BY <1>3, EmptyReader, ReadEmpty
  <2>2. Reader(<<>>, <<>>).frame = <<>>
    BY DEF Reader
  <2> QED
    BY <2>1, <2>2 DEF Frame
<1>6. Answering
  BY <1>1, <1>5, FirstFrameEmpty DEF Answering
<1> QED
  BY <1>1, <1>4, <1>6, InitInd DEF ConnectionInv

\* What is left of the wire and of the buffer after a piece has been read.
LEMMA PieceArrives ==
  ASSUME BufferInv, NEW n \in 1..Len(wire), HandleReadyRead(n)
  PROVE  /\ wire' \in Seq(Bytes) /\ buffer' \in Seq(Bytes) /\ FirstFrame(buffer') = <<>>
         /\ wire' = SubSeq(wire, n + 1, Len(wire))
         /\ Unfinished(buffer) \in Seq(Bytes) /\ SubSeq(wire, 1, n) \in Seq(Bytes)
         /\ Unfinished(buffer') = Frame(Unfinished(buffer), SubSeq(wire, 1, n))
         /\ Frame(Unfinished(buffer'), wire') = Frame(Unfinished(buffer), wire)
         /\ Contains(ReadFrom(Reader(Unfinished(buffer), <<>>), SubSeq(wire, 1, n)).messages,
                     Pong)
              <=> Contains(ProcessBuffer(buffer \o SubSeq(wire, 1, n)).messages, Pong)
<1>1. wire \in Seq(Bytes) /\ buffer \in Seq(Bytes) /\ FirstFrame(buffer) = <<>>
  BY DEF BufferInv
<1>2. PICK piece \in Seq(Bytes), rest \in Seq(Bytes) :
        /\ piece = SubSeq(wire, 1, n) /\ rest = SubSeq(wire, n + 1, Len(wire))
        /\ piece \o rest = wire
  BY <1>1, SplitPiece
<1>3. PICK result : result = ProcessBuffer(buffer \o piece)
  OBVIOUS
<1>4. /\ result.rest \in Seq(Bytes) /\ FirstFrame(result.rest) = <<>>
      /\ Unfinished(buffer) \in Seq(Bytes)
      /\ Unfinished(result.rest) = Frame(Unfinished(buffer), piece)
      /\ ReadFrom(Reader(Unfinished(buffer), <<>>), piece)
           = Reader(Unfinished(result.rest), result.messages)
  BY <1>1, <1>3, PieceIsRead
<1>5. buffer' = result.rest /\ wire' = rest
  BY <1>2, <1>3 DEF HandleReadyRead, Arrive
<1>6. ReadFrom(Reader(Unfinished(buffer), <<>>), piece).messages = result.messages
  BY <1>4 DEF Reader
<1>7. Frame(Unfinished(buffer'), wire') = Frame(Unfinished(buffer), wire)
  <2>1. Frame(Unfinished(buffer), piece \o rest)
          = Frame(Frame(Unfinished(buffer), piece), rest)
    BY <1>4, FrameConcat
  <2> QED
    BY <1>2, <1>4, <1>5, <2>1
<1> QED
  BY <1>2, <1>3, <1>4, <1>5, <1>6, <1>7

\* The texts before the last one.
LEMMA HarmlessBefore ==
  ASSUME BufferInv, NEW text \in Texts, texts' = Append(texts, text), AllHarmless'
  PROVE  AllHarmless /\ Harmless(text)
<1>1. texts \in Seq(Texts)
  BY DEF BufferInv
<1>2. /\ Len(texts') = Len(texts) + 1 /\ texts'[Len(texts) + 1] = text
      /\ \A i \in 1..Len(texts) : texts'[i] = texts[i]
      /\ DOMAIN texts = 1..Len(texts) /\ DOMAIN texts' = 1..Len(texts')
  BY <1>1, AppendProperties
<1>3. Len(texts) \in Nat /\ \A i \in 1..Len(texts) : i \in 1..Len(texts')
  BY <1>1, <1>2
<1>4. Len(texts) + 1 \in 1..Len(texts')
  BY <1>2, <1>3
<1> QED
  BY <1>2, <1>3, <1>4 DEF AllHarmless

LEMMA HarmlessEarlier ==
  ASSUME BufferInv, [ConnectionNext]_connectionVars, AllHarmless'
  PROVE  AllHarmless
<1>1. texts' = texts \/ \E text \in Texts : texts' = Append(texts, text)
  BY DEF ConnectionNext, connectionVars, ClientSends, HandleReadyRead, CheckSendsPing,
         TimePasses, ClockIsSet, ClientEnds
<1> QED
  BY <1>1, HarmlessBefore DEF AllHarmless

\* Every step leaves types right and no frame in the buffer.
LEMMA BufferStep ==
  ASSUME BufferInv, [ConnectionNext]_connectionVars
  PROVE  BufferInv'
<1>1. wire \in Seq(Bytes) /\ texts \in Seq(Texts) /\ pongs \subseteq [age : Nat, upto : Nat]
  BY DEF BufferInv
<1>2. ASSUME NEW text \in Texts, ClientSends(text)
      PROVE  BufferInv'
  <2>1. Encode(text) \in Seq(Bytes)
    BY EncodeType
  <2>2. wire \o Encode(text) \in Seq(Bytes) /\ Append(texts, text) \in Seq(Texts)
    BY <1>1, <2>1, ConcatProperties, AppendProperties
  <2> QED
    BY <1>2, <2>2 DEF BufferInv, ClientSends
<1>3. ASSUME NEW n \in 1..Len(wire), HandleReadyRead(n)
      PROVE  BufferInv'
  <2>1. wire' \in Seq(Bytes) /\ buffer' \in Seq(Bytes) /\ FirstFrame(buffer') = <<>>
    BY <1>3, PieceArrives
  <2>2. n \in Nat
    BY <1>1
  <2>3. pongs' = {[p EXCEPT !.upto = @ - n] : p \in {q \in pongs : q.upto > n}}
        /\ texts' = texts
    BY <1>3 DEF HandleReadyRead
  <2>4. ASSUME NEW p \in pongs, p.upto > n
        PROVE  [p EXCEPT !.upto = @ - n] \in [age : Nat, upto : Nat]
    <3>1. p.upto \in Nat /\ p \in [age : Nat, upto : Nat]
      BY <1>1
    <3>2. p.upto - n \in Nat
      BY <2>2, <2>4, <3>1
    <3> QED
      BY <3>1, <3>2
  <2> QED
    BY <1>1, <2>1, <2>3, <2>4 DEF BufferInv
<1>4. ASSUME CheckSendsPing
      PROVE  BufferInv'
  <2>1. Pong \in Seq(Bytes)
    BY PongIsPair DEF IsPair
  <2>2. wire \o Pong \in Seq(Bytes)
    BY <1>1, <2>1, ConcatProperties
  <2>3. Len(wire) + Len(Pong) \in Nat
    BY <1>1, <2>1
  <2>4. [age |-> 0, upto |-> Len(wire) + Len(Pong)] \in [age : Nat, upto : Nat]
    BY <2>3
  <2>5. /\ wire' = wire \o Pong \/ wire' = wire
        /\ \/ pongs' = pongs \cup {[age |-> 0, upto |-> Len(wire) + Len(Pong)]}
           \/ pongs' = pongs
        /\ buffer' = buffer /\ texts' = texts
    BY <1>4 DEF CheckSendsPing, Answer
  <2> QED
    BY <2>2, <2>4, <2>5 DEF BufferInv
<1>5. ASSUME TimePasses
      PROVE  BufferInv'
  <2>1. \A p \in pongs : [p EXCEPT !.age = @ + 1] \in [age : Nat, upto : Nat]
    BY <1>1
  <2> QED
    BY <1>1, <1>5, <2>1 DEF BufferInv, TimePasses
<1>6. ASSUME UNCHANGED <<wire, buffer, pongs, texts>>
      PROVE  BufferInv'
  BY <1>6 DEF BufferInv
<1> QED
  BY <1>2, <1>3, <1>4, <1>5, <1>6
     DEF ConnectionNext, connectionVars, ClockIsSet, ClientEnds

\* While no text leaves a brace open, every step of the connection is one of the
\* heartbeat: the PONGs are heard in time.
LEMMA StepOfHeartbeat ==
  ASSUME ConnectionInv, AllHarmless, [ConnectionNext]_connectionVars
  PROVE  [Next]_vars
<1>1. IndInv /\ (Alive => Answering)
  BY DEF ConnectionInv
<1>2. ASSUME TimePasses
      PROVE  Tick
  <2>1. ASSUME Alive
        PROVE  owed < Delay
    <3>1. CASE owed = NoPing
      BY <3>1, HeartbeatAssumption
    <3>2. CASE owed # NoPing
      <4>1. PICK p \in pongs : owed <= p.age
        BY <1>1, <2>1, <3>2 DEF Answering
      <4>2. p.age \in Nat /\ p.age < Delay
        BY <1>2, <2>1 DEF TimePasses, ConnectionInv, BufferInv
      <4>3. owed \in Nat
        BY <1>1, <3>2 DEF IndInv, TypeOK
      <4> QED
        BY <4>1, <4>2, <4>3, HeartbeatAssumption
    <3> QED
      BY <3>1, <3>2
  <2> QED
    BY <1>2, <2>1 DEF TimePasses, Tick, Alive
<1>3. ASSUME NEW n \in 1..Len(wire), HandleReadyRead(n)
      PROVE  HandlePong \/ HandlePing \/ UNCHANGED vars
  BY <1>3 DEF HandleReadyRead, HandlePong, HandlePing
<1> QED
  BY <1>2, <1>3
     DEF ConnectionNext, connectionVars, Next, ClientSends, CheckSendsPing, ClockIsSet,
         ClientEnds

\* A text that leaves no brace open puts its bytes behind the PONGs.
LEMMA SendsAnswering ==
  ASSUME BufferInv, Answering, NEW text \in Texts, ClientSends(text), Harmless(text)
  PROVE  Answering'
<1> DEFINE f == Unfinished(buffer)
<1>1. wire \in Seq(Bytes) /\ buffer \in Seq(Bytes) /\ f \in Seq(Bytes)
      /\ Encode(text) \in Seq(Bytes)
  <2>1. \A m \in Seq(Seq(Bytes)) : Unfinished(buffer) \in Seq(Bytes)
    BY ReadUnfinished DEF BufferInv
  <2>2. <<>> \in Seq(Seq(Bytes))
    OBVIOUS
  <2> QED
    BY <2>1, <2>2, EncodeType DEF BufferInv
<1>2. wire' = wire \o Encode(text) /\ buffer' = buffer /\ pongs' = pongs /\ owed' = owed
  BY DEF ClientSends, vars
<1> HIDE DEF f
<1>3. Frame(f, wire) = <<>> /\ \A p \in pongs : PongAt(f, wire, p.upto)
  BY DEF Answering, f
<1>4. Frame(f, wire \o Encode(text)) = <<>>
  <2>1. Frame(f, wire \o Encode(text)) = Frame(Frame(f, wire), Encode(text))
    BY <1>1, FrameConcat
  <2>2. Frame(<<>>, Encode(text)) = <<>>
    BY DEF Harmless, Read, Frame, Reader
  <2> QED
    BY <1>3, <2>1, <2>2
<1>5. \A p \in pongs : PongAt(f, wire \o Encode(text), p.upto)
  BY <1>1, <1>3, PongStays
<1>6. f' = f
  BY <1>2 DEF f
<1> QED
  BY <1>2, <1>4, <1>5, <1>6 DEF Answering, f

LEMMA CheckAnswering ==
  ASSUME BufferInv, IndInv, Alive, Answering, CheckSendsPing
  PROVE  Answering'
<1> DEFINE f == Unfinished(buffer)
           pong == [age |-> 0, upto |-> Len(wire) + Len(Pong)]
<1>1. wire \in Seq(Bytes) /\ f \in Seq(Bytes)
  <2>1. \A m \in Seq(Seq(Bytes)) : Unfinished(buffer) \in Seq(Bytes)
    BY ReadUnfinished DEF BufferInv
  <2>2. <<>> \in Seq(Seq(Bytes))
    OBVIOUS
  <2> QED
    BY <2>1, <2>2 DEF BufferInv
<1>2. /\ wire' = wire \o Pong /\ pongs' = pongs \cup {pong}
      /\ buffer' = buffer /\ owed' = IF owed = NoPing THEN 0 ELSE owed
  BY DEF CheckSendsPing, CheckConnectionStatus, Answer, Alive
<1>3. pong.age = 0 /\ pong.upto = Len(wire) + Len(Pong)
  OBVIOUS
<1> HIDE DEF f, pong
<1>4. Frame(f, wire) = <<>> /\ \A p \in pongs : PongAt(f, wire, p.upto) /\ p.age <= Delay
  BY DEF Answering, f
<1>5. /\ PongAt(f, wire \o Pong, Len(wire) + Len(Pong))
      /\ Pong \in Seq(Bytes) /\ Frame(f, wire \o Pong) = <<>>
  BY <1>1, <1>4, PongSent
<1>6. \A p \in pongs : PongAt(f, wire \o Pong, p.upto)
  BY <1>1, <1>4, <1>5, PongStays
<1>7. \A p \in pongs' : PongAt(f, wire \o Pong, p.upto) /\ p.age <= Delay
  <2>1. pong.age <= Delay
    BY <1>3, HeartbeatAssumption
  <2> QED
    BY <1>2, <1>3, <1>4, <1>5, <1>6, <2>1
<1>8. owed' # NoPing => \E p \in pongs' : owed' <= p.age
  <2>1. CASE owed = NoPing
    <3>1. owed' = 0 /\ owed' <= pong.age /\ pong \in pongs'
      BY <1>2, <1>3, <2>1
    <3> QED
      BY <3>1
  <2>2. CASE owed # NoPing
    <3>1. PICK p \in pongs : owed <= p.age
      BY <2>2 DEF Answering
    <3> QED
      BY <1>2, <2>2, <3>1
  <2> QED
    BY <2>1, <2>2
<1>9. f' = f
  BY <1>2 DEF f
<1> QED
  BY <1>2, <1>5, <1>7, <1>8, <1>9 DEF Answering, f

LEMMA TimeAnswering ==
  ASSUME BufferInv, IndInv, Alive, Answering, TimePasses
  PROVE  Answering'
<1>1. /\ wire' = wire /\ buffer' = buffer
      /\ pongs' = {[p EXCEPT !.age = @ + 1] : p \in pongs}
      /\ \A p \in pongs : p.age < Delay
      /\ owed' = IF owed = NoPing THEN NoPing ELSE owed + 1
  BY DEF TimePasses, Elapse, Alive
<1>2. ASSUME NEW p \in pongs
      PROVE  /\ [p EXCEPT !.age = @ + 1].age = p.age + 1 /\ p.age \in Nat
             /\ [p EXCEPT !.age = @ + 1].upto = p.upto
  <2>1. p \in [age : Nat, upto : Nat]
    BY DEF BufferInv
  <2> QED
    BY <2>1
<1>3. ASSUME NEW q \in pongs'
      PROVE  PongAt(Unfinished(buffer), wire, q.upto) /\ q.age <= Delay
  <2>1. PICK p \in pongs : q = [p EXCEPT !.age = @ + 1]
    BY <1>1
  <2>2. q.upto = p.upto /\ q.age = p.age + 1 /\ p.age < Delay /\ p.age \in Nat
    BY <1>1, <1>2, <2>1
  <2>3. q.age <= Delay
    BY <2>2, HeartbeatAssumption
  <2> QED
    BY <2>2, <2>3 DEF Answering
<1>4. ASSUME owed' # NoPing
      PROVE  \E q \in pongs' : owed' <= q.age
  <2>1. owed # NoPing /\ owed' = owed + 1
    BY <1>1, <1>4
  <2>2. PICK p \in pongs : owed <= p.age
    BY <2>1 DEF Answering
  <2>3. PICK q \in pongs' : q = [p EXCEPT !.age = @ + 1]
    BY <1>1
  <2>4. q.age = p.age + 1 /\ p.age \in Nat /\ owed \in Nat
    BY <1>2, <2>1, <2>3 DEF IndInv, TypeOK
  <2>5. owed' <= q.age
    BY <2>1, <2>2, <2>4
  <2> QED
    BY <2>5
<1> QED
  BY <1>1, <1>3, <1>4 DEF Answering

\* A piece that is read takes the PONGs along whose end is in it, and then a
\* PONG is heard, which answers the ping that is owed.
LEMMA ReadyReadAnswering ==
  ASSUME BufferInv, Answering, NEW n \in 1..Len(wire), HandleReadyRead(n)
  PROVE  Answering'
<1> DEFINE f == Unfinished(buffer)
           piece == SubSeq(wire, 1, n)
<1>1. /\ wire \in Seq(Bytes) /\ n \in Nat /\ f \in Seq(Bytes)
      /\ wire' = SubSeq(wire, n + 1, Len(wire))
      /\ Unfinished(buffer') = Frame(f, piece)
      /\ Frame(Unfinished(buffer'), wire') = Frame(f, wire)
  BY PieceArrives DEF BufferInv
<1>2. pongs' = {[p EXCEPT !.upto = @ - n] : p \in {q \in pongs : q.upto > n}}
  BY DEF HandleReadyRead
<1>3. Contains(ReadFrom(Reader(f, <<>>), piece).messages, Pong) \/ owed' = owed
  BY PieceArrives DEF HandleReadyRead, vars
<1>4. Contains(ReadFrom(Reader(f, <<>>), piece).messages, Pong) => owed' = NoPing
  BY PieceArrives DEF HandleReadyRead
<1> HIDE DEF f, piece
<1>5. /\ Frame(f, wire) = <<>>
      /\ \A p \in pongs : PongAt(f, wire, p.upto) /\ p.age <= Delay
  BY DEF Answering, f
<1>6. ASSUME NEW p \in pongs
      PROVE  /\ p.upto \in Nat /\ [p EXCEPT !.upto = @ - n].upto = p.upto - n
             /\ [p EXCEPT !.upto = @ - n].age = p.age
  <2>1. p \in [age : Nat, upto : Nat]
    BY DEF BufferInv
  <2> QED
    BY <2>1
<1>7. ASSUME NEW q \in pongs'
      PROVE  PongAt(Unfinished(buffer'), wire', q.upto) /\ q.age <= Delay
  <2>1. PICK p \in pongs : p.upto > n /\ q = [p EXCEPT !.upto = @ - n]
    BY <1>2
  <2>2. q.upto = p.upto - n /\ q.age = p.age /\ n < p.upto
    BY <1>1, <1>6, <2>1
  <2>3. PongAt(Frame(f, piece), SubSeq(wire, n + 1, Len(wire)), p.upto - n)
    BY <1>1, <1>5, <2>2, PongStays DEF piece
  <2> QED
    BY <1>1, <1>5, <2>2, <2>3
<1>8. ASSUME owed' # NoPing
      PROVE  \E q \in pongs' : owed' <= q.age
  <2>1. /\ owed' = owed
        /\ ~Contains(ReadFrom(Reader(f, <<>>), piece).messages, Pong)
    BY <1>3, <1>4, <1>8
  <2>2. PICK p \in pongs : owed <= p.age
    BY <1>8, <2>1 DEF Answering
  <2>3. n < p.upto
    BY <1>1, <1>5, <2>1, PongHeard DEF piece
  <2>4. PICK q \in pongs' : q = [p EXCEPT !.upto = @ - n]
    BY <1>1, <1>2, <1>6, <2>3
  <2> QED
    BY <1>6, <2>1, <2>2, <2>4
<1> QED
  BY <1>1, <1>5, <1>7, <1>8 DEF Answering

\* A step in which the client ends leaves none that is alive, and the wall clock
\* does not matter to the stream.
LEMMA NextAnswering ==
  ASSUME ConnectionInv, [ConnectionNext]_connectionVars, AllHarmless', Alive'
  PROVE  Answering'
<1>1. BufferInv /\ AllHarmless /\ IndInv
  BY HarmlessEarlier DEF ConnectionInv
<1>2. Alive
  <2>1. [Next]_vars
    BY <1>1, StepOfHeartbeat
  <2> QED
    BY <2>1 DEF Next, vars, Alive, Tick, Elapse, ClockJump, CheckConnectionStatus,
                HandlePong, HandlePing, Heard, GoSilent, ClientCloses
<1>3. Answering
  BY <1>1, <1>2 DEF ConnectionInv
<1>4. ASSUME NEW text \in Texts, ClientSends(text)
      PROVE  Answering'
  <2>1. Harmless(text)
    BY <1>1, <1>4, HarmlessBefore DEF ClientSends
  <2> QED
    BY <1>1, <1>3, <1>4, <2>1, SendsAnswering
<1>5. ASSUME UNCHANGED <<wire, buffer, pongs, owed>>
      PROVE  Answering'
  BY <1>3, <1>5 DEF Answering
<1>6. ClientEnds => ~Alive'
  BY DEF ClientEnds, GoSilent, ClientCloses, Alive
<1> QED
  BY <1>1, <1>2, <1>3, <1>4, <1>5, <1>6, CheckAnswering, TimeAnswering, ReadyReadAnswering
     DEF ConnectionNext, connectionVars, vars, ClockIsSet, ClockJump

\* The invariant is inductive.
THEOREM ConnectionInvHolds == ConnectionSpec => []ConnectionInv
<1>1. ASSUME ConnectionInv, [ConnectionNext]_connectionVars
      PROVE  ConnectionInv'
  <2>1. BufferInv'
    BY <1>1, BufferStep DEF ConnectionInv
  <2>2. ASSUME AllHarmless'
        PROVE  IndInv'
    <3>1. AllHarmless /\ IndInv
      BY <1>1, <2>2, HarmlessEarlier DEF ConnectionInv
    <3> QED
      BY <1>1, <3>1, StepOfHeartbeat, NextInd
  <2> QED
    BY <1>1, <2>1, <2>2, NextAnswering DEF ConnectionInv
<1> QED
  BY ConnectionInitInv, <1>1, PTL DEF ConnectionSpec

\* Whatever is cut or delayed on the way, and however the wall clock is set, the
\* server drops no client that answers its pings and none of whose texts leaves
\* a brace open.
THEOREM AnsweringClientKeptHolds == ConnectionSpec => []AnsweringClientKept
<1>1. ConnectionInv => AnsweringClientKept
  BY DEF ConnectionInv, IndInv, LiveClientKept, AnsweringClientKept
<1> QED
  BY <1>1, ConnectionInvHolds, PTL

\* The heartbeat over the stream implements the heartbeat whose PONGs just arrive
\* in time, for as long as no text leaves a brace open.
THEOREM ImplementsHeartbeat ==
  ConnectionSpec => Init /\ [][AllHarmless => [Next]_vars]_connectionVars
<1>1. ConnectionInit => Init
  BY DEF ConnectionInit
<1>2. ConnectionInv /\ [ConnectionNext]_connectionVars => (AllHarmless => [Next]_vars)
  BY StepOfHeartbeat
<1> QED
  BY <1>1, <1>2, ConnectionInvHolds, PTL DEF ConnectionSpec
=============================================================================
