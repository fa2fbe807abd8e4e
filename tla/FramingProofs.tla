--------------------------- MODULE FramingProofs ---------------------------
(***************************************************************************)
(* What processBuffer computes, for every buffer and for texts of any      *)
(* length: however many turns its loop takes, it dispatches the messages   *)
(* that a reader of single bytes does, and what it leaves in the buffer is *)
(* the frame that reader has not completed.                                *)
(*                                                                         *)
(* The induction theorems of the library take an operator.  Here induction *)
(* is over a set of numbers, from the well-foundedness of <.               *)
(***************************************************************************)
EXTENDS Framing, SequenceTheorems, FiniteSetTheorems, WellFoundedInduction, TLAPS

\* A set of naturals that is not empty has a least element.
LEMMA LeastExists ==
  ASSUME NEW S \in SUBSET Nat, S # {}
  PROVE  \E n \in S : \A m \in S : n <= m
<1>1. PICK n \in S : \A m \in S : ~ (<<m, n>> \in OpToRel(<, Nat))
  BY NatLessThanWellFounded, WFMin
<1>2. ASSUME NEW m \in S
      PROVE  n <= m
  <2>1. m \in Nat /\ n \in Nat
    OBVIOUS
  <2>2. ~ (m < n)
    BY <1>1, <2>1 DEF OpToRel
  <2> QED
    BY <2>1, <2>2
<1> QED
  BY <1>2

LEMMA MinIsLeast ==
  ASSUME NEW S \in SUBSET Nat, S # {}
  PROVE  Min(S) \in S /\ \A m \in S : Min(S) <= m
BY LeastExists DEF Min

LEMMA Induction ==
  ASSUME NEW S, 0 \in S, \A n \in Nat : n \in S => n + 1 \in S
  PROVE  Nat \subseteq S
<1> DEFINE T == Nat \ S
<1>1. SUFFICES ASSUME T # {} PROVE FALSE
  OBVIOUS
<1>2. PICK n \in T : \A m \in T : n <= m
  <2>1. T \in SUBSET Nat
    OBVIOUS
  <2> HIDE DEF T
  <2> QED
    BY <1>1, <2>1, LeastExists
<1>3. n \in Nat /\ n # 0 /\ n - 1 \in Nat /\ (n - 1) + 1 = n /\ ~ (n <= n - 1)
  BY <1>2
<1>4. n - 1 \in T
  BY <1>2, <1>3
<1> QED
  BY <1>2, <1>3, <1>4

\* What a recursive definition on 0..N starts from and how it goes on, and what
\* it defines.
IsRecursion(T, first, next, N) ==
  first \in T /\ N \in Nat /\ next \in [1..N -> [T -> T]]

Defines(T, first, next, N, f) ==
  /\ f \in [0..N -> T] /\ f[0] = first
  /\ \A n \in 1..N : f[n] = next[n][f[n - 1]]

\* A function defined by recursion on 0..N exists.
LEMMA Recursion ==
  ASSUME NEW T, NEW first, NEW next, NEW N, IsRecursion(T, first, next, N)
  PROVE  \E f : Defines(T, first, next, N, f)
<1> USE DEF IsRecursion
<1> DEFINE Upto(f, m) ==
             \A n \in 0..m : f[n] = IF n = 0 THEN first ELSE next[n][f[n - 1]]
           S == {m \in Nat : m <= N => \E f \in [0..m -> T] : Upto(f, m)}
<1>1. 0 \in S
  <2>1. [n \in 0..0 |-> first] \in [0..0 -> T] /\ Upto([n \in 0..0 |-> first], 0)
    OBVIOUS
  <2> QED
    BY <2>1
<1>2. ASSUME NEW m \in Nat, m \in S, m + 1 <= N
      PROVE  \E f \in [0..(m + 1) -> T] : Upto(f, m + 1)
  <2>1. PICK f \in [0..m -> T] : Upto(f, m)
    BY <1>2
  <2>2. m \in 0..m /\ m + 1 \in 1..N /\ f[m] \in T
    BY <1>2, <2>1
  <2> DEFINE g == [n \in 0..(m + 1) |-> IF n <= m THEN f[n] ELSE next[m + 1][f[m]]]
  <2>3. g \in [0..(m + 1) -> T]
    <3>1. next[m + 1][f[m]] \in T
      BY <2>2
    <3>2. \A n \in 0..(m + 1) : n <= m => f[n] \in T
      BY <2>1
    <3> QED
      BY <3>1, <3>2
  <2>4. ASSUME NEW n \in 0..(m + 1)
        PROVE  g[n] = IF n = 0 THEN first ELSE next[n][g[n - 1]]
    <3>1. CASE n = m + 1
      <4>1. n # 0 /\ ~ (n <= m) /\ n - 1 = m /\ m \in 0..(m + 1) /\ m <= m
        BY <3>1
      <4>2. g[n] = next[n][f[m]] /\ g[m] = f[m]
        BY <3>1, <4>1
      <4> HIDE DEF g
      <4> QED
        BY <4>1, <4>2
    <3>2. CASE n <= m
      <4>1. n # 0 => n - 1 \in 0..m /\ n - 1 \in 0..(m + 1) /\ n - 1 <= m
        BY <3>2, <2>4
      <4>2. g[n] = f[n] /\ (n # 0 => g[n - 1] = f[n - 1])
        BY <3>2, <4>1
      <4>3. n \in 0..m
        BY <3>2
      <4> QED
        BY <2>1, <4>2, <4>3
    <3>3. n = m + 1 \/ n <= m
      OBVIOUS
    <3> HIDE DEF g
    <3> QED
      BY <3>1, <3>2, <3>3
  <2> HIDE DEF g
  <2> QED
    BY <2>3, <2>4
<1>3. Nat \subseteq S
  <2>1. \A m \in Nat : m \in S => m + 1 \in S
    BY <1>2
  <2> HIDE DEF S
  <2> QED
    BY <1>1, <2>1, Induction
<1>4. PICK f \in [0..N -> T] : Upto(f, N)
  BY <1>3
<1>5. f[0] = first
  <2>1. 0 \in 0..N
    OBVIOUS
  <2>2. f[0] = IF 0 = 0 THEN first ELSE next[0][f[0 - 1]]
    BY <1>4, <2>1
  <2> QED
    BY <2>2
<1>6. ASSUME NEW n \in 1..N
      PROVE  f[n] = next[n][f[n - 1]]
  <2>1. n \in 0..N /\ n # 0
    OBVIOUS
  <2> QED
    BY <1>4, <2>1
<1> QED
  BY <1>5, <1>6 DEF Defines

\* Induction up to N.
LEMMA InductionUpto ==
  ASSUME NEW N \in Nat, NEW S, 0 \in S, \A n \in 1..N : n - 1 \in S => n \in S
  PROVE  \A n \in 0..N : n \in S
<1> DEFINE T == {n \in Nat : n <= N => n \in S}
<1>1. 0 \in T
  OBVIOUS
<1>2. ASSUME NEW n \in Nat, n \in T
      PROVE  n + 1 \in T
  <2>1. CASE n + 1 <= N
    <3>1. n + 1 \in 1..N /\ (n + 1) - 1 = n /\ n <= N
      BY <2>1
    <3> QED
      BY <1>2, <3>1
  <2>2. CASE ~ (n + 1 <= N)
    BY <2>2
  <2> QED
    BY <2>1, <2>2
<1>3. Nat \subseteq T
  <2> HIDE DEF T
  <2> QED
    BY <1>1, <1>2, Induction
<1> QED
  BY <1>3
-----------------------------------------------------------------------------
(* The reader of single bytes.                                             *)

Readers == [frame : Seq(Bytes), messages : Seq(Seq(Bytes))]

LEMMA NextByteType ==
  ASSUME NEW r \in Readers, NEW c \in Bytes
  PROVE  NextByte(r, c) \in Readers
<1>1. r.frame \in Seq(Bytes) /\ r.messages \in Seq(Seq(Bytes))
  BY DEF Readers
<1>2. Append(r.frame, c) \in Seq(Bytes) /\ <<>> \in Seq(Bytes)
  BY <1>1
<1>3. Append(r.messages, Append(r.frame, c)) \in Seq(Seq(Bytes))
  BY <1>1, <1>2
<1> HIDE DEF Readers
<1>4. CASE r.frame = <<>> /\ c \notin Opens
  BY <1>4 DEF NextByte
<1>5. CASE ~(r.frame = <<>> /\ c \notin Opens) /\ Balance(Append(r.frame, c)) > 0
  BY <1>1, <1>2, <1>5 DEF NextByte, Readers
<1>6. CASE ~(r.frame = <<>> /\ c \notin Opens) /\ ~(Balance(Append(r.frame, c)) > 0)
  BY <1>1, <1>2, <1>3, <1>6 DEF NextByte, Readers
<1> QED
  BY <1>4, <1>5, <1>6

\* The readers after 0, 1, ... bytes of s, from r on.
IsRun(f, r, s) ==
  /\ f \in [0..Len(s) -> Readers]
  /\ f[0] = r
  /\ \A n \in 1..Len(s) : f[n] = NextByte(f[n - 1], s[n])

LEMMA RunExists ==
  ASSUME NEW r \in Readers, NEW s \in Seq(Bytes)
  PROVE  \E f : IsRun(f, r, s) /\ ReadFrom(r, s) = f[Len(s)]
<1> DEFINE N == Len(s)
           next == [n \in 1..N |-> [q \in Readers |-> NextByte(q, s[n])]]
           Run(f) == f = [n \in 0..N |-> IF n = 0 THEN r ELSE NextByte(f[n - 1], s[n])]
<1>1. N \in Nat /\ \A n \in 1..N : s[n] \in Bytes
  OBVIOUS
<1>2. next \in [1..N -> [Readers -> Readers]]
  BY <1>1, NextByteType
<1>3. \A q \in Readers, n \in 1..N : next[n][q] = NextByte(q, s[n])
  OBVIOUS
<1>4. PICK f \in [0..N -> Readers] :
        f[0] = r /\ \A n \in 1..N : f[n] = next[n][f[n - 1]]
  <2>1. IsRecursion(Readers, r, next, N)
    BY <1>1, <1>2 DEF IsRecursion
  <2> HIDE DEF next
  <2> QED
    BY <2>1, Recursion DEF Defines
<1>5. ASSUME NEW n \in 0..N
      PROVE  f[n] = IF n = 0 THEN r ELSE NextByte(f[n - 1], s[n])
  <2>1. n # 0 => n \in 1..N /\ n - 1 \in 0..N
    BY <1>1
  <2>2. n # 0 => f[n - 1] \in Readers
    BY <2>1
  <2> HIDE DEF next
  <2> QED
    BY <1>3, <1>4, <2>1, <2>2
<1>6. Run(f)
  <2> HIDE DEF next
  <2> QED
    BY <1>4, <1>5
<1> DEFINE g == CHOOSE g : Run(g)
<1>7. Run(g)
  <2> HIDE DEF Run
  <2> QED
    BY <1>6
<1>8. ReadFrom(r, s) = g[N]
  BY DEF ReadFrom
<1> HIDE DEF g
<1>9. /\ DOMAIN g = 0..N /\ g[0] = r
      /\ \A n \in 1..N : g[n] = NextByte(g[n - 1], s[n])
  BY <1>1, <1>7
<1>10. \A n \in 0..N : n \in {k \in Nat : k <= N => g[k] \in Readers}
  <2>1. ASSUME NEW n \in 1..N, g[n - 1] \in Readers
        PROVE  g[n] \in Readers
    BY <1>1, <1>9, <2>1, NextByteType
  <2>2. ASSUME NEW n \in 1..N, n - 1 \in {k \in Nat : k <= N => g[k] \in Readers}
        PROVE  n \in {k \in Nat : k <= N => g[k] \in Readers}
    <3>1. n - 1 <= N
      BY <1>1
    <3> QED
      BY <1>1, <2>1, <2>2, <3>1
  <2>3. 0 \in {k \in Nat : k <= N => g[k] \in Readers}
    BY <1>9
  <2> QED
    BY <1>1, <2>2, <2>3, InductionUpto
<1>11. g \in [0..N -> Readers]
  <2>1. \A n \in 0..N : g[n] \in Readers
    BY <1>1, <1>10
  <2>2. g = [n \in 0..N |-> g[n]]
    BY <1>7
  <2> QED
    BY <2>1, <2>2
<1> QED
  BY <1>8, <1>9, <1>11 DEF IsRun

\* There is only one run.
LEMMA RunResult ==
  ASSUME NEW r \in Readers, NEW s \in Seq(Bytes), NEW f, IsRun(f, r, s)
  PROVE  ReadFrom(r, s) = f[Len(s)]
<1>1. PICK g : IsRun(g, r, s) /\ ReadFrom(r, s) = g[Len(s)]
  BY RunExists
<1> DEFINE S == {n \in Nat : f[n] = g[n]}
<1>2. 0 \in S
  BY <1>1 DEF IsRun
<1>3. ASSUME NEW n \in 1..Len(s), n - 1 \in S
      PROVE  n \in S
  BY <1>1, <1>3 DEF IsRun
<1>4. \A n \in 0..Len(s) : n \in S
  <2>1. Len(s) \in Nat
    OBVIOUS
  <2> HIDE DEF S
  <2> QED
    BY <1>2, <1>3, <2>1, InductionUpto
<1> QED
  BY <1>1, <1>4

LEMMA ReadFromType ==
  ASSUME NEW r \in Readers, NEW s \in Seq(Bytes)
  PROVE  ReadFrom(r, s) \in Readers
<1>1. PICK f : IsRun(f, r, s) /\ ReadFrom(r, s) = f[Len(s)]
  BY RunExists
<1>2. Len(s) \in 0..Len(s)
  OBVIOUS
<1> QED
  BY <1>1, <1>2 DEF IsRun

LEMMA ReadEmpty ==
  ASSUME NEW r \in Readers
  PROVE  ReadFrom(r, <<>>) = r
<1>1. <<>> \in Seq(Bytes) /\ Len(<<>>) = 0
  OBVIOUS
<1>2. PICK f : IsRun(f, r, <<>>) /\ ReadFrom(r, <<>>) = f[Len(<<>>)]
  BY <1>1, RunExists
<1>3. f[0] = r
  BY <1>2 DEF IsRun
<1> QED
  BY <1>1, <1>2, <1>3

\* Reading a and then b is reading them together.
LEMMA ReadConcat ==
  ASSUME NEW r \in Readers, NEW a \in Seq(Bytes), NEW b \in Seq(Bytes)
  PROVE  ReadFrom(r, a \o b) = ReadFrom(ReadFrom(r, a), b)
<1>1. PICK f : IsRun(f, r, a) /\ ReadFrom(r, a) = f[Len(a)]
  BY RunExists
<1>2. f[Len(a)] \in Readers
  BY <1>1, ReadFromType
<1>3. PICK g : IsRun(g, f[Len(a)], b) /\ ReadFrom(f[Len(a)], b) = g[Len(b)]
  BY <1>2, RunExists
<1> DEFINE k == Len(a)
           N == Len(a) + Len(b)
           h == [n \in 0..N |-> IF n <= k THEN f[n] ELSE g[n - k]]
<1>4. /\ a \o b \in Seq(Bytes) /\ Len(a \o b) = N
      /\ k \in Nat /\ Len(b) \in Nat
      /\ \A n \in 1..N : (a \o b)[n] = IF n <= k THEN a[n] ELSE b[n - k]
  BY ConcatProperties
<1>5. /\ f \in [0..k -> Readers] /\ f[0] = r
      /\ \A n \in 1..k : f[n] = NextByte(f[n - 1], a[n])
  BY <1>1 DEF IsRun
<1>6. /\ g \in [0..Len(b) -> Readers] /\ g[0] = f[k]
      /\ \A n \in 1..Len(b) : g[n] = NextByte(g[n - 1], b[n])
  BY <1>3 DEF IsRun
<1>7. h \in [0..N -> Readers] /\ h[0] = r
  <2>1. \A n \in 0..N : n <= k => n \in 0..k
    BY <1>4
  <2>2. \A n \in 0..N : ~(n <= k) => n - k \in 0..Len(b)
    BY <1>4
  <2> QED
    BY <1>4, <1>5, <1>6, <2>1, <2>2
<1>8. ASSUME NEW n \in 1..N
      PROVE  h[n] = NextByte(h[n - 1], (a \o b)[n])
  <2>1. n \in 0..N /\ n - 1 \in 0..N
    BY <1>4
  <2>2. CASE n <= k
    <3>1. h[n] = f[n] /\ h[n - 1] = f[n - 1] /\ n \in 1..k /\ (a \o b)[n] = a[n]
      BY <1>4, <2>1, <2>2
    <3> HIDE DEF h
    <3> QED
      BY <1>5, <3>1
  <2>3. CASE ~(n <= k)
    <3>1. n - k \in 1..Len(b) /\ (n - k) - 1 = (n - 1) - k
      BY <1>4, <2>3
    <3>2. h[n] = g[n - k] /\ (a \o b)[n] = b[n - k]
      BY <1>4, <2>1, <2>3
    <3>3. h[n - 1] = g[(n - 1) - k]
      <4>1. CASE n - 1 <= k
        <5>1. n - 1 = k
          BY <1>4, <2>3, <4>1
        <5> QED
          BY <1>4, <1>6, <2>1, <5>1
      <4>2. CASE ~(n - 1 <= k)
        BY <2>1, <4>2
      <4> QED
        BY <4>1, <4>2
    <3> HIDE DEF h
    <3> QED
      BY <1>6, <3>1, <3>2, <3>3
  <2> QED
    BY <2>2, <2>3
<1>9. IsRun(h, r, a \o b)
  <2> HIDE DEF h
  <2> QED
    BY <1>4, <1>7, <1>8 DEF IsRun
<1>10. ReadFrom(r, a \o b) = h[N]
  <2> HIDE DEF h
  <2> QED
    BY <1>4, <1>9, RunResult
<1>11. h[N] = g[Len(b)]
  <2>1. N \in 0..N /\ N - k = Len(b)
    BY <1>4
  <2>2. CASE N <= k
    <3>1. Len(b) = 0 /\ N = k
      BY <1>4, <2>2
    <3> QED
      BY <1>6, <2>1, <3>1
  <2>3. CASE ~(N <= k)
    BY <2>1, <2>3
  <2> QED
    BY <2>2, <2>3
<1> QED
  BY <1>1, <1>3, <1>10, <1>11

\* One byte more.
LEMMA ReadAppend ==
  ASSUME NEW r \in Readers, NEW s \in Seq(Bytes), NEW c \in Bytes
  PROVE  ReadFrom(r, Append(s, c)) = NextByte(ReadFrom(r, s), c)
<1>1. <<c>> \in Seq(Bytes) /\ Len(<<c>>) = 1 /\ <<c>>[1] = c
  OBVIOUS
<1>2. ReadFrom(r, s) \in Readers
  BY ReadFromType
<1>3. Append(s, c) = s \o <<c>>
  BY AppendIsConcat
<1>4. PICK f : IsRun(f, ReadFrom(r, s), <<c>>)
               /\ ReadFrom(ReadFrom(r, s), <<c>>) = f[1]
  BY <1>1, <1>2, RunExists
<1>5. f[1] = NextByte(f[1 - 1], c) /\ f[0] = ReadFrom(r, s) /\ 1 - 1 = 0
  BY <1>1, <1>4 DEF IsRun
<1> QED
  BY <1>1, <1>3, <1>4, <1>5, ReadConcat
-----------------------------------------------------------------------------
(* Braces.                                                                 *)

\* What one byte adds to braceCount.
Weight(c) == IF c \in Opens THEN 1 ELSE IF c \in Closes THEN -1 ELSE 0

\* How many bytes are of a kind.
Count(s, Kind) == Cardinality({i \in DOMAIN s : s[i] \in Kind})

LEMMA CountAppend ==
  ASSUME NEW s \in Seq(Bytes), NEW c \in Bytes, NEW Kind
  PROVE  /\ Count(s, Kind) \in Nat
         /\ Count(Append(s, c), Kind) = Count(s, Kind) + (IF c \in Kind THEN 1 ELSE 0)
<1> DEFINE Old == {i \in DOMAIN s : s[i] \in Kind}
           New == {i \in DOMAIN Append(s, c) : Append(s, c)[i] \in Kind}
           k == Len(s) + 1
<1>1. Len(s) \in Nat /\ DOMAIN s = 1..Len(s) /\ DOMAIN Append(s, c) = 1..k
  OBVIOUS
<1>2. \A i \in 1..Len(s) : Append(s, c)[i] = s[i]
  OBVIOUS
<1>3. Append(s, c)[k] = c
  OBVIOUS
<1>4. IsFiniteSet(Old) /\ Cardinality(Old) \in Nat
  <2>1. IsFiniteSet(1..Len(s))
    BY <1>1, FS_Interval
  <2>2. Old \in SUBSET (1..Len(s))
    BY <1>1
  <2> HIDE DEF Old
  <2> QED
    BY <2>1, <2>2, FS_Subset, FS_CardinalityType
<1>5. New = IF c \in Kind THEN Old \cup {k} ELSE Old
  BY <1>1, <1>2, <1>3
<1>6. k \notin Old
  BY <1>1
<1>7. Cardinality(Old \cup {k}) = Cardinality(Old) + 1
  <2> HIDE DEF Old, k
  <2> QED
    BY <1>4, <1>6, FS_AddElement
<1>8. Cardinality(New) = Cardinality(Old) + (IF c \in Kind THEN 1 ELSE 0)
  <2> HIDE DEF Old, New, k
  <2> QED
    BY <1>4, <1>5, <1>7
<1> QED
  BY <1>4, <1>8 DEF Count

LEMMA BalanceAppend ==
  ASSUME NEW s \in Seq(Bytes), NEW c \in Bytes
  PROVE  /\ Balance(s) \in Int
         /\ Balance(Append(s, c)) = Balance(s) + Weight(c)
<1>1. ~(c \in Opens /\ c \in Closes)
  BY DEF Opens, Closes
<1>2. /\ Count(s, Opens) \in Nat
      /\ Count(Append(s, c), Opens) = Count(s, Opens) + (IF c \in Opens THEN 1 ELSE 0)
  BY CountAppend
<1>3. /\ Count(s, Closes) \in Nat
      /\ Count(Append(s, c), Closes) = Count(s, Closes) + (IF c \in Closes THEN 1 ELSE 0)
  BY CountAppend
<1>4. /\ Balance(s) = Count(s, Opens) - Count(s, Closes)
      /\ Balance(Append(s, c)) = Count(Append(s, c), Opens) - Count(Append(s, c), Closes)
  BY DEF Balance, Count
<1> QED
  BY <1>1, <1>2, <1>3, <1>4 DEF Weight

LEMMA BalanceEmpty == Balance(<<>>) = 0
<1>1. /\ {i \in DOMAIN <<>> : <<>>[i] \in Opens} = {}
      /\ {i \in DOMAIN <<>> : <<>>[i] \in Closes} = {}
  OBVIOUS
<1> QED
  BY <1>1, FS_EmptySet DEF Balance

LEMMA BalanceOne ==
  ASSUME NEW c \in Bytes
  PROVE  Balance(<<c>>) = Weight(c)
<1>1. <<>> \in Seq(Bytes) /\ Append(<<>>, c) = <<c>>
  OBVIOUS
<1>2. Weight(c) \in Int
  BY DEF Weight
<1>3. Balance(Append(<<>>, c)) = Balance(<<>>) + Weight(c)
  BY <1>1, BalanceAppend
<1> QED
  BY <1>1, <1>2, <1>3, BalanceEmpty

\* The weights of the braces that begin and end a message.
LEMMA Weights ==
  /\ "{" \in Bytes /\ Weight("{") = 1
  /\ "}" \in Bytes /\ Weight("}") = -1
  /\ \A c \in Bytes : Weight(c) \in Int
BY DEF Weight, Bytes, TextBytes, Opens, Closes

\* One byte more of a stretch of the buffer.
LEMMA SubSeqAppend ==
  ASSUME NEW S, NEW s \in Seq(S), NEW m \in 1..Len(s), NEW n \in m..Len(s)
  PROVE  /\ SubSeq(s, m, n) \in Seq(S)
         /\ SubSeq(s, m, n - 1) \in Seq(S)
         /\ SubSeq(s, m, n) = Append(SubSeq(s, m, n - 1), s[n])
<1>1. s[n] \in S /\ SubSeq(s, m, n - 1) \in Seq(S) /\ SubSeq(s, m, n) \in Seq(S)
  OBVIOUS
<1> QED
  BY <1>1, SubSeqRecursiveSecond, AppendIsConcat

\* From an opening brace on, braceCount cannot become negative before it is 0.
LEMMA BalanceStaysPositive ==
  ASSUME NEW s \in Seq(Bytes), NEW m \in 1..Len(s), s[m] \in Opens,
         NEW k \in m..Len(s), \A n \in (m + 1)..k : Balance(SubSeq(s, m, n)) # 0
  PROVE  Balance(SubSeq(s, m, k)) > 0
<1> DEFINE S == {d \in Nat : Balance(SubSeq(s, m, m + d)) > 0}
<1>1. 0 \in S
  <2>1. m \in m..Len(s) /\ s[m] \in Bytes /\ m + 0 = m
    OBVIOUS
  <2>2. SubSeq(s, m, m) = Append(SubSeq(s, m, m - 1), s[m])
    BY <2>1, SubSeqAppend
  <2>3. SubSeq(s, m, m - 1) = <<>> /\ Append(<<>>, s[m]) = <<s[m]>>
    BY <2>1, SubSeqEmpty
  <2>4. Balance(SubSeq(s, m, m + 0)) = 1
    BY <2>1, <2>2, <2>3, BalanceOne DEF Weight
  <2> QED
    BY <2>4
<1>2. ASSUME NEW d \in 1..(k - m), d - 1 \in S
      PROVE  d \in S
  <2> DEFINE n == m + d
  <2>1. n \in (m + 1)..k /\ n \in m..Len(s) /\ n - 1 = m + (d - 1) /\ s[n] \in Bytes
    OBVIOUS
  <2>2. /\ Balance(SubSeq(s, m, n - 1)) \in Int
        /\ Balance(SubSeq(s, m, n)) = Balance(SubSeq(s, m, n - 1)) + Weight(s[n])
    <3> HIDE DEF n
    <3> QED
      BY <2>1, SubSeqAppend, BalanceAppend
  <2>3. Weight(s[n]) \in {-1, 0, 1}
    BY DEF Weight
  <2>4. Balance(SubSeq(s, m, n)) # 0 /\ Balance(SubSeq(s, m, n - 1)) > 0
    BY <1>2, <2>1
  <2>5. Balance(SubSeq(s, m, n)) > 0
    <3> HIDE DEF n
    <3> QED
      BY <2>2, <2>3, <2>4
  <2> QED
    BY <2>5
<1>3. k - m \in Nat /\ k - m \in 0..(k - m) /\ m + (k - m) = k
  OBVIOUS
<1>4. k - m \in S
  <2>1. \A d \in 0..(k - m) : d \in S
    <3> HIDE DEF S
    <3> QED
      BY <1>1, <1>2, <1>3, InductionUpto
  <2> QED
    BY <1>3, <2>1
<1> QED
  BY <1>3, <1>4

LEMMA SubSeqOne ==
  ASSUME NEW S, NEW s \in Seq(S), NEW m \in 1..Len(s)
  PROVE  SubSeq(s, m, m) = <<s[m]>>
<1>1. SubSeq(s, m, m) = Append(SubSeq(s, m, m - 1), s[m])
  <2>1. m \in m..Len(s)
    OBVIOUS
  <2> QED
    BY <2>1, SubSeqAppend
<1>2. SubSeq(s, m, m - 1) = <<>> /\ Append(<<>>, s[m]) = <<s[m]>>
  BY SubSeqEmpty
<1> QED
  BY <1>1, <1>2
-----------------------------------------------------------------------------
(* The frames processBuffer finds.                                         *)

LEMMA StartPosIs ==
  ASSUME NEW b \in Seq(Bytes)
  PROVE  \/ StartPos(b) = 0 /\ \A i \in 1..Len(b) : b[i] \notin Opens
         \/ /\ StartPos(b) \in 1..Len(b) /\ b[StartPos(b)] \in Opens
            /\ \A i \in 1..(StartPos(b) - 1) : b[i] \notin Opens
<1> DEFINE I == {i \in 1..Len(b) : b[i] \in Opens}
<1>1. StartPos(b) = IF I # {} THEN Min(I) ELSE 0
  BY DEF StartPos, SelectInSeq
<1>2. I \in SUBSET Nat /\ Len(b) \in Nat
  OBVIOUS
<1>3. CASE I = {}
  BY <1>1, <1>3
<1>4. CASE I # {}
  <2>1. StartPos(b) \in I /\ \A i \in I : StartPos(b) <= i
    <3> HIDE DEF I
    <3> QED
      BY <1>1, <1>2, <1>4, MinIsLeast
  <2>2. \A i \in 1..(StartPos(b) - 1) : i \in 1..Len(b) /\ ~(StartPos(b) <= i)
    BY <1>2, <2>1
  <2> QED
    BY <2>1, <2>2
<1> QED
  BY <1>3, <1>4

LEMMA EndPosIs ==
  ASSUME NEW b \in Seq(Bytes), NEW start \in 1..Len(b)
  PROVE  \/ /\ EndPos(b, start) = 0
            /\ \A i \in (start + 1)..Len(b) : Balance(SubSeq(b, start, i)) # 0
         \/ /\ EndPos(b, start) \in (start + 1)..Len(b)
            /\ Balance(SubSeq(b, start, EndPos(b, start))) = 0
            /\ \A i \in (start + 1)..(EndPos(b, start) - 1) :
                 Balance(SubSeq(b, start, i)) # 0
<1> DEFINE ends == {i \in (start + 1)..Len(b) : Balance(SubSeq(b, start, i)) = 0}
           end == EndPos(b, start)
<1>1. end = IF ends = {} THEN 0 ELSE Min(ends)
  BY DEF EndPos
<1>2. ends \in SUBSET Nat /\ Len(b) \in Nat
  OBVIOUS
<1>3. CASE ends = {}
  BY <1>1, <1>3
<1>4. CASE ends # {}
  <2>1. end \in ends /\ \A i \in ends : end <= i
    <3> HIDE DEF ends, end
    <3> QED
      BY <1>1, <1>2, <1>4, MinIsLeast
  <2>2. \A i \in (start + 1)..(end - 1) : i \in (start + 1)..Len(b) /\ ~(end <= i)
    <3> HIDE DEF end
    <3> QED
      BY <1>2, <2>1
  <2> HIDE DEF end
  <2> QED
    BY <2>1, <2>2 DEF end
<1> QED
  BY <1>3, <1>4

\* What a frame is: it begins with the first opening brace, and from there on
\* braceCount is positive until its last byte, where it is 0.
LEMMA FrameFound ==
  ASSUME NEW b \in Seq(Bytes), FirstFrame(b) # <<>>
  PROVE  \E start \in 1..Len(b) : \E end \in (start + 1)..Len(b) :
           /\ start = StartPos(b) /\ FirstFrame(b) = SubSeq(b, start, end)
           /\ b[start] \in Opens /\ \A i \in 1..(start - 1) : b[i] \notin Opens
           /\ Balance(SubSeq(b, start, end)) = 0
           /\ \A i \in start..(end - 1) : Balance(SubSeq(b, start, i)) > 0
<1> DEFINE start == StartPos(b)
           end == EndPos(b, start)
<1>1. start # 0 /\ end # 0 /\ FirstFrame(b) = SubSeq(b, start, end)
  BY DEF FirstFrame
<1>2. /\ start \in 1..Len(b) /\ b[start] \in Opens
      /\ \A i \in 1..(start - 1) : b[i] \notin Opens
  BY <1>1, StartPosIs
<1>3. /\ end \in (start + 1)..Len(b) /\ Balance(SubSeq(b, start, end)) = 0
      /\ \A i \in (start + 1)..(end - 1) : Balance(SubSeq(b, start, i)) # 0
  <2> HIDE DEF start
  <2> QED
    BY <1>1, <1>2, EndPosIs
<1>4. ASSUME NEW i \in start..(end - 1)
      PROVE  Balance(SubSeq(b, start, i)) > 0
  <2> HIDE DEF start, end
  <2>1. i \in start..Len(b) /\ \A n \in (start + 1)..i : n \in (start + 1)..(end - 1)
    BY <1>2, <1>3
  <2> QED
    BY <1>2, <1>3, <2>1, BalanceStaysPositive
<1> HIDE DEF start, end
<1> QED
  BY <1>1, <1>2, <1>3, <1>4 DEF start

\* The bytes of the buffer that belong to a frame that is not complete.
Unfinished(b) == IF StartPos(b) = 0 THEN <<>> ELSE SubSeq(b, StartPos(b), Len(b))

LEMMA FirstFrameEmpty == FirstFrame(<<>>) = <<>> /\ Unfinished(<<>>) = <<>>
<1>1. <<>> \in Seq(Bytes)
  OBVIOUS
<1>2. Len(<<>>) = 0 /\ \A k \in 1..0 : FALSE
  OBVIOUS
<1>3. StartPos(<<>>) = 0 \/ StartPos(<<>>) \in 1..Len(<<>>)
  BY <1>1, StartPosIs
<1> QED
  BY <1>2, <1>3 DEF FirstFrame, Unfinished

LEMMA NoFrameFound ==
  ASSUME NEW b \in Seq(Bytes), FirstFrame(b) = <<>>
  PROVE  \/ StartPos(b) = 0 /\ \A i \in 1..Len(b) : b[i] \notin Opens
         \/ \E start \in 1..Len(b) :
              /\ start = StartPos(b)
              /\ b[start] \in Opens /\ \A i \in 1..(start - 1) : b[i] \notin Opens
              /\ \A i \in start..Len(b) : Balance(SubSeq(b, start, i)) > 0
<1> DEFINE start == StartPos(b)
           end == EndPos(b, start)
<1>1. CASE start = 0
  BY <1>1, StartPosIs
<1>2. CASE start # 0
  <2>1. /\ start \in 1..Len(b) /\ b[start] \in Opens
        /\ \A i \in 1..(start - 1) : b[i] \notin Opens
    BY <1>2, StartPosIs
  <2>2. end = 0
    <3>1. SUFFICES ASSUME end # 0 PROVE FALSE
      OBVIOUS
    <3>2. FirstFrame(b) = SubSeq(b, start, end)
      BY <1>2, <3>1 DEF FirstFrame
    <3>3. end \in (start + 1)..Len(b)
      <4> HIDE DEF start
      <4> QED
        BY <2>1, <3>1, EndPosIs
    <3>4. \A i \in start..end : b[i] \in Bytes
      <4> HIDE DEF start, end
      <4> QED
        BY <2>1, <3>3
    <3>5. Len(SubSeq(b, start, end)) = end - start + 1
      <4> HIDE DEF start, end
      <4> QED
        BY <2>1, <3>3, <3>4, SubSeqProperties
    <3> HIDE DEF start, end
    <3> QED
      BY <2>1, <3>2, <3>3, <3>5
  <2>3. \A i \in (start + 1)..Len(b) : Balance(SubSeq(b, start, i)) # 0
    <3> HIDE DEF start
    <3> QED
      BY <2>1, <2>2, EndPosIs
  <2>4. ASSUME NEW i \in start..Len(b)
        PROVE  Balance(SubSeq(b, start, i)) > 0
    <3> HIDE DEF start
    <3>1. \A n \in (start + 1)..i : n \in (start + 1)..Len(b)
      BY <2>1
    <3> QED
      BY <2>1, <2>3, <3>1, BalanceStaysPositive
  <2> HIDE DEF start
  <2> QED
    BY <2>1, <2>4 DEF start
<1> QED
  BY <1>1, <1>2
-----------------------------------------------------------------------------
(* The reader finds the same frames.                                       *)

Reader(frame, messages) == [frame |-> frame, messages |-> messages]

LEMMA ReaderType ==
  ASSUME NEW frame \in Seq(Bytes), NEW m \in Seq(Seq(Bytes))
  PROVE  /\ Reader(frame, m) \in Readers
         /\ Reader(frame, m).frame = frame /\ Reader(frame, m).messages = m
BY DEF Reader, Readers

LEMMA EmptyReader ==
  ASSUME NEW m \in Seq(Seq(Bytes))
  PROVE  <<>> \in Seq(Bytes) /\ Reader(<<>>, m) \in Readers
<1>1. <<>> \in Seq(Bytes)
  OBVIOUS
<1> QED
  BY <1>1, ReaderType

\* What one byte does to the reader: it is skipped before a frame, it belongs to
\* a frame that goes on, or it ends one.
LEMMA NextByteSkipped ==
  ASSUME NEW m, NEW c, c \notin Opens
  PROVE  NextByte(Reader(<<>>, m), c) = Reader(<<>>, m)
BY DEF NextByte, Reader

LEMMA NextByteKept ==
  ASSUME NEW frame, NEW m, NEW c, frame # <<>> \/ c \in Opens,
         Balance(Append(frame, c)) > 0
  PROVE  NextByte(Reader(frame, m), c) = Reader(Append(frame, c), m)
BY DEF NextByte, Reader

LEMMA NextByteEnds ==
  ASSUME NEW frame, NEW m, NEW c, frame # <<>> \/ c \in Opens,
         ~(Balance(Append(frame, c)) > 0)
  PROVE  NextByte(Reader(frame, m), c)
           = Reader(<<>>, IF Parses(Append(frame, c))
                          THEN Append(m, Append(frame, c)) ELSE m)
BY DEF NextByte, Reader

\* Up to byte k the reader has skipped what is before the first opening brace
\* and collected the rest, while braceCount stays positive.
LEMMA ReadGrows ==
  ASSUME NEW b \in Seq(Bytes), NEW m \in Seq(Seq(Bytes)),
         NEW start \in 1..(Len(b) + 1), start <= Len(b) => b[start] \in Opens,
         \A i \in 1..(start - 1) : b[i] \notin Opens,
         NEW top \in 0..Len(b),
         \A i \in start..top : Balance(SubSeq(b, start, i)) > 0
  PROVE  ReadFrom(Reader(<<>>, m), SubSeq(b, 1, top))
           = Reader(IF top < start THEN <<>> ELSE SubSeq(b, start, top), m)
<1> DEFINE Frame(k) == IF k < start THEN <<>> ELSE SubSeq(b, start, k)
           S == {k \in Nat : ReadFrom(Reader(<<>>, m), SubSeq(b, 1, k)) = Reader(Frame(k), m)}
<1>1. Reader(<<>>, m) \in Readers
  BY EmptyReader
<1>2. 0 \in S
  <2>1. SubSeq(b, 1, 0) = <<>>
    BY SubSeqEmpty
  <2>2. Frame(0) = <<>>
    OBVIOUS
  <2> QED
    BY <1>1, <2>1, <2>2, ReadEmpty
<1>3. ASSUME NEW k \in 1..top, k - 1 \in S
      PROVE  k \in S
  <2>1. /\ k \in 1..Len(b) /\ b[k] \in Bytes /\ 1 \in 1..Len(b)
        /\ k - 1 \in Nat /\ k \in Nat
    OBVIOUS
  <2>2. /\ SubSeq(b, 1, k - 1) \in Seq(Bytes)
        /\ SubSeq(b, 1, k) = Append(SubSeq(b, 1, k - 1), b[k])
    BY <2>1, SubSeqAppend
  <2>3. ReadFrom(Reader(<<>>, m), SubSeq(b, 1, k)) = NextByte(Reader(Frame(k - 1), m), b[k])
    <3>1. ReadFrom(Reader(<<>>, m), SubSeq(b, 1, k - 1)) = Reader(Frame(k - 1), m)
      BY <1>3
    <3> HIDE DEF Frame
    <3> QED
      BY <1>1, <2>1, <2>2, <3>1, ReadAppend
  <2>4. NextByte(Reader(Frame(k - 1), m), b[k]) = Reader(Frame(k), m)
    <3>1. CASE k < start
      <4>1. Frame(k - 1) = <<>> /\ Frame(k) = <<>> /\ b[k] \notin Opens
        BY <3>1
      <4> HIDE DEF Frame
      <4> QED
        BY <4>1, NextByteSkipped
    <3>2. CASE k = start
      <4>1. /\ Frame(k - 1) = <<>> /\ Frame(k) = SubSeq(b, k, k)
            /\ b[k] \in Opens /\ Append(<<>>, b[k]) = <<b[k]>>
        BY <2>1, <3>2
      <4>2. SubSeq(b, k, k) = <<b[k]>>
        BY <2>1, SubSeqOne
      <4>3. Balance(SubSeq(b, k, k)) > 0
        <5>1. k \in start..top
          BY <3>2
        <5> QED
          BY <3>2, <5>1
      <4>4. NextByte(Reader(<<>>, m), b[k]) = Reader(Append(<<>>, b[k]), m)
        BY <4>1, <4>2, <4>3, NextByteKept
      <4> HIDE DEF Frame
      <4> QED
        BY <4>1, <4>2, <4>4
    <3>3. CASE k > start
      <4>1. /\ Frame(k - 1) = SubSeq(b, start, k - 1) /\ Frame(k) = SubSeq(b, start, k)
            /\ start \in 1..Len(b) /\ k \in start..Len(b) /\ k \in start..top
        BY <3>3
      <4>2. /\ Frame(k - 1) \in Seq(Bytes) /\ Frame(k) = Append(Frame(k - 1), b[k])
        BY <4>1, SubSeqAppend
      <4>3. Balance(Append(Frame(k - 1), b[k])) > 0
        BY <4>1, <4>2
      <4>4. Frame(k - 1) # <<>>
        <5>1. Len(SubSeq(b, start, k - 1)) = (k - 1) - start + 1
          <6>1. \A i \in start..(k - 1) : b[i] \in Bytes
            BY <4>1
          <6> QED
            BY <3>3, <4>1, <6>1, SubSeqProperties
        <5>2. Len(SubSeq(b, start, k - 1)) # 0 /\ Len(<<>>) = 0
          BY <3>3, <5>1
        <5> QED
          BY <4>1, <5>2
      <4> HIDE DEF Frame
      <4> QED
        BY <4>2, <4>3, <4>4, NextByteKept
    <3> QED
      BY <3>1, <3>2, <3>3
  <2> QED
    BY <2>1, <2>3, <2>4
<1>4. \A k \in 0..top : k \in S
  <2>1. top \in Nat
    OBVIOUS
  <2> HIDE DEF S
  <2> QED
    BY <1>2, <1>3, <2>1, InductionUpto
<1>5. top \in 0..top
  OBVIOUS
<1> QED
  BY <1>4, <1>5

\* A buffer without a complete frame is the frame of the reader.
LEMMA ReadUnfinished ==
  ASSUME NEW b \in Seq(Bytes), NEW m \in Seq(Seq(Bytes)), FirstFrame(b) = <<>>
  PROVE  /\ Unfinished(b) \in Seq(Bytes)
         /\ ReadFrom(Reader(<<>>, m), b) = Reader(Unfinished(b), m)
<1>1. Len(b) \in Nat /\ Len(b) \in 0..Len(b) /\ SubSeq(b, 1, Len(b)) = b
  BY SubSeqFull
<1>2. CASE StartPos(b) = 0 /\ \A i \in 1..Len(b) : b[i] \notin Opens
  <2> DEFINE start == Len(b) + 1
  <2>1. /\ start \in 1..(Len(b) + 1) /\ ~(start <= Len(b)) /\ Len(b) < start
        /\ \A i \in 1..(start - 1) : b[i] \notin Opens
        /\ \A i \in start..Len(b) : Balance(SubSeq(b, start, i)) > 0
    BY <1>1, <1>2
  <2> HIDE DEF start
  <2>2. ReadFrom(Reader(<<>>, m), SubSeq(b, 1, Len(b)))
          = Reader(IF Len(b) < start THEN <<>> ELSE SubSeq(b, start, Len(b)), m)
    BY <1>1, <2>1, ReadGrows
  <2>3. Unfinished(b) = <<>> /\ <<>> \in Seq(Bytes)
    BY <1>2 DEF Unfinished
  <2> QED
    BY <1>1, <2>1, <2>2, <2>3
<1>3. ASSUME NEW start \in 1..Len(b),
             start = StartPos(b), b[start] \in Opens,
             \A i \in 1..(start - 1) : b[i] \notin Opens,
             \A i \in start..Len(b) : Balance(SubSeq(b, start, i)) > 0
      PROVE  /\ Unfinished(b) \in Seq(Bytes)
             /\ ReadFrom(Reader(<<>>, m), b) = Reader(Unfinished(b), m)
  <2>1. start \in 1..(Len(b) + 1) /\ ~(Len(b) < start) /\ start # 0
    OBVIOUS
  <2>2. ReadFrom(Reader(<<>>, m), SubSeq(b, 1, Len(b)))
          = Reader(IF Len(b) < start THEN <<>> ELSE SubSeq(b, start, Len(b)), m)
    BY <1>1, <1>3, <2>1, ReadGrows
  <2>3. Unfinished(b) = SubSeq(b, start, Len(b))
    BY <1>3, <2>1, Zenon DEF Unfinished
  <2>4. SubSeq(b, start, Len(b)) \in Seq(Bytes)
    OBVIOUS
  <2> QED
    BY <1>1, <2>1, <2>2, <2>3, <2>4
<1> QED
  BY <1>2, <1>3, NoFrameFound

\* At the end of a frame the reader is empty again and has it as a message, if
\* it is one.
LEMMA ReadFrame ==
  ASSUME NEW b \in Seq(Bytes), NEW m \in Seq(Seq(Bytes)), FirstFrame(b) # <<>>
  PROVE  LET end == StartPos(b) + Len(FirstFrame(b)) - 1
             more == IF Parses(FirstFrame(b)) THEN Append(m, FirstFrame(b)) ELSE m
         IN  /\ end \in 1..Len(b) /\ FirstFrame(b) \in Seq(Bytes)
             /\ ReadFrom(Reader(<<>>, m), SubSeq(b, 1, end)) = Reader(<<>>, more)
<1>1. PICK start \in 1..Len(b) : \E end \in (start + 1)..Len(b) :
           /\ start = StartPos(b) /\ FirstFrame(b) = SubSeq(b, start, end)
           /\ b[start] \in Opens /\ \A i \in 1..(start - 1) : b[i] \notin Opens
           /\ Balance(SubSeq(b, start, end)) = 0
           /\ \A i \in start..(end - 1) : Balance(SubSeq(b, start, i)) > 0
  BY FrameFound
<1>2. PICK end \in (start + 1)..Len(b) :
           /\ start = StartPos(b) /\ FirstFrame(b) = SubSeq(b, start, end)
           /\ b[start] \in Opens /\ \A i \in 1..(start - 1) : b[i] \notin Opens
           /\ Balance(SubSeq(b, start, end)) = 0
           /\ \A i \in start..(end - 1) : Balance(SubSeq(b, start, i)) > 0
  BY <1>1
<1>3. /\ end \in 1..Len(b) /\ end - 1 \in 0..Len(b) /\ ~(end - 1 < start)
      /\ start \in 1..(Len(b) + 1) /\ end \in start..Len(b) /\ 1 \in 1..Len(b)
      /\ b[end] \in Bytes
  OBVIOUS
<1>4. /\ SubSeq(b, start, end) \in Seq(Bytes) /\ SubSeq(b, start, end - 1) \in Seq(Bytes)
      /\ SubSeq(b, start, end) = Append(SubSeq(b, start, end - 1), b[end])
      /\ SubSeq(b, 1, end - 1) \in Seq(Bytes)
      /\ SubSeq(b, 1, end) = Append(SubSeq(b, 1, end - 1), b[end])
  BY <1>3, SubSeqAppend
<1>5. /\ Len(SubSeq(b, start, end)) = end - start + 1
      /\ Len(SubSeq(b, start, end - 1)) = end - start
  <2>1. \A i \in start..end : b[i] \in Bytes
    BY <1>3
  <2>2. Len(SubSeq(b, start, end)) = end - start + 1
    BY <1>3, <2>1, SubSeqProperties
  <2>3. Len(SubSeq(b, start, end)) = Len(SubSeq(b, start, end - 1)) + 1
    BY <1>3, <1>4, AppendProperties
  <2> QED
    BY <1>4, <2>2, <2>3
<1>6. ReadFrom(Reader(<<>>, m), SubSeq(b, 1, end - 1)) = Reader(SubSeq(b, start, end - 1), m)
  <2>1. PICK last \in 0..Len(b) : last = end - 1
    BY <1>3
  <2>2. \A i \in start..last : Balance(SubSeq(b, start, i)) > 0
    BY <1>2, <2>1
  <2>3. ReadFrom(Reader(<<>>, m), SubSeq(b, 1, last))
          = Reader(IF last < start THEN <<>> ELSE SubSeq(b, start, last), m)
    <3>1. start \in 1..(Len(b) + 1) /\ (start <= Len(b) => b[start] \in Opens)
      BY <1>2, <1>3
    <3>2. \A i \in 1..(start - 1) : b[i] \notin Opens
      BY <1>2
    <3> QED
      BY <2>2, <3>1, <3>2, ReadGrows
  <2> QED
    BY <1>3, <2>1, <2>3
<1>7. Reader(<<>>, m) \in Readers
  BY EmptyReader
<1>8. ReadFrom(Reader(<<>>, m), SubSeq(b, 1, end))
        = NextByte(Reader(SubSeq(b, start, end - 1), m), b[end])
  BY <1>3, <1>4, <1>6, <1>7, ReadAppend
<1>9. SubSeq(b, start, end - 1) # <<>>
  BY <1>5
<1>10. ~(Balance(Append(SubSeq(b, start, end - 1), b[end])) > 0)
  BY <1>2, <1>4
<1>11. ReadFrom(Reader(<<>>, m), SubSeq(b, 1, end))
         = Reader(<<>>, IF Parses(SubSeq(b, start, end))
                        THEN Append(m, SubSeq(b, start, end)) ELSE m)
  BY <1>4, <1>8, <1>9, <1>10, NextByteEnds
<1>12. StartPos(b) + Len(FirstFrame(b)) - 1 = end
  BY <1>2, <1>5
<1> QED
  BY <1>2, <1>3, <1>4, <1>11, <1>12
-----------------------------------------------------------------------------
(* The loop of processBuffer.                                              *)

Results == [messages : Seq(Seq(Bytes)), rest : Seq(Bytes)]

\* A turn changes nothing about what a reader makes of the rest, and finds a
\* frame only by shortening the buffer.
LEMMA TurnReads ==
  ASSUME NEW r \in Results, NEW d \in Seq(Seq(Bytes))
  PROVE  /\ Turn(r) \in Results
         /\ ReadFrom(Reader(<<>>, d \o Turn(r).messages), Turn(r).rest)
              = ReadFrom(Reader(<<>>, d \o r.messages), r.rest)
         /\ FirstFrame(r.rest) = <<>> => Turn(r) = r
         /\ FirstFrame(r.rest) # <<>> => Len(Turn(r).rest) < Len(r.rest)
<1>1. r.rest \in Seq(Bytes) /\ r.messages \in Seq(Seq(Bytes))
  BY DEF Results
<1>2. CASE FirstFrame(r.rest) = <<>>
  BY <1>2 DEF Turn
<1>3. CASE FirstFrame(r.rest) # <<>>
  <2>1. PICK b \in Seq(Bytes) : b = r.rest
    BY <1>1
  <2>2. PICK m \in Seq(Seq(Bytes)) : m = d \o r.messages
    BY <1>1, ConcatProperties
  <2> DEFINE frame == FirstFrame(b)
             end == StartPos(b) + Len(frame) - 1
             more(k) == IF Parses(frame) THEN Append(k, frame) ELSE k
             rest == SubSeq(b, end + 1, Len(b))
  <2>3. /\ end \in 1..Len(b) /\ frame \in Seq(Bytes)
        /\ ReadFrom(Reader(<<>>, m), SubSeq(b, 1, end)) = Reader(<<>>, more(m))
    <3>1. FirstFrame(b) # <<>>
      BY <1>3, <2>1
    <3> QED
      BY <3>1, ReadFrame
  <2>4. StartPos(b) + Len(frame) = end + 1
    <3>1. StartPos(b) \in Int /\ Len(frame) \in Int
      BY <2>3, StartPosIs
    <3> QED
      BY <3>1
  <2> HIDE DEF frame, end
  <2>5. Turn(r).messages = more(r.messages) /\ Turn(r).rest = rest
    BY <1>3, <2>1, <2>4 DEF Turn, AfterFrame, frame
  <2>6. d \o more(r.messages) = more(m)
    <3>1. d \o Append(r.messages, frame) = Append(d \o r.messages, frame)
      BY <1>1, <2>3
    <3> QED
      BY <2>2, <3>1
  <2>7. /\ rest \in Seq(Bytes) /\ SubSeq(b, 1, end) \in Seq(Bytes)
        /\ Len(rest) = Len(b) - end
        /\ SubSeq(b, 1, end) \o rest = b
    <3>1. rest \in Seq(Bytes) /\ SubSeq(b, 1, end) \in Seq(Bytes)
      BY <2>3
    <3>2. Len(b) \in Nat /\ \A i \in (end + 1)..Len(b) : b[i] \in Bytes
      BY <2>3
    <3>3. Len(rest) = IF end + 1 <= Len(b) THEN Len(b) - (end + 1) + 1 ELSE 0
      <4>1. end + 1 \in Int /\ Len(b) \in Int
        BY <2>3
      <4> QED
        BY <3>2, <4>1, SubSeqProperties
    <3>4. SubSeq(b, 1, end) \o SubSeq(b, end + 1, Len(b)) = SubSeq(b, 1, Len(b))
      <4>1. 1 \in 1..(Len(b) + 1) /\ end \in (1 - 1)..Len(b) /\ Len(b) \in end..Len(b)
        BY <2>3, <3>2
      <4> QED
        BY <4>1, ConcatAdjacentSubSeq
    <3> QED
      BY <2>3, <3>1, <3>2, <3>3, <3>4, SubSeqFull
  <2>8. ReadFrom(Reader(<<>>, more(m)), rest) = ReadFrom(Reader(<<>>, m), b)
    <3>1. Reader(<<>>, m) \in Readers
      BY EmptyReader
    <3>2. ReadFrom(Reader(<<>>, m), SubSeq(b, 1, end) \o rest)
            = ReadFrom(ReadFrom(Reader(<<>>, m), SubSeq(b, 1, end)), rest)
      <4> HIDE DEF rest
      <4> QED
        BY <2>7, <3>1, ReadConcat
    <3> HIDE DEF rest, more
    <3> QED
      BY <2>3, <2>7, <3>2
  <2>9. more(r.messages) \in Seq(Seq(Bytes))
    BY <1>1, <2>3
  <2>10. Turn(r) \in Results
    <3>1. Turn(r) = [messages |-> more(r.messages), rest |-> rest]
      BY <1>3, <2>1, <2>4 DEF Turn, AfterFrame, frame
    <3> HIDE DEF rest, more
    <3> QED
      BY <2>7, <2>9, <3>1 DEF Results
  <2>11. Len(Turn(r).rest) < Len(r.rest)
    BY <2>1, <2>3, <2>5, <2>7
  <2>12. ReadFrom(Reader(<<>>, d \o Turn(r).messages), Turn(r).rest)
           = ReadFrom(Reader(<<>>, d \o r.messages), r.rest)
    <3> HIDE DEF rest, more
    <3> QED
      BY <2>1, <2>2, <2>5, <2>6, <2>8
  <2> QED
    BY <1>3, <2>10, <2>11, <2>12
<1> QED
  BY <1>1, <1>2, <1>3

\* The results after 0, 1, ... turns.
LEMMA TurnsExist ==
  ASSUME NEW b \in Seq(Bytes)
  PROVE  \E f : /\ f[0] = Unprocessed(b) /\ ProcessBuffer(b) = f[Len(b)]
                /\ \A n \in 0..Len(b) : f[n] \in Results
                /\ \A n \in 1..Len(b) : f[n] = Turn(f[n - 1])
<1> DEFINE N == Len(b)
           next == [n \in 1..N |-> [r \in Results |-> Turn(r)]]
           Loop(f) == f = [n \in 0..N |-> IF n = 0 THEN Unprocessed(b) ELSE Turn(f[n - 1])]
<1>1. N \in Nat
  OBVIOUS
<1>2. Unprocessed(b) \in Results
  <2>1. <<>> \in Seq(Seq(Bytes))
    OBVIOUS
  <2> QED
    BY <2>1 DEF Unprocessed, Results
<1>3. \A r \in Results : Turn(r) \in Results
  <2>1. <<>> \in Seq(Seq(Bytes))
    OBVIOUS
  <2> QED
    BY <2>1, TurnReads
<1>4. next \in [1..N -> [Results -> Results]]
  BY <1>3
<1>5. \A r \in Results, n \in 1..N : next[n][r] = Turn(r)
  OBVIOUS
<1>6. PICK f \in [0..N -> Results] :
        f[0] = Unprocessed(b) /\ \A n \in 1..N : f[n] = next[n][f[n - 1]]
  <2>1. IsRecursion(Results, Unprocessed(b), next, N)
    BY <1>1, <1>2, <1>4 DEF IsRecursion
  <2> HIDE DEF next
  <2> QED
    BY <2>1, Recursion DEF Defines
<1>7. ASSUME NEW n \in 0..N
      PROVE  f[n] = IF n = 0 THEN Unprocessed(b) ELSE Turn(f[n - 1])
  <2>1. n # 0 => n \in 1..N /\ n - 1 \in 0..N
    BY <1>1
  <2>2. n # 0 => f[n - 1] \in Results
    BY <2>1
  <2> HIDE DEF next
  <2> QED
    BY <1>5, <1>6, <2>1, <2>2
<1>8. Loop(f)
  <2> HIDE DEF next
  <2> QED
    BY <1>6, <1>7
<1> DEFINE g == CHOOSE g : Loop(g)
<1>9. Loop(g)
  <2> HIDE DEF Loop
  <2> QED
    BY <1>8
<1>10. ProcessBuffer(b) = g[N]
  BY DEF ProcessBuffer
<1> HIDE DEF g
<1>11. g[0] = Unprocessed(b) /\ \A n \in 1..N : g[n] = Turn(g[n - 1])
  BY <1>1, <1>9
<1>12. \A n \in 0..N : n \in {k \in Nat : g[k] \in Results}
  <2>1. ASSUME NEW n \in 1..N, n - 1 \in {k \in Nat : g[k] \in Results}
        PROVE  n \in {k \in Nat : g[k] \in Results}
    BY <1>1, <1>3, <1>11, <2>1
  <2>2. 0 \in {k \in Nat : g[k] \in Results}
    BY <1>2, <1>11
  <2> QED
    BY <1>1, <2>1, <2>2, InductionUpto
<1> QED
  BY <1>10, <1>11, <1>12

\* processBuffer dispatches what a reader of single bytes does, and what it
\* leaves in the buffer is the frame that reader has not completed.
THEOREM ProcessBufferReads ==
  ASSUME NEW b \in Seq(Bytes), NEW d \in Seq(Seq(Bytes))
  PROVE  /\ ProcessBuffer(b) \in Results
         /\ FirstFrame(ProcessBuffer(b).rest) = <<>>
         /\ ReadFrom(Reader(<<>>, d), b)
              = Reader(Unfinished(ProcessBuffer(b).rest), d \o ProcessBuffer(b).messages)
<1>1. PICK f : /\ f[0] = Unprocessed(b) /\ ProcessBuffer(b) = f[Len(b)]
               /\ \A n \in 0..Len(b) : f[n] \in Results
               /\ \A n \in 1..Len(b) : f[n] = Turn(f[n - 1])
  BY TurnsExist
<1> DEFINE N == Len(b)
           Same(r) == ReadFrom(Reader(<<>>, d \o r.messages), r.rest)
                        = ReadFrom(Reader(<<>>, d), b)
           Short(r, n) == FirstFrame(r.rest) = <<>> \/ Len(r.rest) + n <= N
           S == {n \in Nat : Same(f[n]) /\ Short(f[n], n)}
<1>2. N \in Nat
  OBVIOUS
<1>3. 0 \in S
  <2>1. f[0].messages = <<>> /\ f[0].rest = b
    BY <1>1 DEF Unprocessed
  <2>2. d \o <<>> = d
    BY ConcatEmptySeq
  <2>3. Same(f[0]) /\ Short(f[0], 0)
    BY <1>2, <2>1, <2>2
  <2> HIDE DEF Same, Short
  <2> QED
    BY <2>3
<1>4. ASSUME NEW n \in 1..N, n - 1 \in S
      PROVE  n \in S
  <2>1. /\ f[n - 1] \in Results /\ f[n] = Turn(f[n - 1]) /\ f[n] \in Results
        /\ n - 1 \in 0..N /\ n \in 0..N
    BY <1>1, <1>2
  <2>2. /\ ReadFrom(Reader(<<>>, d \o f[n].messages), f[n].rest)
             = ReadFrom(Reader(<<>>, d \o f[n - 1].messages), f[n - 1].rest)
        /\ FirstFrame(f[n - 1].rest) = <<>> => f[n] = f[n - 1]
        /\ FirstFrame(f[n - 1].rest) # <<>> => Len(f[n].rest) < Len(f[n - 1].rest)
    BY <2>1, TurnReads
  <2>3. Same(f[n])
    BY <1>4, <2>2
  <2>4. Len(f[n].rest) \in Nat /\ Len(f[n - 1].rest) \in Nat
    BY <2>1 DEF Results
  <2>5. Short(f[n], n)
    BY <1>2, <1>4, <2>2, <2>4
  <2> HIDE DEF Same, Short
  <2> QED
    BY <2>3, <2>5
<1>5. \A n \in 0..N : n \in S
  <2> HIDE DEF S
  <2> QED
    BY <1>2, <1>3, <1>4, InductionUpto
<1>6. N \in S /\ f[N] \in Results /\ ProcessBuffer(b) = f[N]
  BY <1>1, <1>2, <1>5
<1>7. PICK r \in Results : r = f[N]
  BY <1>6
<1>8. r.rest \in Seq(Bytes) /\ r.messages \in Seq(Seq(Bytes)) /\ d \o r.messages \in Seq(Seq(Bytes))
  BY DEF Results
<1>9. FirstFrame(r.rest) = <<>>
  <2>1. FirstFrame(<<>>) = <<>>
    BY FirstFrameEmpty
  <2>2. FirstFrame(r.rest) = <<>> \/ Len(r.rest) + N <= N
    BY <1>6, <1>7
  <2>3. Len(r.rest) = 0 => r.rest = <<>>
    BY <1>8
  <2>4. Len(r.rest) \in Nat
    BY <1>8
  <2> QED
    BY <1>2, <2>1, <2>2, <2>3, <2>4
<1>10. ReadFrom(Reader(<<>>, d), b) = ReadFrom(Reader(<<>>, d \o r.messages), r.rest)
  BY <1>6, <1>7
<1>11. ReadFrom(Reader(<<>>, d \o r.messages), r.rest)
         = Reader(Unfinished(r.rest), d \o r.messages)
  BY <1>8, <1>9, ReadUnfinished
<1> QED
  BY <1>6, <1>7, <1>9, <1>10, <1>11
-----------------------------------------------------------------------------
(* Messages and pieces.                                                    *)

LEMMA OneByte ==
  ASSUME NEW c \in Bytes
  PROVE  <<c>> \in Seq(Bytes) /\ Len(<<c>>) = 1 /\ <<c>>[1] = c
OBVIOUS

\* The bytes of a message: a brace, its text and a brace.
IsBraced(e, text) ==
  /\ text \in Seq(Bytes) /\ e \in Seq(Bytes)
  /\ Len(text) \in Nat /\ Len(e) = Len(text) + 2
  /\ e[1] = "{" /\ e[Len(text) + 2] = "}"
  /\ \A i \in 2..(Len(text) + 1) : e[i] = text[i - 1] /\ e[i] \in TextBytes

LEMMA EncodeIsBraced ==
  ASSUME NEW text \in Texts
  PROVE  IsBraced(Encode(text), text)
<1>1. text \in Seq(TextBytes) /\ \A i \in 1..Len(text) : text[i] \in TextBytes
  BY FramingAssumption
<1>2. text \in Seq(Bytes)
  <2>1. TextBytes \subseteq Bytes
    BY DEF Bytes
  <2> QED
    BY <1>1, <2>1, SeqMonotonic
<1>3. PICK k \in Nat : k = Len(text)
  BY <1>2
<1>4. PICK open \in Seq(Bytes) : open = <<"{">> /\ Len(open) = 1 /\ open[1] = "{"
  <2>1. "{" \in Bytes
    BY DEF Bytes
  <2> QED
    BY <2>1, OneByte
<1>5. PICK close \in Seq(Bytes) : close = <<"}">> /\ Len(close) = 1 /\ close[1] = "}"
  <2>1. "}" \in Bytes
    BY DEF Bytes
  <2> QED
    BY <2>1, OneByte
<1>6. PICK front \in Seq(Bytes) : front = open \o text
  BY <1>2, ConcatProperties
<1>7. /\ Len(front) = 1 + k
      /\ \A i \in 1..(1 + k) : front[i] = IF i <= 1 THEN open[i] ELSE text[i - 1]
  BY <1>2, <1>3, <1>4, <1>6, ConcatProperties
<1>8. PICK whole \in Seq(Bytes) : whole = front \o close
  BY ConcatProperties
<1>9. /\ Len(whole) = (1 + k) + 1
      /\ \A i \in 1..((1 + k) + 1) :
           whole[i] = IF i <= 1 + k THEN front[i] ELSE close[i - (1 + k)]
  <2>1. /\ Len(whole) = Len(front) + Len(close)
        /\ \A i \in 1..(Len(front) + Len(close)) :
             whole[i] = IF i <= Len(front) THEN front[i] ELSE close[i - Len(front)]
    BY <1>8, ConcatProperties
  <2> QED
    BY <1>5, <1>7, <2>1
<1>10. Encode(text) = whole
  BY <1>4, <1>5, <1>6, <1>8 DEF Encode
<1>11. Len(whole) = k + 2
  BY <1>3, <1>9
<1>12. whole[1] = "{"
  <2>1. 1 \in 1..((1 + k) + 1) /\ 1 <= 1 + k /\ 1 \in 1..(1 + k) /\ 1 <= 1
    BY <1>3
  <2> QED
    BY <1>4, <1>7, <1>9, <2>1
<1>13. whole[k + 2] = "}"
  <2>1. k + 2 \in 1..((1 + k) + 1) /\ ~(k + 2 <= 1 + k) /\ (k + 2) - (1 + k) = 1
    BY <1>3
  <2> QED
    BY <1>5, <1>9, <2>1
<1>14. ASSUME NEW i \in 2..(k + 1)
       PROVE  whole[i] = text[i - 1] /\ whole[i] \in TextBytes
  <2>1. i \in 1..((1 + k) + 1) /\ i <= 1 + k /\ i \in 1..(1 + k) /\ ~(i <= 1)
    BY <1>3
  <2>2. PICK j \in 1..k : j = i - 1
    BY <1>3
  <2> QED
    BY <1>1, <1>3, <1>7, <1>9, <2>1, <2>2
<1> QED
  BY <1>2, <1>3, <1>10, <1>11, <1>12, <1>13, <1>14 DEF IsBraced

LEMMA EncodeType ==
  ASSUME NEW text \in Texts
  PROVE  text \in Seq(Bytes) /\ Encode(text) \in Seq(Bytes)
BY EncodeIsBraced DEF IsBraced

LEMMA PrefixOfConcat ==
  ASSUME NEW S, NEW s \in Seq(S), NEW t \in Seq(S)
  PROVE  SubSeq(s \o t, 1, Len(s)) = s
<1>1. CASE s = <<>>
  <2>1. Len(s) = 0
    BY <1>1
  <2> QED
    BY <1>1, <2>1, SubSeqEmpty
<1>2. CASE s # <<>>
  <2>1. Len(s) \in 1..Len(s) /\ 1 \in 1..Len(s)
    BY <1>2
  <2> QED
    BY <2>1, SubSeqOfConcat1, SubSeqFull
<1> QED
  BY <1>1, <1>2

\* A piece of a sequence and what follows it.
LEMMA SplitPiece ==
  ASSUME NEW w \in Seq(Bytes), NEW n \in 1..Len(w)
  PROVE  \E piece \in Seq(Bytes), rest \in Seq(Bytes) :
           /\ piece = SubSeq(w, 1, n) /\ rest = SubSeq(w, n + 1, Len(w))
           /\ piece \o rest = w
<1>1. SubSeq(w, 1, n) \in Seq(Bytes) /\ SubSeq(w, n + 1, Len(w)) \in Seq(Bytes)
  OBVIOUS
<1>2. SubSeq(w, 1, n) \o SubSeq(w, n + 1, Len(w)) = SubSeq(w, 1, Len(w))
  <2>1. 1 \in 1..(Len(w) + 1) /\ n \in (1 - 1)..Len(w) /\ Len(w) \in n..Len(w)
    OBVIOUS
  <2> QED
    BY <2>1, ConcatAdjacentSubSeq
<1> QED
  BY <1>1, <1>2, SubSeqFull

\* What a reader finds is put behind what it has; it looks at neither.
Shifted(r, d) == Reader(r.frame, d \o r.messages)

LEMMA ShiftNext ==
  ASSUME NEW r \in Readers, NEW d \in Seq(Seq(Bytes)), NEW c \in Bytes
  PROVE  NextByte(Shifted(r, d), c) = Shifted(NextByte(r, c), d)
<1>1. PICK frame \in Seq(Bytes), m \in Seq(Seq(Bytes)) : r = Reader(frame, m)
  BY DEF Readers, Reader
<1>2. \A f, k : Shifted(Reader(f, k), d) = Reader(f, d \o k)
  BY DEF Shifted, Reader
<1>3. PICK more \in Seq(Bytes) : more = Append(frame, c)
  BY AppendProperties
<1>4. d \o Append(m, more) = Append(d \o m, more)
  OBVIOUS
<1>5. CASE frame = <<>> /\ c \notin Opens
  BY <1>1, <1>2, <1>5, NextByteSkipped
<1>6. CASE (frame # <<>> \/ c \in Opens) /\ Balance(Append(frame, c)) > 0
  <2>1. \A k : NextByte(Reader(frame, k), c) = Reader(Append(frame, c), k)
    BY <1>6, NextByteKept
  <2> QED
    BY <1>1, <1>2, <2>1
<1>7. CASE (frame # <<>> \/ c \in Opens) /\ ~(Balance(Append(frame, c)) > 0)
  <2>1. \A k : NextByte(Reader(frame, k), c)
                 = Reader(<<>>, IF Parses(more) THEN Append(k, more) ELSE k)
    BY <1>3, <1>7, NextByteEnds
  <2>2. CASE Parses(more)
    BY <1>1, <1>2, <1>4, <2>1, <2>2
  <2>3. CASE ~Parses(more)
    BY <1>1, <1>2, <2>1, <2>3
  <2> QED
    BY <2>2, <2>3
<1> QED
  BY <1>5, <1>6, <1>7

LEMMA ReadShifted ==
  ASSUME NEW r \in Readers, NEW d \in Seq(Seq(Bytes)), NEW s \in Seq(Bytes)
  PROVE  ReadFrom(Shifted(r, d), s) = Shifted(ReadFrom(r, s), d)
<1>1. \A q \in Readers : Shifted(q, d) \in Readers
  BY ConcatProperties DEF Readers, Shifted, Reader
<1>2. PICK f : IsRun(f, r, s) /\ ReadFrom(r, s) = f[Len(s)]
  BY RunExists
<1> DEFINE g == [n \in 0..Len(s) |-> Shifted(f[n], d)]
<1>3. /\ f \in [0..Len(s) -> Readers] /\ f[0] = r
      /\ \A n \in 1..Len(s) : f[n] = NextByte(f[n - 1], s[n])
  BY <1>2 DEF IsRun
<1>4. g \in [0..Len(s) -> Readers] /\ g[0] = Shifted(r, d)
  BY <1>1, <1>3
<1>5. ASSUME NEW n \in 1..Len(s)
      PROVE  g[n] = NextByte(g[n - 1], s[n])
  <2>1. n \in 0..Len(s) /\ n - 1 \in 0..Len(s) /\ s[n] \in Bytes
    OBVIOUS
  <2>2. g[n] = Shifted(f[n], d) /\ g[n - 1] = Shifted(f[n - 1], d) /\ f[n - 1] \in Readers
    BY <1>3, <2>1
  <2> HIDE DEF g
  <2> QED
    BY <1>3, <2>1, <2>2, ShiftNext
<1>6. IsRun(g, Shifted(r, d), s)
  <2> HIDE DEF g
  <2> QED
    BY <1>4, <1>5 DEF IsRun
<1>7. ReadFrom(Shifted(r, d), s) = g[Len(s)]
  <2>1. Shifted(r, d) \in Readers
    BY <1>1
  <2> HIDE DEF g
  <2> QED
    BY <1>6, <2>1, RunResult
<1>8. Len(s) \in 0..Len(s)
  OBVIOUS
<1> QED
  BY <1>2, <1>7, <1>8
-----------------------------------------------------------------------------
(* The frame a reader is in the middle of.                                 *)

\* What reading s makes of the frame f.
Frame(f, s) == ReadFrom(Reader(f, <<>>), s).frame

\* It does not depend on the messages found before.
LEMMA FrameIs ==
  ASSUME NEW f \in Seq(Bytes), NEW m \in Seq(Seq(Bytes)), NEW s \in Seq(Bytes)
  PROVE  /\ Frame(f, s) \in Seq(Bytes)
         /\ \E d \in Seq(Seq(Bytes)) :
              /\ ReadFrom(Reader(f, <<>>), s) = Reader(Frame(f, s), d)
              /\ ReadFrom(Reader(f, m), s) = Reader(Frame(f, s), m \o d)
<1>1. <<>> \in Seq(Seq(Bytes))
  OBVIOUS
<1>2. Reader(f, <<>>) \in Readers
  BY <1>1, ReaderType
<1>3. PICK r \in Readers : r = ReadFrom(Reader(f, <<>>), s)
  BY <1>2, ReadFromType
<1>4. PICK frame \in Seq(Bytes), d \in Seq(Seq(Bytes)) : r = Reader(frame, d)
  BY DEF Readers, Reader
<1>5. Frame(f, s) = frame
  BY <1>3, <1>4, ReaderType DEF Frame
<1>6. Shifted(Reader(f, <<>>), m) = Reader(f, m)
  <2>1. m \o <<>> = m
    BY ConcatEmptySeq
  <2> QED
    BY <1>1, <2>1, ReaderType DEF Shifted
<1>7. Shifted(r, m) = Reader(frame, m \o d)
  BY <1>4, ReaderType DEF Shifted
<1>8. ReadFrom(Reader(f, m), s) = Reader(frame, m \o d)
  BY <1>2, <1>3, <1>6, <1>7, ReadShifted
<1> QED
  BY <1>3, <1>4, <1>5, <1>8

LEMMA FrameWas ==
  ASSUME NEW f \in Seq(Bytes), NEW s \in Seq(Bytes)
  PROVE  \E d \in Seq(Seq(Bytes)) : ReadFrom(Reader(f, <<>>), s) = Reader(Frame(f, s), d)
<1>1. <<>> \in Seq(Seq(Bytes))
  OBVIOUS
<1>2. PICK d \in Seq(Seq(Bytes)) :
        /\ ReadFrom(Reader(f, <<>>), s) = Reader(Frame(f, s), d)
        /\ ReadFrom(Reader(f, <<>>), s) = Reader(Frame(f, s), <<>> \o d)
  BY <1>1, FrameIs
<1> QED
  BY <1>2

\* Reading a and then b.
LEMMA FrameConcat ==
  ASSUME NEW f \in Seq(Bytes), NEW a \in Seq(Bytes), NEW b \in Seq(Bytes)
  PROVE  Frame(f, a \o b) = Frame(Frame(f, a), b)
<1>1. <<>> \in Seq(Seq(Bytes)) /\ Frame(f, a) \in Seq(Bytes)
  <2>1. <<>> \in Seq(Seq(Bytes))
    OBVIOUS
  <2> QED
    BY <2>1, FrameIs
<1>2. PICK d \in Seq(Seq(Bytes)) : ReadFrom(Reader(f, <<>>), a) = Reader(Frame(f, a), d)
  BY FrameWas
<1>3. ReadFrom(Reader(f, <<>>), a \o b) = ReadFrom(Reader(Frame(f, a), d), b)
  <2>1. Reader(f, <<>>) \in Readers
    BY <1>1, ReaderType
  <2> QED
    BY <1>2, <2>1, ReadConcat
<1>4. PICK e \in Seq(Seq(Bytes)) :
        ReadFrom(Reader(Frame(f, a), d), b) = Reader(Frame(Frame(f, a), b), d \o e)
  BY <1>1, FrameIs
<1> QED
  BY <1>3, <1>4 DEF Frame, Reader

\* What processBuffer makes of a piece: the messages in it, and in the buffer
\* the frame that the piece leaves open.
LEMMA PieceIsRead ==
  ASSUME NEW b \in Seq(Bytes), NEW piece \in Seq(Bytes), FirstFrame(b) = <<>>
  PROVE  LET result == ProcessBuffer(b \o piece)
         IN  /\ result.rest \in Seq(Bytes) /\ result.messages \in Seq(Seq(Bytes))
             /\ FirstFrame(result.rest) = <<>>
             /\ Unfinished(b) \in Seq(Bytes)
             /\ Unfinished(result.rest) = Frame(Unfinished(b), piece)
             /\ ReadFrom(Reader(Unfinished(b), <<>>), piece)
                  = Reader(Unfinished(result.rest), result.messages)
<1>1. <<>> \in Seq(Seq(Bytes)) /\ b \o piece \in Seq(Bytes)
  <2>1. <<>> \in Seq(Seq(Bytes))
    OBVIOUS
  <2> QED
    BY <2>1, ConcatProperties
<1>2. PICK result \in Results :
        /\ result = ProcessBuffer(b \o piece) /\ FirstFrame(result.rest) = <<>>
        /\ ReadFrom(Reader(<<>>, <<>>), b \o piece)
             = Reader(Unfinished(result.rest), <<>> \o result.messages)
  BY <1>1, ProcessBufferReads
<1>3. result.rest \in Seq(Bytes) /\ result.messages \in Seq(Seq(Bytes))
  BY DEF Results
<1>4. <<>> \o result.messages = result.messages
  BY <1>3, ConcatEmptySeq
<1>5. /\ Unfinished(b) \in Seq(Bytes)
      /\ ReadFrom(Reader(<<>>, <<>>), b) = Reader(Unfinished(b), <<>>)
  BY <1>1, ReadUnfinished
<1>6. ReadFrom(Reader(Unfinished(b), <<>>), piece)
        = Reader(Unfinished(result.rest), result.messages)
  <2>1. Reader(<<>>, <<>>) \in Readers
    BY <1>1, EmptyReader
  <2>2. ReadFrom(Reader(<<>>, <<>>), b \o piece)
          = ReadFrom(ReadFrom(Reader(<<>>, <<>>), b), piece)
    BY <2>1, ReadConcat
  <2> QED
    BY <1>2, <1>4, <1>5, <2>2
<1>7. Unfinished(result.rest) = Frame(Unfinished(b), piece)
  BY <1>6 DEF Frame, Reader
<1> QED
  BY <1>2, <1>3, <1>5, <1>6, <1>7
=============================================================================
