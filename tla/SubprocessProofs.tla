-------------------------- MODULE SubprocessProofs ---------------------------
(***************************************************************************)
(* Proofs about the two components that own a process.                     *)
(*                                                                         *)
(* Process, for any bytes, marker, commands and numbers of calls: its      *)
(* types, that the parsers tell all that a process wrote, and that QML     *)
(* knows whether it runs.                                                  *)
(*                                                                         *)
(* Pam, for any number of conversations, messages and responses: its       *)
(* types, that a process is killed only by the conversation that made it,  *)
(* and that answers go to the prompt they were meant for.                  *)
(***************************************************************************)
EXTENDS Process, Pam, FiniteSetTheorems, SequenceTheorems, TLAPS

-----------------------------------------------------------------------------
(* Induction.  The library's theorems on it take a predicate as a          *)
(* parameter; a set will do here.                                          *)

\* What holds of zero and of the successor of each of its numbers holds of all:
\* otherwise the numbers below one it lacks could be moved up by one.
LEMMA Induction ==
    ASSUME NEW S, S \subseteq Nat, 0 \in S, \A n \in S : n + 1 \in S
    PROVE  \A n \in Nat : n \in S
<1> SUFFICES ASSUME NEW n \in Nat, n \notin S PROVE FALSE
  OBVIOUS
<1> DEFINE T == S \cap 0..n
           next == [x \in T |-> x + 1]
<1>1. IsFiniteSet(T) /\ 0 \in T
  <2>1. IsFiniteSet(0..n)
    BY FS_Interval
  <2>2. T \in SUBSET (0..n)
    OBVIOUS
  <2>3. IsFiniteSet(T)
    <3> HIDE DEF T
    <3> QED
      BY <2>1, <2>2, FS_Subset
  <2> QED
    BY <2>3
<1>2. next \in [T -> T \ {0}]
  OBVIOUS
<1>3. /\ IsFiniteSet(T \ {0}) /\ Cardinality(T \ {0}) = Cardinality(T) - 1
      /\ Cardinality(T) \in Nat
  BY <1>1, FS_RemoveElement, FS_CardinalityType
<1>4. \E x, y \in T : x # y /\ next[x] = next[y]
  <2> HIDE DEF T, next
  <2> QED
    BY <1>1, <1>2, <1>3, FS_PigeonHole
<1> QED
  BY <1>4

-----------------------------------------------------------------------------
(* Where markers are found.                                                *)

Width == Len(Marker)

LEMMA MarkerFacts == Marker \in Seq(Bytes) /\ Width \in Nat \ {0}
BY ConstantsAssumption, EmptySeq, LenProperties DEF Width

CutsFrom(data, cut, i) ==
    IF i + Width > Len(data) THEN <<>>
    ELSE IF MarkerAt(data, i) THEN <<i>> \o cut[i + Width + 1]
    ELSE cut[i + 1]

\* The function that Cuts defines exists: it does from any position on.
LEMMA CutsExist ==
    ASSUME NEW data \in Seq(Bytes)
    PROVE  \E cut : cut = [i \in 0 .. Len(data) + 1 |-> CutsFrom(data, cut, i)]
<1> DEFINE end == Len(data) + 1
           Is(cut, n) == cut = [i \in (end - n)..end |-> CutsFrom(data, cut, i)]
           S == {n \in Nat : n <= end => \E cut : Is(cut, n)}
<1>0. end \in Nat /\ Len(data) \in Nat /\ end = Len(data) + 1
  BY LenProperties
<1>1. 0 \in S
  <2> DEFINE cut == [i \in end..end |-> <<>>]
  <2>1. \A i \in end..end : CutsFrom(data, cut, i) = <<>>
    BY <1>0, MarkerFacts DEF CutsFrom
  <2>2. Is(cut, 0)
    BY <2>1, <1>0
  <2> QED
    BY <2>2
<1>2. ASSUME NEW n \in S PROVE n + 1 \in S
  <2> SUFFICES ASSUME n + 1 <= end PROVE \E cut : Is(cut, n + 1)
    OBVIOUS
  <2>1. PICK cut : Is(cut, n)
    BY <1>0
  <2> DEFINE low == end - (n + 1)
             more == [i \in low..end |-> IF i = low THEN CutsFrom(data, cut, low) ELSE cut[i]]
  <2>2. low \in Nat /\ low + 1 = end - n /\ low <= Len(data)
    BY <1>0
  <2> HIDE DEF low, end
  <2>3. ASSUME NEW i \in low..end PROVE CutsFrom(data, more, i) = CutsFrom(data, cut, i)
    <3>1. i \in Nat /\ i >= low
      BY <2>2, <1>0
    <3>2. CASE i + Width > Len(data)
      BY <3>2 DEF CutsFrom
    <3>3. CASE ~(i + Width > Len(data))
      <4>1. i + Width + 1 \in low..end /\ i + 1 \in low..end /\ i + Width + 1 # low /\ i + 1 # low
        BY <3>1, <3>3, <1>0, <2>2, MarkerFacts
      <4>2. more[i + Width + 1] = cut[i + Width + 1] /\ more[i + 1] = cut[i + 1]
        BY <4>1
      <4> QED
        BY <3>3, <4>2 DEF CutsFrom
    <3> QED
      BY <3>2, <3>3
  <2>4. ASSUME NEW i \in low..end PROVE more[i] = CutsFrom(data, more, i)
    <3>1. CASE i = low
      BY <3>1, <2>3
    <3>2. CASE i # low
      <4>1. i \in (end - n)..end
        BY <3>2, <2>2, <1>0
      <4>2. cut[i] = CutsFrom(data, cut, i)
        BY <4>1, <2>1
      <4> QED
        BY <3>2, <4>2, <2>3
    <3> QED
      BY <3>1, <3>2
  <2>5. more = [i \in low..end |-> CutsFrom(data, more, i)]
    BY <2>4
  <2> QED
    BY <2>5 DEF low
<1>3. \A n \in Nat : n \in S
  <2> HIDE DEF S
  <2>1. S \subseteq Nat
    BY DEF S
  <2> QED
    BY <1>1, <1>2, <2>1, Induction
<1>4. PICK cut : Is(cut, end)
  BY <1>0, <1>3
<1>5. end - end = 0
  BY <1>0
<1> QED
  BY <1>4, <1>5

\* One step of the search.
LEMMA CutsStep ==
    ASSUME NEW data \in Seq(Bytes), NEW i \in 0 .. Len(data) + 1
    PROVE  Cuts(data, i) = IF i + Width > Len(data) THEN <<>>
                           ELSE IF MarkerAt(data, i) THEN <<i>> \o Cuts(data, i + Width + 1)
                           ELSE Cuts(data, i + 1)
<1> DEFINE cut == CHOOSE c : c = [j \in 0 .. Len(data) + 1 |-> CutsFrom(data, c, j)]
<1>1. \A j : Cuts(data, j) = cut[j]
  BY DEF Cuts, CutsFrom, Width
<1>2. cut = [j \in 0 .. Len(data) + 1 |-> CutsFrom(data, cut, j)]
  BY CutsExist
<1> HIDE DEF cut
<1>3. cut[i] = CutsFrom(data, cut, i)
  BY <1>2
<1> QED
  BY <1>1, <1>3 DEF CutsFrom

-----------------------------------------------------------------------------
\* c holds where markers are found in data from position i on, in order, with
\* one position at least between one and the next; other markers overlap them
\* or follow one at once.
Found(data, i, c) ==
    /\ c \in Seq(Nat)
    /\ \A k \in 1..Len(c) : /\ c[k] >= i /\ c[k] + Width <= Len(data)
                            /\ MarkerAt(data, c[k])
    /\ \A j, k \in 1..Len(c) : j < k => c[j] + Width + 1 <= c[k]
    /\ \A p \in Nat : p >= i /\ p + Width <= Len(data) /\ MarkerAt(data, p)
                      => \E k \in 1..Len(c) : c[k] <= p /\ p <= c[k] + Width

\* A marker at i comes before those that are found behind it.
LEMMA FoundMore ==
    ASSUME NEW data, Len(data) \in Nat, NEW i \in Nat, i + Width <= Len(data),
           MarkerAt(data, i), NEW c, Found(data, i + Width + 1, c)
    PROVE  Found(data, i, <<i>> \o c)
<1> DEFINE d == <<i>> \o c
<1>0. Width \in Nat \ {0} /\ c \in Seq(Nat) /\ <<i>> \in Seq(Nat) /\ Len(<<i>>) = 1
  BY MarkerFacts DEF Found
<1>1. Len(c) \in Nat
  BY <1>0, LenProperties
<1>2. d \in Seq(Nat) /\ Len(d) = 1 + Len(c)
  BY <1>0, ConcatProperties
<1>3. \A k \in 1..Len(d) : d[k] = IF k <= 1 THEN <<i>>[k] ELSE c[k - 1]
  BY <1>0, <1>2, ConcatProperties
<1>4. d[1] = i /\ 1 \in 1..Len(d)
  BY <1>1, <1>2, <1>3
<1>5. \A k \in 1..Len(d) : k # 1 => k - 1 \in 1..Len(c) /\ d[k] = c[k - 1]
  BY <1>1, <1>2, <1>3
<1>6. \A k \in 1..Len(c) : k + 1 \in 1..Len(d) /\ d[k + 1] = c[k] /\ c[k] \in Nat
  BY <1>0, <1>1, <1>2, <1>3, ElementOfSeq
<1> HIDE DEF d
<1>7. ASSUME NEW k \in 1..Len(d)
      PROVE  d[k] >= i /\ d[k] + Width <= Len(data) /\ MarkerAt(data, d[k])
  <2>1. CASE k = 1
    BY <2>1, <1>4
  <2>2. CASE k # 1
    <3>1. k - 1 \in 1..Len(c) /\ d[k] = c[k - 1] /\ c[k - 1] \in Nat
      BY <2>2, <1>5, <1>6
    <3>2. c[k - 1] >= i + Width + 1 /\ c[k - 1] + Width <= Len(data) /\ MarkerAt(data, c[k - 1])
      BY <3>1 DEF Found
    <3> QED
      BY <3>1, <3>2, <1>0
  <2> QED
    BY <2>1, <2>2
<1>8. ASSUME NEW j \in 1..Len(d), NEW k \in 1..Len(d), j < k
      PROVE  d[j] + Width + 1 <= d[k]
  <2>1. k # 1 /\ k - 1 \in 1..Len(c) /\ d[k] = c[k - 1] /\ c[k - 1] \in Nat
    BY <1>8, <1>5, <1>6
  <2>2. CASE j = 1
    <3>1. c[k - 1] >= i + Width + 1
      BY <2>1 DEF Found
    <3> QED
      BY <3>1, <2>1, <2>2, <1>4
  <2>3. CASE j # 1
    <3>1. j - 1 \in 1..Len(c) /\ d[j] = c[j - 1] /\ j - 1 < k - 1
      BY <2>3, <1>5, <1>8
    <3>2. c[j - 1] + Width + 1 <= c[k - 1]
      BY <2>1, <3>1 DEF Found
    <3> QED
      BY <2>1, <3>1, <3>2
  <2> QED
    BY <2>2, <2>3
<1>9. ASSUME NEW p \in Nat, p >= i, p + Width <= Len(data), MarkerAt(data, p)
      PROVE  \E k \in 1..Len(d) : d[k] <= p /\ p <= d[k] + Width
  <2>1. CASE p <= i + Width
    BY <2>1, <1>4, <1>9
  <2>2. CASE ~(p <= i + Width)
    <3>1. p >= i + Width + 1
      BY <2>2, <1>0
    <3>2. PICK k \in 1..Len(c) : c[k] <= p /\ p <= c[k] + Width
      BY <3>1, <1>9 DEF Found
    <3> QED
      BY <3>2, <1>6
  <2> QED
    BY <2>1, <2>2
<1> QED
  BY <1>2, <1>7, <1>8, <1>9 DEF Found, d

LEMMA CutsAreFound ==
    ASSUME NEW data \in Seq(Bytes), NEW from \in 0 .. Len(data) + 1
    PROVE  Found(data, from, Cuts(data, from))
<1> DEFINE end == Len(data) + 1
           S == {n \in Nat : \A i \in 0..end : i >= end - n => Found(data, i, Cuts(data, i))}
<1>0. end \in Nat /\ Len(data) \in Nat /\ end = Len(data) + 1 /\ Width \in Nat \ {0}
  BY LenProperties, MarkerFacts
<1>a. ASSUME NEW i \in Nat, i + Width > Len(data) PROVE Found(data, i, <<>>)
  BY <1>a, <1>0, EmptySeq DEF Found
<1>1. 0 \in S
  <2> SUFFICES ASSUME NEW i \in 0..end, i >= end - 0 PROVE Found(data, i, Cuts(data, i))
    OBVIOUS
  <2>1. i \in Nat /\ i + Width > Len(data)
    BY <1>0
  <2> QED
    BY <2>1, <1>a, CutsStep
<1>2. ASSUME NEW n \in S PROVE n + 1 \in S
  <2> SUFFICES ASSUME NEW i \in 0..end, i >= end - (n + 1)
               PROVE  Found(data, i, Cuts(data, i))
    OBVIOUS
  <2>1. n \in Nat /\ i \in Nat
    BY <1>0
  <2>2. \A j \in 0..end : j >= end - n => Found(data, j, Cuts(data, j))
    OBVIOUS
  <2> HIDE DEF S, end
  <2>3. CASE i + Width > Len(data)
    BY <2>1, <2>3, <1>0, <1>a, CutsStep
  <2>4. CASE ~(i + Width > Len(data)) /\ MarkerAt(data, i)
    <3>1. i + Width + 1 \in 0..end /\ i + Width + 1 >= end - n /\ i + Width <= Len(data)
      BY <2>1, <2>4, <1>0
    <3>2. Found(data, i + Width + 1, Cuts(data, i + Width + 1))
      BY <3>1, <2>2
    <3>3. Found(data, i, <<i>> \o Cuts(data, i + Width + 1))
      BY <2>1, <2>4, <3>1, <3>2, <1>0, FoundMore
    <3> QED
      BY <2>4, <3>3, <1>0, CutsStep
  <2>5. CASE ~(i + Width > Len(data)) /\ ~MarkerAt(data, i)
    <3>1. i + 1 \in 0..end /\ i + 1 >= end - n
      BY <2>1, <2>5, <1>0
    <3>2. Found(data, i + 1, Cuts(data, i + 1))
      BY <3>1, <2>2
    <3>3. ASSUME NEW c, Found(data, i + 1, c) PROVE Found(data, i, c)
      <4>1. ASSUME NEW k \in 1..Len(c) PROVE c[k] >= i
        <5>1. c[k] \in Nat /\ c[k] >= i + 1
          BY <3>3, ElementOfSeq DEF Found
        <5> QED
          BY <5>1, <2>1
      <4>2. ASSUME NEW p \in Nat, p >= i, MarkerAt(data, p) PROVE p >= i + 1
        BY <2>1, <2>5, <4>2
      <4> QED
        BY <3>3, <4>1, <4>2 DEF Found
    <3> QED
      BY <2>5, <3>2, <3>3, <1>0, CutsStep
  <2> QED
    BY <2>3, <2>4, <2>5
<1>3. \A n \in Nat : n \in S
  <2> HIDE DEF S
  <2>1. S \subseteq Nat
    BY DEF S
  <2> QED
    BY <1>1, <1>2, <2>1, Induction
<1>4. end \in S /\ from \in 0..end /\ from >= end - end
  BY <1>0, <1>3
<1> QED
  BY <1>4

-----------------------------------------------------------------------------
(* What reads are when joined.                                             *)

Chunk == Seq(Bytes)
Reads == Seq(Seq(Bytes))

JoinedTo(reads, upTo, k) ==
    CASE k = 0 -> <<>>
      [] k = 1 -> reads[1]
      [] OTHER -> upTo[k - 1] \o Marker \o reads[k]

Join(reads) == CHOOSE u : u = [k \in 0 .. Len(reads) |-> JoinedTo(reads, u, k)]

\* The function that Joined defines exists: it does up to any number of reads.
LEMMA JoinExists ==
    ASSUME NEW reads \in Reads
    PROVE  \E u : u = [k \in 0 .. Len(reads) |-> JoinedTo(reads, u, k)]
<1> DEFINE Is(u, n) == u = [k \in 0..n |-> JoinedTo(reads, u, k)]
           S == {n \in Nat : \E u : Is(u, n)}
<1>1. 0 \in S
  <2> DEFINE u == [k \in 0..0 |-> <<>>]
  <2>1. \A k \in 0..0 : JoinedTo(reads, u, k) = <<>>
    BY DEF JoinedTo
  <2>2. Is(u, 0)
    BY <2>1
  <2> QED
    BY <2>2
<1>2. ASSUME NEW n \in S PROVE n + 1 \in S
  <2>1. n \in Nat
    OBVIOUS
  <2>2. PICK u : Is(u, n)
    OBVIOUS
  <2> DEFINE more == [k \in 0..(n + 1) |-> IF k = n + 1 THEN JoinedTo(reads, u, n + 1) ELSE u[k]]
  <2>3. ASSUME NEW k \in 0..(n + 1) PROVE JoinedTo(reads, more, k) = JoinedTo(reads, u, k)
    <3>1. CASE k = 0 \/ k = 1
      BY <3>1 DEF JoinedTo
    <3>2. CASE k # 0 /\ k # 1
      <4>1. k - 1 \in 0..(n + 1) /\ k - 1 # n + 1
        BY <3>2, <2>1
      <4>2. more[k - 1] = u[k - 1]
        BY <4>1
      <4> QED
        BY <3>2, <4>2 DEF JoinedTo
    <3> QED
      BY <3>1, <3>2
  <2>4. ASSUME NEW k \in 0..(n + 1) PROVE more[k] = JoinedTo(reads, more, k)
    <3>1. CASE k = n + 1
      BY <3>1, <2>3
    <3>2. CASE k # n + 1
      <4>1. k \in 0..n
        BY <3>2, <2>1
      <4>2. u[k] = JoinedTo(reads, u, k)
        BY <4>1, <2>2
      <4> QED
        BY <3>2, <4>2, <2>3
    <3> QED
      BY <3>1, <3>2
  <2>5. Is(more, n + 1)
    BY <2>4
  <2> HIDE DEF more
  <2>6. \E v : v = [k \in 0..(n + 1) |-> JoinedTo(reads, v, k)]
    BY <2>5
  <2> QED
    BY <2>1, <2>6
<1>3. Len(reads) \in Nat
  BY LenProperties DEF Reads
<1>4. Len(reads) \in S
  <2> HIDE DEF S
  <2>1. S \subseteq Nat
    BY DEF S
  <2> QED
    BY <1>1, <1>2, <1>3, <2>1, Induction
<1> QED
  BY <1>4

\* One step of joining.
LEMMA JoinStep ==
    ASSUME NEW reads \in Reads
    PROVE  /\ Joined(reads) = Join(reads)[Len(reads)]
           /\ \A k \in 0 .. Len(reads) : Join(reads)[k] = JoinedTo(reads, Join(reads), k)
<1>1. Joined(reads) = Join(reads)[Len(reads)]
  BY DEF Joined, Join, JoinedTo
<1>2. Join(reads) = [k \in 0 .. Len(reads) |-> JoinedTo(reads, Join(reads), k)]
  BY JoinExists DEF Join
<1> QED
  BY <1>1, <1>2

LEMMA JoinType ==
    ASSUME NEW reads \in Reads
    PROVE  \A k \in 0 .. Len(reads) : Join(reads)[k] \in Seq(Bytes)
<1> DEFINE S == {n \in Nat : n <= Len(reads) => Join(reads)[n] \in Seq(Bytes)}
<1>0. Len(reads) \in Nat
  BY LenProperties DEF Reads
<1>1. 0 \in S
  <2>1. Join(reads)[0] = <<>>
    BY JoinStep, <1>0 DEF JoinedTo
  <2> QED
    BY <2>1, EmptySeq
<1>2. ASSUME NEW n \in S PROVE n + 1 \in S
  <2> SUFFICES ASSUME n + 1 <= Len(reads) PROVE Join(reads)[n + 1] \in Seq(Bytes)
    OBVIOUS
  <2>1. n \in Nat /\ n + 1 \in 1..Len(reads) /\ n + 1 \in 0..Len(reads)
    BY <1>0
  <2>2. Join(reads)[n + 1] = JoinedTo(reads, Join(reads), n + 1) /\ reads[n + 1] \in Seq(Bytes)
    BY <2>1, JoinStep, ElementOfSeq DEF Reads
  <2>3. CASE n = 0
    BY <2>2, <2>3 DEF JoinedTo
  <2>4. CASE n # 0
    <3>1. Join(reads)[n] \in Seq(Bytes) /\ (n + 1) - 1 = n /\ n + 1 # 0 /\ n + 1 # 1
      BY <2>1, <2>4, <1>0
    <3>2. Join(reads)[n + 1] = Join(reads)[n] \o Marker \o reads[n + 1]
      BY <2>2, <3>1 DEF JoinedTo
    <3>3. Join(reads)[n] \o Marker \in Seq(Bytes)
      BY <3>1, MarkerFacts, ConcatProperties
    <3> QED
      BY <2>2, <3>2, <3>3, ConcatProperties
  <2> QED
    BY <2>3, <2>4
<1>3. \A n \in Nat : n \in S
  <2> HIDE DEF S
  <2>1. S \subseteq Nat
    BY DEF S
  <2> QED
    BY <1>1, <1>2, <2>1, Induction
<1> QED
  BY <1>0, <1>3

\* What comes later does not change what the first reads are when joined.
LEMMA JoinAppend ==
    ASSUME NEW reads \in Reads, NEW r \in Seq(Bytes)
    PROVE  \A k \in 0 .. Len(reads) : Join(Append(reads, r))[k] = Join(reads)[k]
<1> DEFINE more == Append(reads, r)
           S == {n \in Nat : n <= Len(reads) => Join(more)[n] = Join(reads)[n]}
<1>0. /\ Len(reads) \in Nat /\ more \in Reads /\ Len(more) = Len(reads) + 1
      /\ \A k \in 1..Len(reads) : more[k] = reads[k]
  BY LenProperties, AppendProperties DEF Reads
<1> HIDE DEF more
<1>1. 0 \in S
  <2>1. 0 \in 0..Len(reads) /\ 0 \in 0..Len(more)
    BY <1>0
  <2>2. Join(more)[0] = <<>> /\ Join(reads)[0] = <<>>
    BY <2>1, <1>0, JoinStep DEF JoinedTo
  <2> QED
    BY <2>2
<1>2. ASSUME NEW n \in S PROVE n + 1 \in S
  <2> SUFFICES ASSUME n + 1 <= Len(reads) PROVE Join(more)[n + 1] = Join(reads)[n + 1]
    OBVIOUS
  <2>1. n \in Nat /\ n + 1 \in 1..Len(reads) /\ n + 1 \in 0..Len(reads) /\ n + 1 \in 0..Len(more)
    BY <1>0
  <2>2. /\ Join(reads)[n + 1] = JoinedTo(reads, Join(reads), n + 1)
        /\ Join(more)[n + 1] = JoinedTo(more, Join(more), n + 1)
        /\ more[n + 1] = reads[n + 1]
    BY <2>1, <1>0, JoinStep
  <2>3. CASE n = 0
    BY <2>2, <2>3 DEF JoinedTo
  <2>4. CASE n # 0
    <3>1. Join(more)[n] = Join(reads)[n] /\ (n + 1) - 1 = n /\ n + 1 # 0 /\ n + 1 # 1
      BY <2>1, <2>4, <1>0
    <3> QED
      BY <2>2, <3>1 DEF JoinedTo
  <2> QED
    BY <2>3, <2>4
<1>3. \A n \in Nat : n \in S
  <2> HIDE DEF S
  <2>1. S \subseteq Nat
    BY DEF S
  <2> QED
    BY <1>1, <1>2, <2>1, Induction
<1> QED
  BY <1>0, <1>3 DEF more

LEMMA JoinedFacts ==
    /\ Joined(<<>>) = <<>>
    /\ \A r \in Seq(Bytes) : Joined(<<r>>) = r
    /\ \A h \in Reads : Joined(h) \in Seq(Bytes)
    /\ \A h \in Reads, r \in Seq(Bytes) :
           h # <<>> => Joined(Append(h, r)) = Joined(h) \o Marker \o r
<1>1. Joined(<<>>) = <<>>
  <2>1. <<>> \in Reads /\ Len(<<>>) = 0
    BY EmptySeq DEF Reads
  <2>2. 0 \in 0..Len(<<>>)
    BY <2>1
  <2> QED
    BY <2>1, <2>2, JoinStep DEF JoinedTo
<1>2. ASSUME NEW r \in Seq(Bytes) PROVE Joined(<<r>>) = r
  <2>1. <<r>> \in Reads /\ Len(<<r>>) = 1 /\ <<r>>[1] = r
    BY DEF Reads
  <2>2. 1 \in 0..Len(<<r>>)
    BY <2>1
  <2>3. Join(<<r>>)[1] = JoinedTo(<<r>>, Join(<<r>>), 1)
    BY <2>1, <2>2, JoinStep
  <2>4. Joined(<<r>>) = Join(<<r>>)[1]
    BY <2>1, JoinStep
  <2> QED
    BY <2>1, <2>3, <2>4 DEF JoinedTo
<1>3. ASSUME NEW h \in Reads PROVE Joined(h) \in Seq(Bytes)
  <2>1. Len(h) \in 0..Len(h)
    BY LenProperties DEF Reads
  <2> QED
    BY <2>1, JoinStep, JoinType
<1>4. ASSUME NEW h \in Reads, NEW r \in Seq(Bytes), h # <<>>
      PROVE  Joined(Append(h, r)) = Joined(h) \o Marker \o r
  <2> DEFINE more == Append(h, r)
             n == Len(h)
  <2>1. /\ n \in Nat \ {0} /\ more \in Reads /\ Len(more) = n + 1 /\ more[n + 1] = r
        /\ n = Len(h)
    BY <1>4, EmptySeq, AppendProperties DEF Reads
  <2>2. Join(more)[n] = Join(h)[n]
    BY <2>1, JoinAppend
  <2> HIDE DEF more, n
  <2>3. n + 1 \in 0..Len(more) /\ (n + 1) - 1 = n /\ n + 1 # 0 /\ n + 1 # 1
    BY <2>1
  <2>4. Joined(more) = JoinedTo(more, Join(more), n + 1)
    BY <2>1, <2>3, JoinStep
  <2>5. JoinedTo(more, Join(more), n + 1) = Join(more)[n] \o Marker \o r
    BY <2>1, <2>3 DEF JoinedTo
  <2>6. Joined(h) = Join(h)[n]
    BY <2>1, JoinStep
  <2> QED
    BY <2>2, <2>4, <2>5, <2>6 DEF more
<1> QED
  BY <1>1, <1>2, <1>3, <1>4

-----------------------------------------------------------------------------
(* What is told of a stream, up to the marker that ends its last read.     *)

Told(reads) == IF reads = <<>> THEN <<>> ELSE Joined(reads) \o Marker

\* No marker in a piece, but perhaps where it begins.
Clean(r) == \A i \in 1 .. Len(r) - Width : ~MarkerAt(r, i)

LEMMA ToldFacts ==
    ASSUME NEW h \in Reads, NEW r \in Seq(Bytes)
    PROVE  /\ Told(h) \in Seq(Bytes)
           /\ Told(Append(h, r)) = (Told(h) \o r) \o Marker
<1>1. Told(h) \in Seq(Bytes)
  BY JoinedFacts, MarkerFacts, ConcatProperties, EmptySeq DEF Told
<1>2. Append(h, r) # <<>>
  BY AppendProperties DEF Reads
<1>3. CASE h = <<>>
  <2>1. Append(h, r) = <<r>>
    BY <1>3
  <2>2. Told(Append(h, r)) = r \o Marker
    BY <1>2, <2>1, JoinedFacts DEF Told
  <2>3. Told(h) \o r = r
    BY <1>3, ConcatEmptySeq DEF Told
  <2> QED
    BY <1>1, <2>2, <2>3
<1>4. CASE h # <<>>
  <2>1. Told(Append(h, r)) = (Joined(h) \o Marker \o r) \o Marker
    BY <1>2, <1>4, JoinedFacts DEF Told
  <2>2. Told(h) = Joined(h) \o Marker
    BY <1>4 DEF Told
  <2> QED
    BY <1>1, <2>1, <2>2
<1> QED
  BY <1>3, <1>4

\* A read and its marker pass from what is yet to be told to what was told.
LEMMA ToldMore ==
    ASSUME NEW h \in Reads, NEW r \in Seq(Bytes), NEW q \in Seq(Bytes)
    PROVE  Told(Append(h, r)) \o q = Told(h) \o (r \o (Marker \o q))
<1> DEFINE t == Told(h)
           tr == t \o r
           mq == Marker \o q
<1>1. t \in Seq(Bytes) /\ Told(Append(h, r)) = tr \o Marker
  BY ToldFacts
<1>2. tr \in Seq(Bytes) /\ mq \in Seq(Bytes) /\ Marker \in Seq(Bytes)
  <2> HIDE DEF t
  <2> QED
    BY <1>1, MarkerFacts, ConcatProperties
<1> HIDE DEF t, tr, mq
<1>3. (tr \o Marker) \o q = tr \o mq
  BY <1>2, ConcatAssociative DEF mq
<1>4. t \in Seq(Bytes) /\ mq \in Seq(Bytes)
  BY <1>1, <1>2
<1>5. tr \o mq = t \o (r \o mq)
  BY <1>4, ConcatAssociative DEF tr
<1> QED
  BY <1>1, <1>3, <1>5 DEF t, mq

-----------------------------------------------------------------------------
(* Splitting data at the positions c.                                      *)

Begin(c, start, k) == IF k = 1 THEN start ELSE c[k - 1] + Width

ReadsAt(data, c, start) == [k \in DOMAIN c |-> SubSeq(data, Begin(c, start, k) + 1, c[k])]

RestOf(data, c, start) == SubSeq(data, Begin(c, start, Len(c) + 1) + 1, Len(data))

\* Where the search for markers begins when blen bytes were in the buffer.
Resume(blen) == blen - (IF blen < Width - 1 THEN blen ELSE Width - 1)

LEMMA ResumeFacts ==
    ASSUME NEW blen \in Nat
    PROVE  Resume(blen) \in 0..blen
BY MarkerFacts DEF Resume

LEMMA SplitIs ==
    ASSUME NEW data, NEW blen, NEW start
    PROVE  LET c == Cuts(data, Resume(blen))
           IN  Split(data, blen, start) = [reads |-> ReadsAt(data, c, start),
                                           rest  |-> RestOf(data, c, start)]
BY DEF Split, Resume, ReadsAt, RestOf, Begin, Width

LEMMA SplitParts ==
    ASSUME NEW data \in Seq(Bytes), NEW from \in Nat, NEW c, Found(data, from, c),
           NEW start \in 0..Len(data)
    PROVE  /\ \A k \in 1 .. Len(c) + 1 : Begin(c, start, k) \in 0..Len(data)
           /\ ReadsAt(data, c, start) \in Reads /\ Len(ReadsAt(data, c, start)) = Len(c)
           /\ \A k \in 1..Len(c) : ReadsAt(data, c, start)[k]
                                       = SubSeq(data, Begin(c, start, k) + 1, c[k])
           /\ RestOf(data, c, start) \in Seq(Bytes)
<1>0. /\ c \in Seq(Nat) /\ Len(c) \in Nat /\ DOMAIN c = 1..Len(c)
      /\ Len(data) \in Nat /\ Width \in Nat \ {0}
      /\ \A i \in 1..Len(data) : data[i] \in Bytes
  BY LenProperties, ElementOfSeq, MarkerFacts DEF Found
<1>1. \A k \in 1..Len(c) : c[k] \in Nat /\ c[k] + Width <= Len(data)
  BY <1>0, ElementOfSeq DEF Found
<1>2. ASSUME NEW k \in 1 .. Len(c) + 1 PROVE Begin(c, start, k) \in 0..Len(data)
  <2>1. CASE k = 1
    BY <2>1 DEF Begin
  <2>2. CASE k # 1
    <3>1. k - 1 \in 1..Len(c)
      BY <2>2, <1>0
    <3> QED
      BY <2>2, <3>1, <1>0, <1>1 DEF Begin
  <2> QED
    BY <2>1, <2>2
<1>3. ASSUME NEW b \in 0..Len(data), NEW e \in 0..Len(data)
      PROVE  SubSeq(data, b + 1, e) \in Seq(Bytes)
  <2>1. b + 1 \in Int /\ e \in Int /\ \A i \in (b + 1)..e : data[i] \in Bytes
    BY <1>0
  <2> QED
    BY <2>1, SubSeqProperties
<1>4. ASSUME NEW k \in 1..Len(c)
      PROVE  SubSeq(data, Begin(c, start, k) + 1, c[k]) \in Seq(Bytes)
  <2>1. c[k] \in 0..Len(data) /\ k \in 1..Len(c) + 1
    BY <1>0, <1>1
  <2> QED
    BY <2>1, <1>2, <1>3
<1>5. /\ ReadsAt(data, c, start) \in [1..Len(c) -> Seq(Bytes)]
      /\ \A k \in 1..Len(c) : ReadsAt(data, c, start)[k]
                                  = SubSeq(data, Begin(c, start, k) + 1, c[k])
  BY <1>0, <1>4 DEF ReadsAt
<1>6. ReadsAt(data, c, start) \in Reads /\ Len(ReadsAt(data, c, start)) = Len(c)
  BY <1>0, <1>5 DEF Reads
<1>7. RestOf(data, c, start) \in Seq(Bytes)
  <2>1. Len(c) + 1 \in 1..Len(c) + 1 /\ Len(data) \in 0..Len(data)
    BY <1>0
  <2> QED
    BY <2>1, <1>2, <1>3 DEF RestOf
<1> QED
  BY <1>2, <1>5, <1>6, <1>7

\* A read ends where it begins or later, and its marker follows.
LEMMA CutFacts ==
    ASSUME NEW data \in Seq(Bytes), NEW from \in Nat, NEW c, Found(data, from, c),
           NEW k \in 1..Len(c)
    PROVE  /\ c[k] \in Nat /\ Begin(c, 0, k) \in 0..c[k] /\ c[k] + Width <= Len(data)
           /\ Begin(c, 0, k + 1) = c[k] + Width
           /\ SubSeq(data, c[k] + 1, c[k] + Width) = Marker
           /\ \A j \in 1..Len(c) : j < k => c[j] + Width <= Begin(c, 0, k)
<1>0. c \in Seq(Nat) /\ Len(c) \in Nat /\ Len(data) \in Nat /\ Width \in Nat \ {0}
  BY LenProperties, MarkerFacts DEF Found
<1>1. \A j \in 1..Len(c) : c[j] \in Nat
  BY <1>0, ElementOfSeq
<1>2. c[k] + Width <= Len(data) /\ SubSeq(data, c[k] + 1, c[k] + Width) = Marker
  BY DEF Found, MarkerAt, Width
<1>3. Begin(c, 0, k + 1) = c[k] + Width
  <2>1. k + 1 # 1 /\ (k + 1) - 1 = k
    BY <1>0
  <2> QED
    BY <2>1 DEF Begin
<1>4. CASE k = 1
  BY <1>0, <1>1, <1>2, <1>3, <1>4 DEF Begin
<1>5. CASE k # 1
  <2>1. k - 1 \in 1..Len(c) /\ k - 1 < k
    BY <1>5, <1>0
  <2>2. Begin(c, 0, k) = c[k - 1] + Width
    BY <1>5 DEF Begin
  <2>3. c[k - 1] + Width + 1 <= c[k]
    BY <2>1 DEF Found
  <2>4. ASSUME NEW j \in 1..Len(c), j < k PROVE c[j] + Width <= Begin(c, 0, k)
    <3>1. CASE j = k - 1
      BY <3>1, <2>1, <2>2, <1>0, <1>1
    <3>2. CASE j # k - 1
      <4>1. j < k - 1
        BY <3>2, <2>4, <1>0
      <4>2. c[j] + Width + 1 <= c[k - 1]
        BY <4>1, <2>1 DEF Found
      <4>3. c[j] \in Nat /\ c[k - 1] \in Nat
        BY <2>1, <1>1
      <4>4. \A x, y \in Nat : x + Width + 1 <= y => x + Width <= y + Width
        BY <1>0
      <4> QED
        BY <4>2, <4>3, <4>4, <2>2
    <3> QED
      BY <3>1, <3>2
  <2>5. Begin(c, 0, k) \in 0..c[k]
    BY <2>1, <2>2, <2>3, <1>0, <1>1
  <2> QED
    BY <1>1, <1>2, <1>3, <2>4, <2>5
<1> QED
  BY <1>4, <1>5

\* Splitting loses nothing.
LEMMA SplitKeeps ==
    ASSUME NEW data \in Seq(Bytes), NEW from \in Nat, NEW c, Found(data, from, c),
           NEW had \in Reads
    PROVE  Told(had \o ReadsAt(data, c, 0)) \o RestOf(data, c, 0) = Told(had) \o data
<1> DEFINE reads == ReadsAt(data, c, 0)
           rest(n) == SubSeq(data, Begin(c, 0, n + 1) + 1, Len(data))
           first(n) == had \o SubSeq(reads, 1, n)
           S == {n \in Nat : n <= Len(c) => Told(first(n)) \o rest(n) = Told(had) \o data}
<1>0. /\ Len(c) \in Nat /\ Len(data) \in Nat /\ 0 \in 0..Len(data) /\ had \in Seq(Seq(Bytes))
      /\ Width \in Nat \ {0} /\ Marker \in Seq(Bytes)
  BY LenProperties, MarkerFacts DEF Found, Reads
<1>a. /\ reads \in Seq(Seq(Bytes)) /\ Len(reads) = Len(c)
      /\ \A k \in 1..Len(c) : reads[k] = SubSeq(data, Begin(c, 0, k) + 1, c[k])
      /\ \A k \in 1..Len(c) + 1 : Begin(c, 0, k) \in 0..Len(data)
  <2>1. reads \in Reads
    BY <1>0, SplitParts
  <2> QED
    BY <2>1, <1>0, SplitParts DEF Reads
<1> HIDE DEF reads
<1>1. 0 \in S
  <2>1. SubSeq(reads, 1, 0) = <<>>
    BY SubSeqEmpty
  <2>2. first(0) = had
    BY <2>1, <1>0, ConcatEmptySeq
  <2>3. rest(0) = data
    <3>1. Begin(c, 0, 0 + 1) + 1 = 1
      BY DEF Begin
    <3> QED
      BY <3>1, SubSeqFull
  <2> HIDE DEF first, rest
  <2> QED
    BY <2>2, <2>3
<1>2. ASSUME NEW n \in S PROVE n + 1 \in S
  <2> HIDE DEF first, rest
  <2> SUFFICES ASSUME n + 1 <= Len(c)
               PROVE  Told(first(n + 1)) \o rest(n + 1) = Told(had) \o data
    OBVIOUS
  <2>n. n \in Nat /\ n + 1 \in 1..Len(c) /\ n <= Len(c)
    BY <1>0
  <2>t. Told(first(n)) \o rest(n) = Told(had) \o data
    BY <2>n
  <2> HIDE DEF S
  <2> DEFINE k == n + 1
             e == c[k]
             b == Begin(c, 0, k)
             r == SubSeq(data, b + 1, e)
             len == Len(data)
  <2>1. n \in Nat /\ k \in 1..Len(c)
    BY <2>n
  <2>2. /\ e \in Nat /\ b \in 0..e /\ e + Width <= len /\ len \in Nat
        /\ Begin(c, 0, k + 1) = e + Width
        /\ SubSeq(data, e + 1, e + Width) = Marker
    <3> HIDE DEF k
    <3>1. /\ c[k] \in Nat /\ Begin(c, 0, k) \in 0..c[k] /\ c[k] + Width <= Len(data)
          /\ Begin(c, 0, k + 1) = c[k] + Width
          /\ SubSeq(data, c[k] + 1, c[k] + Width) = Marker
      BY <2>1, CutFacts
    <3> QED
      BY <3>1, <1>0
  <2>3. r \in Seq(Bytes) /\ reads[k] = r
    BY <2>1, <1>a, ElementOfSeq
  <2>4. first(k) = Append(first(n), r) /\ first(n) \in Reads
    <3> DEFINE x == SubSeq(reads, 1, n)
               y == <<r>>
    <3>1. SubSeq(reads, 1, k) = x \o y
      <4>1. 1 \in 1..Len(reads) /\ k \in 1..Len(reads) /\ k - 1 = n
        BY <2>1, <1>a
      <4> QED
        BY <4>1, <2>3, <1>a, SubSeqRecursiveSecond
    <3>2. x \in Seq(Seq(Bytes)) /\ y \in Seq(Seq(Bytes))
      <4>1. \A i \in 1..n : reads[i] \in Seq(Bytes)
        BY <2>1, <1>a, <1>0, ElementOfSeq
      <4> QED
        BY <4>1, <2>1, <2>3, SubSeqProperties
    <3>3. first(k) = had \o (x \o y) /\ first(n) = had \o x
      BY <3>1 DEF first
    <3> HIDE DEF x
    <3>4. had \o x \in Seq(Seq(Bytes))
      BY <3>2, <1>0, ConcatProperties
    <3>5. Append(had \o x, r) = (had \o x) \o y
      BY <3>4, <2>3, AppendIsConcat
    <3> HIDE DEF y
    <3>6. had \in Seq(Chunk) /\ x \in Seq(Chunk) /\ y \in Seq(Chunk)
      BY <3>2, <1>0 DEF Chunk
    <3>7. (had \o x) \o y = had \o (x \o y)
      BY <3>6, ConcatAssociative
    <3> QED
      BY <3>3, <3>4, <3>5, <3>7 DEF Reads
  <2>6. rest(n) = SubSeq(data, b + 1, len) /\ rest(k) = SubSeq(data, e + Width + 1, len)
    BY <2>2 DEF rest
  <2> HIDE DEF k, e, b, len
  <2>7. rest(n) = r \o (Marker \o rest(k)) /\ rest(k) \in Seq(Bytes)
    <3>1. SubSeq(data, b + 1, len) = r \o SubSeq(data, e + 1, len)
      <4>1. b + 1 \in 1..len + 1 /\ e \in (b + 1) - 1..len /\ len \in e..len
        BY <2>2, <1>0
      <4> QED
        BY <4>1, ConcatAdjacentSubSeq DEF r, len
    <3>2. SubSeq(data, e + 1, len) = Marker \o SubSeq(data, e + Width + 1, len)
      <4>1. /\ e + 1 \in 1..len + 1 /\ e + Width \in (e + 1) - 1..len
            /\ len \in e + Width..len
        BY <2>2, <1>0
      <4>2. SubSeq(data, e + 1, len)
                = SubSeq(data, e + 1, e + Width) \o SubSeq(data, e + Width + 1, len)
        BY <4>1, ConcatAdjacentSubSeq DEF len
      <4> QED
        BY <4>2, <2>2
    <3>3. SubSeq(data, e + Width + 1, len) \in Seq(Bytes)
      <4>1. e + Width + 1 \in Int /\ len \in Int /\ \A i \in e + Width + 1..len : i \in 1..len
        BY <2>2, <1>0
      <4>2. \A i \in 1..len : data[i] \in Bytes
        BY ElementOfSeq DEF len
      <4>3. \A i \in e + Width + 1..len : data[i] \in Bytes
        BY <4>1, <4>2
      <4> QED
        BY <4>1, <4>3, SubSeqProperties
    <3> QED
      BY <2>6, <3>1, <3>2, <3>3
  <2>8. Told(Append(first(n), r)) \o rest(k) = Told(first(n)) \o (r \o (Marker \o rest(k)))
    BY <2>3, <2>4, <2>7, ToldMore
  <2>9. Told(first(k)) \o rest(k) = Told(had) \o data
    BY <2>t, <2>4, <2>7, <2>8
  <2> QED
    BY <2>9 DEF k
<1>3. \A n \in Nat : n \in S
  <2> HIDE DEF S
  <2>1. S \subseteq Nat
    BY DEF S
  <2> QED
    BY <1>1, <1>2, <2>1, Induction
<1>4. Told(first(Len(c))) \o rest(Len(c)) = Told(had) \o data
  <2> HIDE DEF first, rest
  <2>1. Len(c) \in S
    BY <1>0, <1>3
  <2> QED
    BY <2>1, <1>0
<1>5. SubSeq(reads, 1, Len(c)) = reads
  BY <1>a, SubSeqFull
<1> QED
  BY <1>4, <1>5 DEF reads, RestOf

\* What lies between two markers that were found has none, if what was not
\* searched again has none.
LEMMA PieceIsClean ==
    ASSUME NEW data \in Seq(Bytes), NEW from \in Nat, NEW c, Found(data, from, c),
           \A p \in 1 .. from - 1 : ~MarkerAt(data, p),
           NEW k \in 1 .. Len(c) + 1, NEW e \in 0..Len(data), Begin(c, 0, k) <= e,
           k <= Len(c) => e = c[k]
    PROVE  Clean(SubSeq(data, Begin(c, 0, k) + 1, e))
<1> DEFINE b == Begin(c, 0, k)
           r == SubSeq(data, b + 1, e)
           len == Len(data)
<1>0. /\ c \in Seq(Nat) /\ Len(c) \in Nat /\ len \in Nat /\ Width \in Nat \ {0}
      /\ \A j \in 1..Len(c) : c[j] \in Nat
      /\ 0 \in 0..Len(data)
  BY LenProperties, ElementOfSeq, MarkerFacts DEF Found
<1>1. b \in 0..len /\ e \in 0..len /\ b <= e
  BY <1>0, SplitParts
<1>2. ASSUME NEW j \in 1..Len(c), j < k PROVE c[j] + Width <= b
  <2>1. CASE k \in 1..Len(c)
    BY <2>1, <1>2, CutFacts
  <2>2. CASE k = Len(c) + 1
    <3>1. Len(c) \in 1..Len(c)
      BY <1>0
    <3>2. b = c[Len(c)] + Width
      BY <2>2, <3>1, CutFacts
    <3>3. CASE j = Len(c)
      BY <3>2, <3>3, <1>0
    <3>4. CASE j # Len(c)
      <4>1. j < Len(c)
        BY <3>4, <1>0
      <4>2. c[j] + Width <= Begin(c, 0, Len(c)) /\ Begin(c, 0, Len(c)) \in 0..c[Len(c)]
        BY <3>1, <4>1, CutFacts
      <4>3. c[j] \in Nat /\ c[Len(c)] \in Nat
        BY <3>1, <1>0
      <4>4. \A x, y, z \in Nat : x + Width <= y /\ y <= z => x + Width <= z + Width
        BY <1>0
      <4> QED
        BY <3>2, <4>2, <4>3, <4>4
    <3> QED
      BY <3>3, <3>4
  <2>3. k \in 1..Len(c) \/ k = Len(c) + 1
    <3>1. \A n \in Nat : \A i \in 1 .. n + 1 : i \in 1..n \/ i = n + 1
      OBVIOUS
    <3>2. Len(c) \in Nat
      BY <1>0
    <3> QED
      BY <3>1, <3>2
  <2> QED
    BY <2>1, <2>2, <2>3
<1>3. ASSUME NEW j \in 1..Len(c), ~(j < k) PROVE e <= c[j]
  <2>1. k \in 1..Len(c) /\ e = c[k]
    BY <1>3, <1>0
  <2>2. CASE j = k
    BY <2>1, <2>2, <1>1
  <2>3. CASE j # k
    <3>1. k < j
      BY <2>3, <1>3, <1>0
    <3>2. c[k] + Width + 1 <= c[j]
      BY <2>1, <3>1 DEF Found
    <3>3. c[j] \in Nat /\ c[k] \in Nat
      BY <2>1, <1>0
    <3> QED
      BY <2>1, <3>2, <3>3, <1>0
  <2> QED
    BY <2>2, <2>3
<1>4. r \in Seq(Bytes) /\ Len(r) = e - b
  <2>1. b + 1 \in Int /\ e \in Int /\ \A i \in b + 1..e : i \in 1..len
    BY <1>0, <1>1
  <2>2. \A i \in 1..len : data[i] \in Bytes
    BY ElementOfSeq
  <2>3. \A i \in b + 1..e : data[i] \in Bytes
    BY <2>1, <2>2
  <2>4. /\ SubSeq(data, b + 1, e) \in Seq(Bytes)
        /\ Len(SubSeq(data, b + 1, e)) = IF b + 1 <= e THEN e - (b + 1) + 1 ELSE 0
    <3> HIDE DEF b, len
    <3> QED
      BY <2>1, <2>3, SubSeqProperties
  <2> HIDE DEF b, len
  <2> QED
    BY <2>4, <1>1
<1> SUFFICES ASSUME NEW i \in 1 .. Len(r) - Width, MarkerAt(r, i) PROVE FALSE
  BY DEF Clean
<1> HIDE DEF r, len
<1>5. i \in Nat /\ i >= 1 /\ b + i \in Nat /\ b + i + Width <= e
  <2> HIDE DEF b
  <2> QED
    BY <1>0, <1>1, <1>4
<1>6. MarkerAt(data, b + i)
  <2> HIDE DEF b
  <2> DEFINE low == b + 1
             m == i + 1
             n == i + Width
  <2>1. /\ low \in 1..len /\ e \in 1..len
        /\ m \in 1 .. e - low + 1 /\ n \in 1 .. e - low + 1
    BY <1>0, <1>1, <1>5
  <2>2. low + m - 1 = b + i + 1 /\ low + n - 1 = b + i + Width
    BY <1>0, <1>1, <1>5
  <2>3. r = SubSeq(data, low, e)
    BY DEF r
  <2> HIDE DEF low, m, n
  <2>4. SubSeq(r, m, n) = SubSeq(data, low + m - 1, low + n - 1)
    BY <2>1, <2>3, SubSeqOfSubSeq DEF len
  <2> QED
    BY <2>2, <2>4 DEF MarkerAt, Width, m, n
<1> HIDE DEF b
<1>7. CASE b + i < from
  <2>1. b + i \in 1 .. from - 1
    BY <1>5, <1>7, <1>1
  <2> QED
    BY <2>1, <1>6
<1>8. CASE ~(b + i < from)
  <2>1. b + i >= from /\ b + i + Width <= len
    BY <1>0, <1>1, <1>5, <1>8
  <2>2. PICK j \in 1..Len(c) : c[j] <= b + i /\ b + i <= c[j] + Width
    BY <2>1, <1>5, <1>6 DEF Found, len
  <2>3. c[j] \in Nat
    BY <1>0
  <2>4. CASE j < k
    <3>1. c[j] + Width <= b
      BY <2>4, <1>2
    <3>2. \A x \in Nat : ~(x + Width <= b /\ b + i <= x + Width)
      BY <1>0, <1>1, <1>5
    <3> QED
      BY <3>1, <3>2, <2>2, <2>3
  <2>5. CASE ~(j < k)
    <3>1. e <= c[j]
      BY <2>5, <1>3
    <3> QED
      BY <3>1, <2>2, <2>3, <1>0, <1>1, <1>5
  <2> QED
    BY <2>4, <2>5
<1> QED
  BY <1>7, <1>8

\* A marker in what was searched before is one of the buffer's.
LEMMA ResumeIsSafe ==
    ASSUME NEW old \in Seq(Bytes), NEW incoming \in Seq(Bytes), Clean(old)
    PROVE  \A p \in 1 .. Resume(Len(old)) - 1 : ~MarkerAt(old \o incoming, p)
<1> SUFFICES ASSUME NEW p \in 1 .. Resume(Len(old)) - 1, MarkerAt(old \o incoming, p)
             PROVE  FALSE
  OBVIOUS
<1>1. Len(old) \in Nat /\ Width \in Nat \ {0}
  BY LenProperties, MarkerFacts
<1>2. p \in 1 .. Len(old) - Width
  BY <1>1 DEF Resume
<1>3. p + 1 \in 1..Len(old) /\ p + Width \in 1..Len(old)
  BY <1>1, <1>2
<1>4. SubSeq(old \o incoming, p + 1, p + Width) = SubSeq(old, p + 1, p + Width)
  BY <1>3, SubSeqOfConcat1
<1>5. MarkerAt(old, p)
  BY <1>4 DEF MarkerAt, Width
<1> QED
  BY <1>2, <1>5 DEF Clean

LEMMA SplitTypes ==
    ASSUME NEW data \in Seq(Bytes), NEW blen \in 0..Len(data), NEW start \in 0..Len(data)
    PROVE  /\ Split(data, blen, start).reads \in Reads
           /\ Split(data, blen, start).rest \in Seq(Bytes)
<1> DEFINE c == Cuts(data, Resume(blen))
<1>1. Len(data) \in Nat /\ blen \in Nat
  BY LenProperties
<1>2. Resume(blen) \in Nat /\ Resume(blen) \in 0 .. Len(data) + 1
  BY <1>1, ResumeFacts
<1>3. Found(data, Resume(blen), c)
  BY <1>2, CutsAreFound
<1> HIDE DEF c
<1>4. ReadsAt(data, c, start) \in Reads /\ RestOf(data, c, start) \in Seq(Bytes)
  BY <1>2, <1>3, SplitParts
<1> QED
  BY <1>4, SplitIs DEF c

\* Wherever what comes in was cut: what is told and what is kept are the stream,
\* and no piece holds a marker.
LEMMA SplitHears ==
    ASSUME NEW had \in Reads, NEW old \in Seq(Bytes), NEW incoming \in Seq(Bytes), Clean(old)
    PROVE  LET split == Split(old \o incoming, Len(old), 0)
           IN  /\ Told(had \o split.reads) \o split.rest = Told(had) \o (old \o incoming)
               /\ Clean(split.rest)
               /\ \A k \in DOMAIN split.reads : Clean(split.reads[k])
<1> DEFINE data == old \o incoming
           from == Resume(Len(old))
           c == Cuts(data, from)
           reads == ReadsAt(data, c, 0)
           rest == RestOf(data, c, 0)
<1>1. data \in Seq(Bytes) /\ Len(old) \in 0..Len(data) /\ Len(data) \in Nat /\ Len(old) \in Nat
  BY LenProperties, ConcatProperties
<1>2. \A p \in 1 .. from - 1 : ~MarkerAt(data, p)
  BY ResumeIsSafe
<1>3. Split(data, Len(old), 0) = [reads |-> reads, rest |-> rest]
  BY SplitIs
<1> HIDE DEF data
<1>4. from \in Nat /\ from \in 0 .. Len(data) + 1
  BY <1>1, ResumeFacts
<1> HIDE DEF from
<1>5. Found(data, from, c)
  BY <1>1, <1>4, CutsAreFound
<1> HIDE DEF c
<1>6. Told(had \o reads) \o rest = Told(had) \o data
  BY <1>1, <1>4, <1>5, SplitKeeps
<1>7. /\ c \in Seq(Nat) /\ Len(c) \in Nat /\ 0 \in 0..Len(data)
      /\ \A k \in 1..Len(c) : c[k] \in Nat
  BY <1>1, <1>5, LenProperties, ElementOfSeq DEF Found
<1>8. Clean(rest)
  <2>1. Len(c) + 1 \in 1 .. Len(c) + 1 /\ Len(data) \in 0..Len(data) /\ ~(Len(c) + 1 <= Len(c))
    BY <1>1, <1>7
  <2>2. Begin(c, 0, Len(c) + 1) \in 0..Len(data)
    BY <2>1, <1>1, <1>4, <1>5, <1>7, SplitParts
  <2>3. Begin(c, 0, Len(c) + 1) <= Len(data)
    BY <2>2, <1>1
  <2> QED
    BY <2>1, <2>3, <1>1, <1>2, <1>4, <1>5, PieceIsClean DEF RestOf
<1>9. ASSUME NEW k \in 1..Len(c) PROVE Clean(reads[k])
  <2>1. c[k] \in Nat /\ Begin(c, 0, k) \in 0..c[k] /\ c[k] + Width <= Len(data)
    BY <1>1, <1>4, <1>5, CutFacts
  <2>2. c[k] \in 0..Len(data) /\ Begin(c, 0, k) <= c[k] /\ k \in 1 .. Len(c) + 1
    BY <2>1, <1>1, <1>7, MarkerFacts
  <2>3. Clean(SubSeq(data, Begin(c, 0, k) + 1, c[k]))
    BY <2>2, <1>1, <1>2, <1>4, <1>5, PieceIsClean
  <2>4. ReadsAt(data, c, 0)[k] = SubSeq(data, Begin(c, 0, k) + 1, c[k])
    BY <1>1, <1>4, <1>5, <1>7, SplitParts
  <2> QED
    BY <2>3, <2>4
<1>10. DOMAIN reads = 1..Len(c)
  <2>1. reads \in Reads /\ Len(reads) = Len(c)
    BY <1>1, <1>4, <1>5, <1>7, SplitParts
  <2> HIDE DEF reads
  <2> QED
    BY <2>1, LenProperties DEF Reads
<1> DEFINE split == Split(data, Len(old), 0)
<1>11. split.reads = reads /\ split.rest = rest
  <2> HIDE DEF reads, rest
  <2> QED
    BY <1>3
<1> HIDE DEF reads, rest, split
<1>12. /\ Told(had \o split.reads) \o split.rest = Told(had) \o data
       /\ Clean(split.rest)
       /\ \A k \in DOMAIN split.reads : Clean(split.reads[k])
  BY <1>6, <1>8, <1>9, <1>10, <1>11
<1> QED
  BY <1>12 DEF data, split

-----------------------------------------------------------------------------
(* What a parser has made of a stream.                                     *)

\* A parser of a kind that told `had` and keeps `kept` has got `all`.
Heard(kind, had, kept, all) ==
    /\ kind = "split" => /\ all = Told(had) \o kept /\ Clean(kept)
                         /\ \A k \in DOMAIN had : Clean(had[k])
    /\ kind \in {"collect", "live"} => all = kept
    /\ kind = "live" => had = IF kept = <<>> THEN <<>> ELSE <<kept>>

\* A parser of a kind has told all there was.
HeardAll(kind, had, all) ==
    /\ \/ all = Joined(had)
       \/ kind = "split" /\ all = Joined(had) \o Marker
    /\ kind = "split" => \A k \in DOMAIN had : Clean(had[k])

LEMMA ParseTypes ==
    ASSUME NEW kind, NEW had \in Reads, NEW incoming \in Seq(Bytes), NEW old \in Seq(Bytes),
           NEW start \in 0..Len(old)
    PROVE  LET p == ParseBytes(kind, had, incoming, old, start)
           IN  p.heard \in Reads /\ p.buffer \in Seq(Bytes)
<1> DEFINE data == old \o incoming
           split == Split(data, Len(old), start)
           p == ParseBytes(kind, had, incoming, old, start)
<1>1. data \in Seq(Bytes) /\ Len(old) \in 0..Len(data) /\ start \in 0..Len(data)
  <2>1. Len(old) \in Nat /\ Len(incoming) \in Nat /\ Len(data) = Len(old) + Len(incoming)
    BY LenProperties, ConcatProperties
  <2>2. data \in Seq(Bytes)
    BY ConcatProperties
  <2> HIDE DEF data
  <2> QED
    BY <2>1, <2>2
<1>2. CASE kind = "split"
  <2>1. p = [heard |-> had \o split.reads, buffer |-> split.rest]
    BY <1>2 DEF ParseBytes
  <2> HIDE DEF data
  <2>2. split.reads \in Reads /\ split.rest \in Seq(Bytes)
    BY <1>1, SplitTypes
  <2> HIDE DEF split, p
  <2>3. had \o split.reads \in Reads
    BY <2>2, ConcatProperties DEF Reads
  <2>4. p.heard \in Reads /\ p.buffer \in Seq(Bytes)
    BY <2>1, <2>2, <2>3
  <2> QED
    BY <2>4 DEF p
<1>3. CASE kind # "split"
  <2>1. p = [heard |-> IF kind = "live" THEN <<data>> ELSE had, buffer |-> data]
    BY <1>3 DEF ParseBytes
  <2> HIDE DEF data, p
  <2>2. <<data>> \in Reads
    BY <1>1 DEF Reads
  <2>3. p.heard \in Reads /\ p.buffer \in Seq(Bytes)
    BY <1>1, <2>1, <2>2
  <2> QED
    BY <2>3 DEF p
<1> QED
  BY <1>2, <1>3

\* A parser that gets more has got more.
LEMMA ParseHears ==
    ASSUME NEW kind \in Kinds, kind # "none", NEW had \in Reads,
           NEW incoming \in Seq(Bytes), incoming # <<>>,
           NEW old \in Seq(Bytes), NEW all \in Seq(Bytes), Heard(kind, had, old, all)
    PROVE  LET p == ParseBytes(kind, had, incoming, old, 0)
           IN  Heard(kind, p.heard, p.buffer, all \o incoming)
<1> DEFINE data == old \o incoming
           split == Split(data, Len(old), 0)
           p == ParseBytes(kind, had, incoming, old, 0)
<1>1. data # <<>>
  BY ConcatProperties, EmptySeq
<1>2. CASE kind = "split"
  <2>1. all = Told(had) \o old /\ Clean(old) /\ \A k \in DOMAIN had : Clean(had[k])
    BY <1>2 DEF Heard
  <2>2. p = [heard |-> had \o split.reads, buffer |-> split.rest]
    BY <1>2 DEF ParseBytes
  <2>3. /\ Told(had \o split.reads) \o split.rest = Told(had) \o data
        /\ Clean(split.rest)
        /\ \A k \in DOMAIN split.reads : Clean(split.reads[k])
    BY <2>1, SplitHears
  <2>4. all \o incoming = Told(had) \o data
    <3> DEFINE t == Told(had)
    <3>1. t \in Seq(Bytes)
      BY ToldFacts, EmptySeq
    <3> HIDE DEF t
    <3>2. (t \o old) \o incoming = t \o (old \o incoming)
      BY <3>1, ConcatAssociative
    <3> QED
      BY <2>1, <3>2 DEF t
  <2>5. split.reads \in Reads
    <3>1. data \in Seq(Bytes) /\ Len(old) \in Nat /\ Len(incoming) \in Nat
          /\ Len(data) = Len(old) + Len(incoming)
      BY LenProperties, ConcatProperties
    <3> HIDE DEF data
    <3>2. Len(old) \in 0..Len(data) /\ 0 \in 0..Len(data)
      BY <3>1
    <3> QED
      BY <3>1, <3>2, SplitTypes
  <2> HIDE DEF split, p, data
  <2> DEFINE reads == had \o split.reads
  <2>6. ASSUME NEW k \in DOMAIN reads PROVE Clean(reads[k])
    <3>1. /\ reads \in Seq(Chunk) /\ Len(reads) = Len(had) + Len(split.reads)
          /\ \A i \in 1 .. Len(reads) : reads[i] = IF i <= Len(had) THEN had[i]
                                                   ELSE split.reads[i - Len(had)]
      <4>1. had \in Seq(Chunk) /\ split.reads \in Seq(Chunk)
        BY <2>5 DEF Reads, Chunk
      <4> QED
        BY <4>1, ConcatProperties
    <3>2. /\ Len(had) \in Nat /\ Len(split.reads) \in Nat
          /\ DOMAIN had = 1..Len(had) /\ DOMAIN split.reads = 1..Len(split.reads)
      BY <2>5, LenProperties DEF Reads
    <3>3. k \in 1..Len(reads)
      BY <3>1, LenProperties
    <3> HIDE DEF reads
    <3>4. CASE k <= Len(had)
      <4>1. k \in DOMAIN had
        BY <3>2, <3>3, <3>4
      <4> QED
        BY <4>1, <3>1, <3>3, <3>4, <2>1
    <3>5. CASE ~(k <= Len(had))
      <4>1. k - Len(had) \in DOMAIN split.reads
        BY <3>1, <3>2, <3>3, <3>5
      <4> QED
        BY <4>1, <3>1, <3>3, <3>5, <2>3
    <3> QED
      BY <3>4, <3>5
  <2>7. p.heard = reads /\ p.buffer = split.rest
    BY <2>2
  <2> HIDE DEF reads
  <2>8. Heard(kind, p.heard, p.buffer, all \o incoming)
    <3>1. Told(reads) \o split.rest = all \o incoming
      BY <2>3, <2>4 DEF reads
    <3> QED
      BY <1>2, <2>3, <2>6, <2>7, <3>1 DEF Heard
  <2> QED
    BY <2>8 DEF p
<1>3. CASE kind \in {"collect", "live"}
  <2>1. p = [heard |-> IF kind = "live" THEN <<data>> ELSE had, buffer |-> data]
    BY <1>3 DEF ParseBytes
  <2>2. all = old
    BY <1>3 DEF Heard
  <2>3. data = all \o incoming
    BY <2>2
  <2> HIDE DEF data, p
  <2>4. p.heard = (IF kind = "live" THEN <<data>> ELSE had) /\ p.buffer = data
    BY <2>1
  <2>5. Heard(kind, p.heard, p.buffer, data)
    BY <1>1, <1>3, <2>4 DEF Heard
  <2> QED
    BY <2>3, <2>5 DEF p
<1> QED
  BY <1>2, <1>3 DEF Kinds

\* A parser that got all there was and is told of its end tells all.
LEMMA EndHears ==
    ASSUME NEW kind \in Kinds, kind # "none", NEW had \in Reads, NEW kept \in Seq(Bytes),
           NEW all \in Seq(Bytes), Heard(kind, had, kept, all)
    PROVE  HeardAll(kind, StreamEnded(kind, had, kept), all)
<1>1. CASE kind = "split" /\ kept = <<>>
  <2>1. StreamEnded(kind, had, kept) = had
    BY <1>1 DEF StreamEnded
  <2>2. Told(had) \in Seq(Bytes) /\ all = Told(had) \o kept /\ \A k \in DOMAIN had : Clean(had[k])
    BY <1>1, ToldFacts DEF Heard
  <2>3. all = Told(had)
    BY <2>2, <1>1, ConcatEmptySeq
  <2>4. all = Joined(had) \/ all = Joined(had) \o Marker
    BY <2>3, JoinedFacts DEF Told
  <2> QED
    BY <1>1, <2>1, <2>2, <2>4 DEF HeardAll
<1>2. CASE kind = "split" /\ kept # <<>>
  <2> DEFINE more == Append(had, kept)
  <2>1. StreamEnded(kind, had, kept) = more
    BY <1>2 DEF StreamEnded
  <2>2. all = Told(had) \o kept /\ Clean(kept) /\ \A k \in DOMAIN had : Clean(had[k])
    BY <1>2 DEF Heard
  <2>3. all = Joined(more)
    <3>1. CASE had = <<>>
      <4>1. more = <<kept>> /\ Told(had) = <<>>
        BY <3>1 DEF Told
      <4>2. <<>> \o kept = kept
        BY ConcatEmptySeq
      <4> QED
        BY <4>1, <4>2, <2>2, JoinedFacts
    <3>2. CASE had # <<>>
      <4>1. Joined(more) = Joined(had) \o Marker \o kept
        BY <3>2, JoinedFacts
      <4>2. Told(had) = Joined(had) \o Marker
        BY <3>2 DEF Told
      <4> QED
        BY <4>1, <4>2, <2>2
    <3> QED
      BY <3>1, <3>2
  <2>4. ASSUME NEW k \in DOMAIN more PROVE Clean(more[k])
    <3>1. had \in Seq(Chunk) /\ kept \in Chunk
      BY DEF Reads, Chunk
    <3>2. /\ more \in Seq(Chunk) /\ Len(more) = Len(had) + 1 /\ more[Len(had) + 1] = kept
          /\ \A i \in 1..Len(had) : more[i] = had[i]
      BY <3>1, AppendProperties
    <3>3. Len(had) \in Nat /\ DOMAIN had = 1..Len(had) /\ DOMAIN more = 1..Len(more)
      BY <3>1, <3>2, LenProperties
    <3> HIDE DEF more
    <3>4. CASE k = Len(had) + 1
      BY <3>4, <3>2, <2>2
    <3>5. CASE k # Len(had) + 1
      <4>1. k \in DOMAIN had
        BY <3>2, <3>3, <3>5
      <4> QED
        BY <4>1, <3>2, <3>3, <2>2
    <3> QED
      BY <3>4, <3>5
  <2> HIDE DEF more
  <2> QED
    BY <1>2, <2>1, <2>3, <2>4 DEF HeardAll
<1>3. CASE kind = "collect"
  <2>1. StreamEnded(kind, had, kept) = <<kept>> /\ all = kept
    BY <1>3 DEF StreamEnded, Heard
  <2>2. Joined(<<kept>>) = kept
    BY JoinedFacts
  <2> QED
    BY <1>3, <2>1, <2>2 DEF HeardAll
<1>4. CASE kind = "live"
  <2>1. StreamEnded(kind, had, kept) = had /\ all = kept
        /\ had = IF kept = <<>> THEN <<>> ELSE <<kept>>
    BY <1>4 DEF StreamEnded, Heard
  <2>2. Joined(<<kept>>) = kept /\ Joined(<<>>) = <<>>
    BY JoinedFacts
  <2> QED
    BY <1>4, <2>1, <2>2 DEF HeardAll
<1> QED
  BY <1>1, <1>2, <1>3, <1>4 DEF Kinds

LEMMA EndTypes ==
    ASSUME NEW kind, NEW had \in Reads, NEW kept \in Seq(Bytes)
    PROVE  StreamEnded(kind, had, kept) \in Reads
<1>1. Append(had, kept) \in Reads
  BY AppendProperties DEF Reads
<1>2. <<kept>> \in Reads
  BY DEF Reads
<1> QED
  BY <1>1, <1>2 DEF StreamEnded

-----------------------------------------------------------------------------
(* The invariant.                                                          *)

\* The parser of s has got what was read of what the process wrote.
Follows(s) ==
    /\ open[s] /\ parser[s] # "none"
    /\ \E all \in Seq(Bytes) : /\ written[s] = all \o pipe[s]
                               /\ Heard(parser[s], heard[s], buffer[s], all)

Ended(s) == whole[s] => HeardAll(parser[s], heard[s], written[s])

Closing == {"stdout", "silent", "stderr", "stderr silent", "exited", "running", "pid"}

\* What QML knows while the shell is idle, and what it is about to be told.
Knows ==
    /\ at = "idle" => /\ child.phase = "none" => ~knows.running /\ (knows.pid => failed)
                      /\ child.phase \in {"running", "ended"} => knows.running /\ knows.pid
    /\ at = "started" => child.phase = "running" /\ knows.running /\ knows.pid
    /\ at = "failed" => ~knows.running /\ failed
    /\ at \in Closing \cup {"failed"} => child.phase \in {"none", "starting"}
    /\ at \in {"running", "pid"} => (child.phase = "none" => ~knows.running)
    /\ at = "pid" => (child.phase = "none" => ~knows.pid)

Empties == child.phase = "starting" => buffer = Nothing /\ pipe = Nothing

Going == child.phase \in {"running", "ended"} => \A s \in Streams : whole[s] => Follows(s)

\* The end of stdout is told before that of stderr.
Ending ==
    /\ at \in {"stdout", "silent"} =>
           /\ Ended("stdout")
           /\ whole["stderr"] => /\ parser["stderr"] # "none"
                                 /\ Heard(parser["stderr"], heard["stderr"], buffer["stderr"],
                                          written["stderr"])
    /\ at \in {"stderr", "stderr silent", "exited"} => Ended("stdout") /\ Ended("stderr")

ProcessInv == TypeOK /\ Knows /\ Empties /\ Going /\ Ending

LEMMA NothingFacts == Nothing \in [Streams -> Seq(Bytes)] /\ Nothing \in [Streams -> Reads]
                      /\ Nothing["stdout"] = <<>> /\ Nothing["stderr"] = <<>>
<1>1. <<>> \in Seq(Bytes) /\ <<>> \in Reads
  BY EmptySeq DEF Reads
<1> QED
  BY <1>1 DEF Nothing, Streams

LEMMA ProcessInitKeeps == Init => ProcessInv
<1> SUFFICES ASSUME Init PROVE ProcessInv
  OBVIOUS
<1>1. TypeOK
  <2>1. heard \in [Streams -> Seq(Seq(Bytes))] /\ written \in [Streams -> Seq(Bytes)]
        /\ buffer \in [Streams -> Seq(Bytes)] /\ pipe \in [Streams -> Seq(Bytes)]
    BY NothingFacts DEF Init, Reads
  <2>2. parser \in [Streams -> Kinds]
    BY ConstantsAssumption DEF Init
  <2>3. child \in [phase : {"none", "starting", "running", "ended"},
                   runs : Commands \cup {NoCommand}, told : BOOLEAN]
    BY DEF Init, NoChild
  <2>4. calls \in 0 .. MaxCalls
    BY ConstantsAssumption DEF Init
  <2> QED
    BY <2>1, <2>2, <2>3, <2>4 DEF Init, TypeOK
<1> QED
  BY <1>1 DEF Init, ProcessInv, Knows, Empties, Going, Ending, NoChild, Closing

-----------------------------------------------------------------------------
(* Calls.                                                                  *)

\* A call that starts nothing leaves the streams as they were.
LEMMA StaysKeeps ==
    ASSUME ProcessInv,
           child' = child \/ child' = [child EXCEPT !.told = TRUE],
           UNCHANGED <<streamVars, whole, parser, written, heard, knows, failed, at>>,
           target' \in BOOLEAN, post' \in BOOLEAN,
           command' \in Commands \cup {NoCommand}, calls' \in 0 .. MaxCalls
    PROVE  ProcessInv'
<1>0. child.phase' = child.phase
      /\ child' \in [phase : {"none", "starting", "running", "ended"},
                     runs : Commands \cup {NoCommand}, told : BOOLEAN]
  BY DEF ProcessInv, TypeOK
<1>1. TypeOK'
  BY <1>0 DEF ProcessInv, TypeOK, streamVars
<1>2. Knows'
  BY <1>0 DEF ProcessInv, Knows
<1>3. Empties'
  BY <1>0 DEF ProcessInv, Empties, streamVars
<1>4. Going'
  BY <1>0 DEF ProcessInv, Going, Follows, streamVars
<1>5. Ending'
  BY DEF ProcessInv, Ending, Ended, streamVars
<1> QED
  BY <1>1, <1>2, <1>3, <1>4, <1>5 DEF ProcessInv

\* One that starts the process begins them anew, whichever signal is handled.
LEMMA StartKeeps ==
    ASSUME ProcessInv, NEW wanted \in BOOLEAN, NEW cmd \in Commands \cup {NoCommand}, NEW ready,
           StartIfReady(wanted, cmd, ready),
           at' = at \/ (at = "pid" /\ at' = "idle"),
           at # "silent",
           UNCHANGED <<parser, written, heard, knows, failed>>,
           post' \in BOOLEAN, command' \in Commands \cup {NoCommand}, calls' \in 0 .. MaxCalls
    PROVE  ProcessInv'
<1>0. /\ parser \in [Streams -> Kinds] /\ whole \in [Streams -> BOOLEAN]
      /\ "stdout" \in Streams /\ "stderr" \in Streams
      /\ child \in [phase : {"none", "starting", "running", "ended"},
                    runs : Commands \cup {NoCommand}, told : BOOLEAN]
  BY DEF ProcessInv, TypeOK, Streams
<1>a. at' = at \/ (at = "pid" /\ at' = "idle" /\ child.phase \in {"none", "starting"})
  BY DEF ProcessInv, Knows, Closing
<1>1. CASE IsRunning \/ ~ready \/ ~wanted \/ cmd = NoCommand
  <2>0. target' = wanted /\ UNCHANGED <<child, streamVars, whole>>
    BY <1>1 DEF StartIfReady
  <2>1. TypeOK'
    BY <2>0, <1>a DEF ProcessInv, TypeOK, streamVars
  <2>2. Knows'
    BY <2>0, <1>a DEF ProcessInv, Knows, Closing
  <2>3. Empties'
    BY <2>0 DEF ProcessInv, Empties, streamVars
  <2>4. Going'
    BY <2>0 DEF ProcessInv, Going, Follows, streamVars
  <2>5. Ending'
    BY <2>0, <1>a DEF ProcessInv, Ending, Ended, streamVars
  <2> QED
    BY <2>1, <2>2, <2>3, <2>4, <2>5 DEF ProcessInv
<1>2. CASE ~(IsRunning \/ ~ready \/ ~wanted \/ cmd = NoCommand)
  <2>0. /\ target' = FALSE
        /\ child' = [phase |-> "starting", runs |-> cmd, told |-> FALSE]
        /\ buffer' = Nothing /\ pipe' = Nothing
        /\ open' = [s \in Streams |-> parser[s] # "none"]
        /\ whole' = IF at = "stdout" THEN [whole EXCEPT !["stderr"] = FALSE] ELSE whole
        /\ child.phase = "none"
    BY <1>2 DEF StartIfReady, IsRunning
  <2>1. TypeOK'
    <3>1. whole' \in [Streams -> BOOLEAN] /\ open' \in [Streams -> BOOLEAN]
      BY <2>0, <1>0
    <3>2. buffer' \in [Streams -> Seq(Bytes)] /\ pipe' \in [Streams -> Seq(Bytes)]
      BY <2>0, NothingFacts
    <3>3. child' \in [phase : {"none", "starting", "running", "ended"},
                      runs : Commands \cup {NoCommand}, told : BOOLEAN]
      BY <2>0
    <3> QED
      BY <2>0, <3>1, <3>2, <3>3, <1>a DEF ProcessInv, TypeOK
  <2>2. Knows'
    BY <2>0, <1>a DEF ProcessInv, Knows, Closing
  <2>3. Empties'
    BY <2>0 DEF Empties
  <2>4. Going'
    BY <2>0 DEF Going
  <2>5. whole'["stdout"] = whole["stdout"] /\ (whole'["stderr"] => at # "stdout" /\ whole["stderr"])
    BY <2>0, <1>0
  <2>6. Ending'
    BY <2>5, <1>a DEF ProcessInv, Ending, Ended
  <2> QED
    BY <2>1, <2>2, <2>3, <2>4, <2>6 DEF ProcessInv
<1> QED
  BY <1>1, <1>2

\* A call of QML counts, and comes from a handler.
LEMMA CallFacts ==
    ASSUME ProcessInv, Call
    PROVE  calls' \in 0 .. MaxCalls /\ at # "silent" /\ at # "stderr silent"
<1>1. calls \in 0 .. MaxCalls /\ calls < MaxCalls /\ calls' = calls + 1 /\ MaxCalls \in Nat
  BY ConstantsAssumption DEF ProcessInv, TypeOK, Call
<1>2. calls' \in 0 .. MaxCalls
  BY <1>1
<1> QED
  BY <1>2 DEF Call

LEMMA CallsKeep ==
    ASSUME ProcessInv,
           \/ Run \/ Stop \/ PostReload \/ FinishStart
           \/ \E c \in Commands \cup {NoCommand} : SetCommand(c) \/ Exec(c)
    PROVE  ProcessInv'
<1>0. /\ target \in BOOLEAN /\ command \in Commands \cup {NoCommand} /\ post \in BOOLEAN
      /\ calls \in 0 .. MaxCalls
  BY DEF ProcessInv, TypeOK
<1>1. CASE Run
  <2>1. /\ StartIfReady(TRUE, command, post) /\ Call
        /\ UNCHANGED <<command, post, parser, at, written, heard, knows, failed>>
    BY <1>1 DEF Run, CallFrame
  <2>2. calls' \in 0 .. MaxCalls /\ at # "silent"
    BY <2>1, CallFacts
  <2> QED
    BY <2>1, <2>2, <1>0, StartKeeps
<1>2. CASE Stop
  <2>1. /\ Call /\ target' = FALSE
        /\ child' = child \/ child' = [child EXCEPT !.told = TRUE]
        /\ UNCHANGED <<command, post, streamVars, whole, parser, at, written, heard, knows, failed>>
    BY <1>2 DEF Stop, CallFrame
  <2>2. calls' \in 0 .. MaxCalls
    BY <2>1, CallFacts
  <2> QED
    BY <2>1, <2>2, <1>0, StaysKeeps
<1>3. CASE PostReload
  <2>1. /\ StartIfReady(target, command, TRUE) /\ post' = TRUE /\ at # "silent"
        /\ UNCHANGED <<command, calls, parser, at, written, heard, knows, failed>>
    BY <1>3 DEF PostReload, CallFrame
  <2> QED
    BY <2>1, <1>0, StartKeeps
<1>4. CASE FinishStart
  <2>1. /\ StartIfReady(target, command, post) /\ at = "pid" /\ at' = "idle" /\ at # "silent"
        /\ UNCHANGED <<command, post, calls, parser, written, heard, knows, failed>>
    BY <1>4 DEF FinishStart
  <2> QED
    BY <2>1, <1>0, StartKeeps
<1>5. ASSUME NEW c \in Commands \cup {NoCommand}, SetCommand(c) PROVE ProcessInv'
  <2>1. /\ StartIfReady(target, c, post) /\ Call /\ command' = c
        /\ UNCHANGED <<post, parser, at, written, heard, knows, failed>>
    BY <1>5 DEF SetCommand, CallFrame
  <2>2. calls' \in 0 .. MaxCalls /\ at # "silent"
    BY <2>1, CallFacts
  <2> QED
    BY <2>1, <2>2, <1>0, StartKeeps
<1>6. ASSUME NEW c \in Commands \cup {NoCommand}, Exec(c) PROVE ProcessInv'
  <2>1. /\ Call /\ command' = c
        /\ UNCHANGED <<post, parser, at, written, heard, knows, failed>>
    BY <1>6 DEF Exec, CallFrame
  <2>2. calls' \in 0 .. MaxCalls /\ at # "silent"
    BY <2>1, CallFacts
  <2>3. CASE IsRunning
    <3>1. /\ target' = (c # NoCommand) /\ child' = [child EXCEPT !.told = TRUE]
          /\ UNCHANGED <<streamVars, whole>>
      BY <1>6, <2>3 DEF Exec
    <3>2. target' \in BOOLEAN
      BY <3>1
    <3> QED
      BY <2>1, <2>2, <3>1, <3>2, <1>0, StaysKeeps
  <2>4. CASE ~IsRunning
    <3>1. StartIfReady(c # NoCommand, c, post)
      BY <1>6, <2>4 DEF Exec
    <3>2. (c # NoCommand) \in BOOLEAN
      OBVIOUS
    <3> QED
      BY <2>1, <2>2, <3>1, <3>2, <1>0, StartKeeps
  <2> QED
    BY <2>3, <2>4
<1> QED
  BY <1>1, <1>2, <1>3, <1>4, <1>5, <1>6

-----------------------------------------------------------------------------
(* Parsers that are set, and the process.                                  *)

\* What QML makes of one stream is left out of account from then on; the other
\* stream is as it was.
LEMMA OtherStream ==
    ASSUME ProcessInv, NEW s \in Streams, TypeOK', Empties',
           UNCHANGED <<child, at, written, knows, failed>>,
           whole' = [whole EXCEPT ![s] = FALSE],
           \A t \in Streams \ {s} : /\ parser'[t] = parser[t] /\ buffer'[t] = buffer[t]
                                    /\ pipe'[t] = pipe[t] /\ open'[t] = open[t]
                                    /\ heard'[t] = heard[t]
    PROVE  ProcessInv'
<1>0. /\ "stdout" \in Streams /\ "stderr" \in Streams /\ whole \in [Streams -> BOOLEAN]
  BY DEF ProcessInv, TypeOK, Streams
<1>1. \A t \in Streams : whole'[t] => t \in Streams \ {s} /\ whole[t]
  BY <1>0
<1>2. Knows'
  BY DEF ProcessInv, Knows
<1>3. Going'
  <2> SUFFICES ASSUME child.phase' \in {"running", "ended"}, NEW t \in Streams, whole'[t]
               PROVE  Follows(t)'
    BY DEF Going
  <2>1. t \in Streams \ {s} /\ Follows(t)
    BY <1>1 DEF ProcessInv, Going
  <2> QED
    BY <2>1 DEF Follows
<1>4. \A t \in Streams : Ended(t) => Ended(t)'
  BY <1>1 DEF Ended
<1>5. Ending'
  <2>1. Ending /\ at' = at /\ written' = written
    BY DEF ProcessInv
  <2>2. (Ended("stdout") => Ended("stdout")') /\ (Ended("stderr") => Ended("stderr")')
    BY <1>0, <1>4
  <2>3. ASSUME whole'["stderr"]
        PROVE  /\ whole["stderr"] /\ parser'["stderr"] = parser["stderr"]
               /\ heard'["stderr"] = heard["stderr"] /\ buffer'["stderr"] = buffer["stderr"]
    BY <1>0, <1>1, <2>3
  <2> QED
    BY <2>1, <2>2, <2>3 DEF Ending
<1> QED
  BY <1>2, <1>3, <1>5 DEF ProcessInv

LEMMA SetParserKeeps ==
    ASSUME ProcessInv, NEW s \in Streams, NEW kind \in NewParsers, SetParser(s, kind)
    PROVE  ProcessInv'
<1> DEFINE cuts == parser[s] # "none" /\ IsRunning
           kept == IF cuts THEN <<>> ELSE buffer[s]
           parsed == ParseBytes(kind, heard[s], kept, kept, Len(kept))
<1>0. /\ parser \in [Streams -> Kinds] /\ whole \in [Streams -> BOOLEAN]
      /\ open \in [Streams -> BOOLEAN] /\ heard \in [Streams -> Reads]
      /\ pipe \in [Streams -> Seq(Bytes)] /\ buffer \in [Streams -> Seq(Bytes)]
      /\ kind \in Kinds
  BY ConstantsAssumption DEF ProcessInv, TypeOK, Reads
<1>1. /\ Call
      /\ open' = [open EXCEPT ![s] = @ /\ ~cuts]
      /\ pipe' = [pipe EXCEPT ![s] = IF cuts THEN <<>> ELSE @]
      /\ IF kind # "none" /\ kept # <<>>
         THEN /\ heard' = [heard EXCEPT ![s] = parsed.heard]
              /\ buffer' = [buffer EXCEPT ![s] = parsed.buffer]
         ELSE /\ buffer' = [buffer EXCEPT ![s] = kept]
              /\ heard' = heard
      /\ parser' = [parser EXCEPT ![s] = kind]
      /\ whole' = [whole EXCEPT ![s] = FALSE]
      /\ UNCHANGED <<child, target, command, post, at, written, knows, failed>>
  BY DEF SetParser
<1>2. kept \in Seq(Bytes) /\ <<>> \in Seq(Bytes)
  BY <1>0, EmptySeq
<1>3. parsed.heard \in Reads /\ parsed.buffer \in Seq(Bytes)
  <2> HIDE DEF kept
  <2>1. Len(kept) \in 0..Len(kept)
    BY <1>2, LenProperties
  <2> QED
    BY <2>1, <1>0, <1>2, ParseTypes
<1>4. calls' \in 0 .. MaxCalls
  BY <1>1, CallFacts
<1> HIDE DEF parsed
<1>5. /\ buffer' \in [Streams -> Seq(Bytes)] /\ heard' \in [Streams -> Reads]
      /\ pipe' \in [Streams -> Seq(Bytes)]
  <2> HIDE DEF kept, cuts
  <2>1. pipe' \in [Streams -> Seq(Bytes)]
    BY <1>0, <1>1, <1>2
  <2>2. CASE kind # "none" /\ kept # <<>>
    BY <2>1, <2>2, <1>0, <1>1, <1>3
  <2>3. CASE ~(kind # "none" /\ kept # <<>>)
    BY <2>1, <2>3, <1>0, <1>1, <1>2
  <2> QED
    BY <2>2, <2>3
<1>6. open' \in [Streams -> BOOLEAN] /\ parser' \in [Streams -> Kinds]
      /\ whole' \in [Streams -> BOOLEAN]
  <2> HIDE DEF kept, cuts
  <2> QED
    BY <1>0, <1>1
<1>7. TypeOK'
  <2>1. heard' \in [Streams -> Seq(Seq(Bytes))]
    BY <1>5 DEF Reads
  <2>2. at' \in {"idle", "started", "failed", "stdout", "silent", "stderr", "stderr silent",
                 "exited", "running", "pid"}
    BY <1>1 DEF ProcessInv, TypeOK
  <2>3. child' \in [phase : {"none", "starting", "running", "ended"},
                   runs : Commands \cup {NoCommand}, told : BOOLEAN]
    BY <1>1 DEF ProcessInv, TypeOK
  <2> QED
    BY <1>1, <1>4, <1>5, <1>6, <2>1, <2>2, <2>3 DEF ProcessInv, TypeOK
<1>8. \A t \in Streams \ {s} : /\ parser'[t] = parser[t] /\ buffer'[t] = buffer[t]
                               /\ pipe'[t] = pipe[t] /\ open'[t] = open[t]
                               /\ heard'[t] = heard[t]
  <2> HIDE DEF kept, cuts
  <2> QED
    BY <1>0, <1>1
<1>9. Empties'
  <2> SUFFICES ASSUME child.phase = "starting" PROVE buffer' = Nothing /\ pipe' = Nothing
    BY <1>1 DEF Empties
  <2>1. buffer = Nothing /\ pipe = Nothing
    BY DEF ProcessInv, Empties
  <2>2. kept = <<>> /\ buffer[s] = <<>> /\ pipe[s] = <<>>
    BY <2>1 DEF Nothing
  <2>3. buffer' = [buffer EXCEPT ![s] = <<>>]
    BY <1>1, <2>2
  <2>4. pipe' = [pipe EXCEPT ![s] = <<>>]
    BY <1>1, <2>2
  <2>5. buffer' = buffer /\ pipe' = pipe
    BY <1>0, <2>2, <2>3, <2>4
  <2> QED
    BY <2>1, <2>5
<1> QED
  BY <1>1, <1>7, <1>8, <1>9, OtherStream

LEMMA ParserDestroyedKeeps ==
    ASSUME ProcessInv, NEW s \in Streams, ParserDestroyed(s)
    PROVE  ProcessInv'
<1>0. parser \in [Streams -> Kinds] /\ whole \in [Streams -> BOOLEAN] /\ "none" \in Kinds
  BY DEF ProcessInv, TypeOK, Kinds
<1>1. /\ Call
      /\ parser' = [parser EXCEPT ![s] = "none"]
      /\ whole' = [whole EXCEPT ![s] = FALSE]
      /\ UNCHANGED <<child, target, command, post, buffer, pipe, open, at, written, heard,
                     knows, failed>>
  BY DEF ParserDestroyed, streamVars
<1>2. calls' \in 0 .. MaxCalls
  BY <1>1, CallFacts
<1>3. parser' \in [Streams -> Kinds] /\ whole' \in [Streams -> BOOLEAN]
  BY <1>0, <1>1
<1>4. TypeOK'
  <2>1. at' \in {"idle", "started", "failed", "stdout", "silent", "stderr", "stderr silent",
                 "exited", "running", "pid"}
    BY <1>1 DEF ProcessInv, TypeOK
  <2>2. child' \in [phase : {"none", "starting", "running", "ended"},
                   runs : Commands \cup {NoCommand}, told : BOOLEAN]
    BY <1>1 DEF ProcessInv, TypeOK
  <2> QED
    BY <1>1, <1>2, <1>3, <2>1, <2>2 DEF ProcessInv, TypeOK
<1>5. Empties'
  BY <1>1 DEF ProcessInv, Empties
<1>6. \A t \in Streams \ {s} : parser'[t] = parser[t]
  BY <1>0, <1>1
<1> QED
  BY <1>1, <1>4, <1>5, <1>6, OtherStream

LEMMA ChildWritesKeeps ==
    ASSUME ProcessInv, NEW s \in Streams, NEW b \in Bytes, ChildWrites(s, b)
    PROVE  ProcessInv'
<1>0. /\ written \in [Streams -> Seq(Bytes)] /\ pipe \in [Streams -> Seq(Bytes)]
      /\ child.phase = "running" /\ at = "idle"
      /\ written' = [written EXCEPT ![s] = Append(@, b)]
      /\ pipe' = [pipe EXCEPT ![s] = Append(@, b)]
      /\ UNCHANGED <<child, target, command, post, parser, buffer, open, at, heard, whole,
                     knows, failed, calls>>
  BY DEF ProcessInv, TypeOK, ChildWrites, SystemFrame
<1>1. /\ written[s] \in Seq(Bytes) /\ pipe[s] \in Seq(Bytes)
      /\ Append(written[s], b) \in Seq(Bytes) /\ Append(pipe[s], b) \in Seq(Bytes)
  BY <1>0, AppendProperties
<1>2. /\ written' \in [Streams -> Seq(Bytes)] /\ pipe' \in [Streams -> Seq(Bytes)]
      /\ written'[s] = Append(written[s], b) /\ pipe'[s] = Append(pipe[s], b)
      /\ \A t \in Streams \ {s} : written'[t] = written[t] /\ pipe'[t] = pipe[t]
  BY <1>0, <1>1
<1>3. TypeOK'
  BY <1>0, <1>2 DEF ProcessInv, TypeOK
<1>4. Knows'
  BY <1>0 DEF ProcessInv, Knows
<1>5. Empties' /\ Ending'
  BY <1>0 DEF Empties, Ending
<1>6. ASSUME NEW t \in Streams, whole[t] PROVE Follows(t)'
  <2>1. Follows(t)
    BY <1>0, <1>6 DEF ProcessInv, Going
  <2>2. CASE t # s
    BY <2>1, <2>2, <1>0, <1>2 DEF Follows
  <2>3. CASE t = s
    <3>1. PICK all \in Seq(Bytes) : /\ written[s] = all \o pipe[s]
                                    /\ Heard(parser[s], heard[s], buffer[s], all)
      BY <2>1, <2>3 DEF Follows
    <3>2. Append(all \o pipe[s], b) = all \o Append(pipe[s], b)
      <4> DEFINE q == pipe[s]
      <4>1. q \in Seq(Bytes)
        BY <1>1
      <4> HIDE DEF q
      <4>2. <<b>> \in Seq(Bytes) /\ all \o q \in Seq(Bytes)
        BY <4>1, ConcatProperties
      <4>3. Append(all \o q, b) = (all \o q) \o <<b>> /\ Append(q, b) = q \o <<b>>
        BY <4>1, <4>2, AppendIsConcat
      <4>4. (all \o q) \o <<b>> = all \o (q \o <<b>>)
        BY <4>1, <4>2, ConcatAssociative
      <4> QED
        BY <4>3, <4>4 DEF q
    <3>3. written'[s] = all \o pipe'[s]
      BY <3>1, <3>2, <1>2
    <3> QED
      BY <2>1, <2>3, <3>1, <3>3, <1>0 DEF Follows
  <2> QED
    BY <2>2, <2>3
<1>7. Going'
  BY <1>0, <1>6 DEF Going
<1> QED
  BY <1>3, <1>4, <1>5, <1>7 DEF ProcessInv

LEMMA ChildEndsKeeps ==
    ASSUME ProcessInv, ChildEnds
    PROVE  ProcessInv'
<1>0. /\ child.phase = "running" /\ at = "idle"
      /\ child' = [child EXCEPT !.phase = "ended"]
      /\ UNCHANGED <<target, command, post, parser, buffer, open, at, heard, whole,
                     knows, failed, calls, written, pipe>>
  BY DEF ChildEnds, SystemFrame
<1>1. child' \in [phase : {"none", "starting", "running", "ended"},
                  runs : Commands \cup {NoCommand}, told : BOOLEAN]
      /\ child.phase' = "ended"
  BY <1>0 DEF ProcessInv, TypeOK
<1>2. TypeOK'
  BY <1>0, <1>1 DEF ProcessInv, TypeOK
<1>3. Knows'
  BY <1>0, <1>1 DEF ProcessInv, Knows, Closing
<1>4. Empties' /\ Ending'
  BY <1>0, <1>1 DEF Empties, Ending
<1>5. Going'
  BY <1>0, <1>1 DEF ProcessInv, Going, Follows
<1> QED
  BY <1>2, <1>3, <1>4, <1>5 DEF ProcessInv

-----------------------------------------------------------------------------
(* The handlers of QProcess.                                               *)

LEMMA OnStartedKeeps ==
    ASSUME ProcessInv, OnStarted
    PROVE  ProcessInv'
<1>0. /\ child.phase = "starting"
      /\ child' = [child EXCEPT !.phase = "running"]
      /\ knows' = [running |-> TRUE, pid |-> TRUE]
      /\ at' = "started" /\ failed' = FALSE
      /\ written' = Nothing /\ heard' = Nothing
      /\ whole' = [s \in Streams |-> open[s] /\ parser[s] # "none"]
      /\ UNCHANGED <<target, command, post, parser, buffer, pipe, open, calls>>
  BY DEF OnStarted, streamVars
<1>1. child' \in [phase : {"none", "starting", "running", "ended"},
                  runs : Commands \cup {NoCommand}, told : BOOLEAN]
      /\ child.phase' = "running"
  BY <1>0 DEF ProcessInv, TypeOK
<1>2. buffer = Nothing /\ pipe = Nothing /\ parser \in [Streams -> Kinds]
      /\ open \in [Streams -> BOOLEAN]
  BY <1>0 DEF ProcessInv, TypeOK, Empties
<1>3. TypeOK'
  <2>1. heard' \in [Streams -> Seq(Seq(Bytes))]
    BY <1>0, NothingFacts DEF Reads
  <2>2. written' \in [Streams -> Seq(Bytes)] /\ whole' \in [Streams -> BOOLEAN]
    BY <1>0, <1>2, NothingFacts
  <2>3. at' \in {"idle", "started", "failed", "stdout", "silent", "stderr", "stderr silent",
                 "exited", "running", "pid"}
    BY <1>0
  <2> QED
    BY <1>0, <1>1, <2>1, <2>2, <2>3 DEF ProcessInv, TypeOK
<1>4. Knows'
  BY <1>0, <1>1 DEF Knows, Closing
<1>5. Empties' /\ Ending'
  BY <1>0, <1>1 DEF Empties, Ending
<1>6. ASSUME NEW s \in Streams, whole'[s] PROVE Follows(s)'
  <2>1. parser'[s] # "none" /\ open'[s]
    BY <1>0, <1>6
  <2>2. written'[s] = <<>> /\ heard'[s] = <<>> /\ buffer'[s] = <<>> /\ pipe'[s] = <<>>
    BY <1>0, <1>2 DEF Nothing
  <2>3. <<>> \in Seq(Bytes) /\ <<>> = <<>> \o <<>>
    BY EmptySeq, ConcatEmptySeq
  <2>4. \A kind : Heard(kind, <<>>, <<>>, <<>>)
    <3>1. Told(<<>>) = <<>>
      BY DEF Told
    <3>2. Clean(<<>>)
      BY MarkerFacts DEF Clean
    <3> QED
      BY <3>1, <3>2, <2>3 DEF Heard
  <2> QED
    BY <2>1, <2>2, <2>3, <2>4 DEF Follows
<1>7. Going'
  BY <1>6 DEF Going
<1> QED
  BY <1>3, <1>4, <1>5, <1>7 DEF ProcessInv

LEMMA OnErrorOccurredKeeps ==
    ASSUME ProcessInv, OnErrorOccurred
    PROVE  ProcessInv'
<1>0. /\ child' = NoChild
      /\ knows' = [knows EXCEPT !.running = FALSE]
      /\ at' = "failed" /\ failed' = TRUE
      /\ UNCHANGED <<target, command, post, parser, buffer, pipe, open, written, heard, whole,
                     calls>>
  BY DEF OnErrorOccurred, streamVars
<1>1. child' \in [phase : {"none", "starting", "running", "ended"},
                  runs : Commands \cup {NoCommand}, told : BOOLEAN]
      /\ child.phase' = "none"
  BY <1>0 DEF NoChild
<1>2. knows' \in [running : BOOLEAN, pid : BOOLEAN] /\ ~knows.running'
  BY <1>0 DEF ProcessInv, TypeOK
<1>3. TypeOK'
  <2>1. at' \in {"idle", "started", "failed", "stdout", "silent", "stderr", "stderr silent",
                 "exited", "running", "pid"}
    BY <1>0
  <2> QED
    BY <1>0, <1>1, <1>2, <2>1 DEF ProcessInv, TypeOK
<1>4. Knows'
  BY <1>0, <1>1, <1>2 DEF Knows, Closing
<1>5. Empties' /\ Ending' /\ Going'
  BY <1>0, <1>1 DEF Empties, Ending, Going
<1> QED
  BY <1>3, <1>4, <1>5 DEF ProcessInv

LEMMA ReturnKeeps ==
    ASSUME ProcessInv, Return
    PROVE  ProcessInv'
<1>0. /\ at \in {"started", "failed"} /\ at' = "idle"
      /\ UNCHANGED <<child, target, command, post, parser, buffer, pipe, open, written, heard,
                     whole, knows, failed, calls>>
  BY DEF Return, streamVars, history
<1>1. TypeOK'
  <2>1. at' \in {"idle", "started", "failed", "stdout", "silent", "stderr", "stderr silent",
                 "exited", "running", "pid"}
    BY <1>0
  <2> QED
    BY <1>0, <2>1 DEF ProcessInv, TypeOK
<1>2. Knows'
  BY <1>0 DEF ProcessInv, Knows, Closing
<1>3. Empties' /\ Ending'
  BY <1>0 DEF ProcessInv, Empties, Ending
<1>4. Going'
  BY <1>0 DEF ProcessInv, Going, Follows
<1> QED
  BY <1>1, <1>2, <1>3, <1>4 DEF ProcessInv

LEMMA OnReadyReadKeeps ==
    ASSUME ProcessInv, NEW s \in Streams, OnReadyRead(s)
    PROVE  ProcessInv'
<1> DEFINE parsed == ParseBytes(parser[s], heard[s], pipe[s], buffer[s], 0)
<1>0. /\ at = "idle" /\ child.phase \in {"running", "ended"}
      /\ pipe[s] # <<>> /\ open[s] /\ parser[s] # "none"
      /\ heard' = [heard EXCEPT ![s] = parsed.heard]
      /\ buffer' = [buffer EXCEPT ![s] = parsed.buffer]
      /\ pipe' = [pipe EXCEPT ![s] = <<>>]
      /\ UNCHANGED <<child, target, command, post, parser, open, at, written, whole,
                     knows, failed, calls>>
  BY DEF OnReadyRead
<1>1. /\ heard \in [Streams -> Reads] /\ buffer \in [Streams -> Seq(Bytes)]
      /\ pipe \in [Streams -> Seq(Bytes)] /\ parser \in [Streams -> Kinds]
      /\ written \in [Streams -> Seq(Bytes)]
  BY DEF ProcessInv, TypeOK, Reads
<1>2. parsed.heard \in Reads /\ parsed.buffer \in Seq(Bytes) /\ <<>> \in Seq(Bytes)
  <2>1. 0 \in 0..Len(buffer[s])
    BY <1>1, LenProperties
  <2> QED
    BY <2>1, <1>1, ParseTypes, EmptySeq
<1>3. /\ heard' \in [Streams -> Reads] /\ buffer' \in [Streams -> Seq(Bytes)]
      /\ pipe' \in [Streams -> Seq(Bytes)]
      /\ heard'[s] = parsed.heard /\ buffer'[s] = parsed.buffer /\ pipe'[s] = <<>>
      /\ \A t \in Streams \ {s} : heard'[t] = heard[t] /\ buffer'[t] = buffer[t]
                                  /\ pipe'[t] = pipe[t]
  <2> HIDE DEF parsed
  <2> QED
    BY <1>0, <1>1, <1>2
<1>4. TypeOK'
  <2>1. heard' \in [Streams -> Seq(Seq(Bytes))]
    BY <1>3 DEF Reads
  <2> QED
    BY <1>0, <1>3, <2>1 DEF ProcessInv, TypeOK
<1>5. Knows'
  BY <1>0 DEF ProcessInv, Knows
<1>6. Empties' /\ Ending'
  BY <1>0 DEF Empties, Ending
<1>7. ASSUME NEW t \in Streams, whole[t] PROVE Follows(t)'
  <2>1. Follows(t)
    BY <1>0, <1>7 DEF ProcessInv, Going
  <2>2. CASE t # s
    BY <2>1, <2>2, <1>0, <1>3 DEF Follows
  <2>3. CASE t = s
    <3>1. PICK all \in Seq(Bytes) : /\ written[s] = all \o pipe[s]
                                    /\ Heard(parser[s], heard[s], buffer[s], all)
      BY <2>1, <2>3 DEF Follows
    <3>2. Heard(parser[s], parsed.heard, parsed.buffer, all \o pipe[s])
      BY <3>1, <1>0, <1>1, ParseHears
    <3> HIDE DEF parsed
    <3>3. Heard(parser[s], heard'[s], buffer'[s], written[s])
      BY <3>1, <3>2, <1>3
    <3>4. written[s] \in Seq(Bytes) /\ written[s] = written[s] \o pipe'[s]
      BY <1>1, <1>3, ConcatEmptySeq
    <3> QED
      BY <2>1, <2>3, <3>3, <3>4, <1>0 DEF Follows
  <2> QED
    BY <2>2, <2>3
<1>8. Going'
  BY <1>0, <1>7 DEF Going
<1> QED
  BY <1>4, <1>5, <1>6, <1>8 DEF ProcessInv

-----------------------------------------------------------------------------
(* onFinished.                                                             *)

LEMMA OnFinishedKeeps ==
    ASSUME ProcessInv, OnFinished
    PROVE  ProcessInv'
<1> DEFINE last == StreamEnded(parser["stdout"], heard["stdout"], buffer["stdout"])
<1>0. /\ at = "idle" /\ child.phase = "ended"
      /\ \A s \in Streams : open[s] /\ parser[s] # "none" => pipe[s] = <<>>
      /\ child' = NoChild
      /\ heard' = [heard EXCEPT !["stdout"] = last]
      /\ at' \in {"stdout", "silent"}
      /\ UNCHANGED <<target, buffer, whole, knows, command, post, parser, pipe, open, written,
                     failed, calls>>
  BY DEF OnFinished, FinishFrame
<1>1. /\ heard \in [Streams -> Reads] /\ buffer \in [Streams -> Seq(Bytes)]
      /\ parser \in [Streams -> Kinds] /\ written \in [Streams -> Seq(Bytes)]
      /\ "stdout" \in Streams /\ "stderr" \in Streams
  BY DEF ProcessInv, TypeOK, Reads, Streams
<1>2. last \in Reads
  BY <1>1, EndTypes
<1>3. heard' \in [Streams -> Reads] /\ heard'["stdout"] = last
      /\ heard'["stderr"] = heard["stderr"]
  <2> HIDE DEF last
  <2> QED
    BY <1>0, <1>1, <1>2
<1>4. child' \in [phase : {"none", "starting", "running", "ended"},
                  runs : Commands \cup {NoCommand}, told : BOOLEAN]
      /\ child.phase' = "none"
  BY <1>0 DEF NoChild
<1>5. TypeOK'
  <2>1. heard' \in [Streams -> Seq(Seq(Bytes))]
    BY <1>3 DEF Reads
  <2>2. at' \in {"idle", "started", "failed", "stdout", "silent", "stderr", "stderr silent",
                 "exited", "running", "pid"}
    BY <1>0
  <2> QED
    BY <1>0, <1>4, <2>1, <2>2 DEF ProcessInv, TypeOK
<1>6. Knows'
  BY <1>0, <1>4 DEF Knows
<1>7. Empties' /\ Going'
  BY <1>4 DEF Empties, Going
<1>8. ASSUME NEW s \in Streams, whole[s]
      PROVE  parser[s] # "none" /\ Heard(parser[s], heard[s], buffer[s], written[s])
  <2>1. Follows(s)
    BY <1>0, <1>8 DEF ProcessInv, Going
  <2>2. pipe[s] = <<>> /\ parser[s] # "none"
    BY <2>1, <1>0 DEF Follows
  <2>3. PICK all \in Seq(Bytes) : /\ written[s] = all \o pipe[s]
                                  /\ Heard(parser[s], heard[s], buffer[s], all)
    BY <2>1 DEF Follows
  <2>4. written[s] = all
    BY <2>2, <2>3, ConcatEmptySeq
  <2> QED
    BY <2>2, <2>3, <2>4
<1>9. Ended("stdout")'
  <2> SUFFICES ASSUME whole["stdout"]
               PROVE  HeardAll(parser["stdout"], last, written["stdout"])
    BY <1>0, <1>3 DEF Ended
  <2> QED
    BY <1>1, <1>8, EndHears
<1>10. Ending'
  <2> HIDE DEF last
  <2>1. whole["stderr"] => /\ parser["stderr"] # "none"
                           /\ Heard(parser["stderr"], heard["stderr"], buffer["stderr"],
                                    written["stderr"])
    BY <1>1, <1>8
  <2>2. ~(at' \in {"stderr", "stderr silent", "exited"})
    BY <1>0
  <2> QED
    BY <1>0, <1>3, <1>9, <2>1, <2>2 DEF Ending
<1> QED
  BY <1>5, <1>6, <1>7, <1>10 DEF ProcessInv

LEMMA FinishStderrKeeps ==
    ASSUME ProcessInv, FinishStderr
    PROVE  ProcessInv'
<1> DEFINE last == StreamEnded(parser["stderr"], heard["stderr"], buffer["stderr"])
<1>0. /\ at \in {"stdout", "silent"} /\ at' \in {"stderr", "stderr silent"}
      /\ heard' = [heard EXCEPT !["stderr"] = last]
      /\ UNCHANGED <<child, target, buffer, whole, knows, command, post, parser, pipe, open,
                     written, failed, calls>>
  BY DEF FinishStderr, FinishFrame
<1>1. /\ heard \in [Streams -> Reads] /\ buffer \in [Streams -> Seq(Bytes)]
      /\ parser \in [Streams -> Kinds] /\ written \in [Streams -> Seq(Bytes)]
      /\ "stdout" \in Streams /\ "stderr" \in Streams
  BY DEF ProcessInv, TypeOK, Reads, Streams
<1>2. last \in Reads
  BY <1>1, EndTypes
<1>3. heard' \in [Streams -> Reads] /\ heard'["stderr"] = last
      /\ heard'["stdout"] = heard["stdout"]
  <2> HIDE DEF last
  <2> QED
    BY <1>0, <1>1, <1>2
<1>4. TypeOK'
  <2>1. heard' \in [Streams -> Seq(Seq(Bytes))]
    BY <1>3 DEF Reads
  <2>2. at' \in {"idle", "started", "failed", "stdout", "silent", "stderr", "stderr silent",
                 "exited", "running", "pid"}
    BY <1>0
  <2> QED
    BY <1>0, <2>1, <2>2 DEF ProcessInv, TypeOK
<1>5. child.phase \in {"none", "starting"}
  BY <1>0 DEF ProcessInv, Knows, Closing
<1>6. Knows'
  BY <1>0, <1>5 DEF Knows
<1>7. Empties' /\ Going'
  BY <1>0, <1>5 DEF ProcessInv, Empties, Going
<1>8. Ended("stderr")'
  <2> SUFFICES ASSUME whole["stderr"]
               PROVE  HeardAll(parser["stderr"], last, written["stderr"])
    BY <1>0, <1>3 DEF Ended
  <2>1. /\ parser["stderr"] # "none"
        /\ Heard(parser["stderr"], heard["stderr"], buffer["stderr"], written["stderr"])
    BY <1>0 DEF ProcessInv, Ending
  <2> QED
    BY <2>1, <1>1, EndHears
<1>9. Ended("stdout")'
  <2>1. Ended("stdout")
    BY <1>0 DEF ProcessInv, Ending
  <2> QED
    BY <2>1, <1>0, <1>3 DEF Ended
<1>10. Ending'
  BY <1>0, <1>8, <1>9 DEF Ending
<1> QED
  BY <1>4, <1>6, <1>7, <1>10 DEF ProcessInv

LEMMA FinishExitedKeeps ==
    ASSUME ProcessInv, FinishExited
    PROVE  ProcessInv'
<1>0. /\ at \in {"stderr", "stderr silent"} /\ at' = "exited" /\ buffer' = Nothing
      /\ UNCHANGED <<child, target, heard, whole, knows, command, post, parser, pipe, open,
                     written, failed, calls>>
  BY DEF FinishExited, FinishFrame
<1>1. TypeOK'
  <2>1. at' \in {"idle", "started", "failed", "stdout", "silent", "stderr", "stderr silent",
                 "exited", "running", "pid"}
    BY <1>0
  <2>2. buffer' \in [Streams -> Seq(Bytes)]
    BY <1>0, NothingFacts
  <2> QED
    BY <1>0, <2>1, <2>2 DEF ProcessInv, TypeOK
<1>2. child.phase \in {"none", "starting"}
  BY <1>0 DEF ProcessInv, Knows, Closing
<1>3. Knows'
  BY <1>0, <1>2 DEF Knows
<1>4. Empties' /\ Going'
  BY <1>0, <1>2 DEF ProcessInv, Empties, Going
<1>5. Ending'
  BY <1>0 DEF ProcessInv, Ending, Ended
<1> QED
  BY <1>1, <1>3, <1>4, <1>5 DEF ProcessInv

\* The last signals tell what is so by then.
LEMMA FinishTells ==
    ASSUME ProcessInv, FinishRunningChanged \/ FinishProcessIdChanged
    PROVE  ProcessInv'
<1>0. /\ at \in {"exited", "running"} /\ at' \in {"running", "pid"}
      /\ \/ at' = "running" /\ knows' = [knows EXCEPT !.running = IsRunning]
         \/ at = "running" /\ at' = "pid" /\ knows' = [knows EXCEPT !.pid = IsRunning]
      /\ UNCHANGED <<child, target, buffer, heard, whole, command, post, parser, pipe, open,
                     written, failed, calls>>
  BY DEF FinishRunningChanged, FinishProcessIdChanged, FinishFrame
<1>1. knows \in [running : BOOLEAN, pid : BOOLEAN] /\ IsRunning \in BOOLEAN
  BY DEF ProcessInv, TypeOK, IsRunning
<1>2. /\ knows' \in [running : BOOLEAN, pid : BOOLEAN]
      /\ \/ at' = "running" /\ knows.running' = IsRunning
         \/ /\ at = "running" /\ at' = "pid"
            /\ knows.running' = knows.running /\ knows.pid' = IsRunning
  BY <1>0, <1>1
<1>3. TypeOK'
  <2>1. at' \in {"idle", "started", "failed", "stdout", "silent", "stderr", "stderr silent",
                 "exited", "running", "pid"}
    BY <1>0
  <2> QED
    BY <1>0, <1>2, <2>1 DEF ProcessInv, TypeOK
<1>4. child.phase \in {"none", "starting"} /\ child' = child
      /\ (at = "running" => (child.phase = "none" => ~knows.running))
  BY <1>0 DEF ProcessInv, Knows, Closing
<1>5. Knows'
  <2>1. child.phase' = "none" => ~knows.running'
    BY <1>2, <1>4 DEF IsRunning
  <2>2. at' = "pid" => (child.phase' = "none" => ~knows.pid')
    BY <1>2, <1>4 DEF IsRunning
  <2> QED
    BY <1>0, <1>4, <2>1, <2>2 DEF Knows
<1>6. Empties' /\ Going' /\ Ending'
  BY <1>0, <1>4 DEF ProcessInv, Empties, Going, Ending
<1> QED
  BY <1>3, <1>5, <1>6 DEF ProcessInv

-----------------------------------------------------------------------------
(* The theorems.                                                           *)

LEMMA ProcessNextKeeps == ProcessInv /\ [Next]_vars => ProcessInv'
<1> SUFFICES ASSUME ProcessInv, [Next]_vars PROVE ProcessInv'
  OBVIOUS
<1>1. CASE Qml
  <2>1. CASE Run \/ Stop \/ \E c \in Commands \cup {NoCommand} : SetCommand(c) \/ Exec(c)
    BY <2>1, CallsKeep
  <2>2. CASE \E s \in Streams : (\E kind \in NewParsers : SetParser(s, kind)) \/ ParserDestroyed(s)
    BY <2>2, SetParserKeeps, ParserDestroyedKeeps
  <2> QED
    BY <1>1, <2>1, <2>2 DEF Qml
<1>2. CASE System
  BY <1>2, ChildEndsKeeps, ChildWritesKeeps DEF System
<1>3. CASE PostReload
  BY <1>3, CallsKeep
<1>4. CASE Started
  BY <1>4, OnStartedKeeps, OnErrorOccurredKeeps, ReturnKeeps DEF Started
<1>5. CASE Finish
  <2>1. CASE FinishStart
    BY <2>1, CallsKeep
  <2> QED
    BY <1>5, <2>1, OnFinishedKeeps, FinishStderrKeeps, FinishExitedKeeps, FinishTells DEF Finish
<1>6. CASE \E s \in Streams : OnReadyRead(s)
  BY <1>6, OnReadyReadKeeps
<1>7. CASE UNCHANGED vars
  <2>1. UNCHANGED <<child, target, command, post, parser, buffer, pipe, open, at, written, heard,
                    whole, knows, failed, calls>>
    BY <1>7 DEF vars, streamVars, history
  <2>2. TypeOK'
    <3>1. at' \in {"idle", "started", "failed", "stdout", "silent", "stderr", "stderr silent",
                   "exited", "running", "pid"}
      BY <2>1 DEF ProcessInv, TypeOK
    <3>2. child' \in [phase : {"none", "starting", "running", "ended"},
                     runs : Commands \cup {NoCommand}, told : BOOLEAN]
      BY <2>1 DEF ProcessInv, TypeOK
    <3> QED
      BY <2>1, <3>1, <3>2 DEF ProcessInv, TypeOK
  <2>3. Knows' /\ Empties'
    BY <2>1 DEF ProcessInv, Knows, Empties
  <2>4. Going' /\ Ending'
    BY <2>1 DEF ProcessInv, Going, Follows, Ending, Ended
  <2> QED
    BY <2>2, <2>3, <2>4 DEF ProcessInv
<1> QED
  BY <1>1, <1>2, <1>3, <1>4, <1>5, <1>6, <1>7 DEF Next

LEMMA ProcessInvariant == Spec => []ProcessInv
BY ProcessInitKeeps, ProcessNextKeeps, PTL DEF Spec

\* What the fields of Process and the streams' buffers hold (io/process.hpp).
THEOREM ProcessTypeCorrect == Spec => []TypeOK
<1>1. ProcessInv => TypeOK
  BY DEF ProcessInv
<1> QED
  BY <1>1, ProcessInvariant, PTL

\* When `exited` is emitted, the parsers have told all that the process wrote
\* and no read holds a marker, however the pipes cut what was written: however
\* long the marker is, whatever else is written and however many times the
\* process is started (io/datastream.cpp, onFinished of io/process.cpp).
THEOREM ProcessOutputIsHeard == Spec => []AllHeard
<1>1. ProcessInv => AllHeard
  <2> SUFFICES ASSUME ProcessInv, at = "exited", NEW s \in Streams, whole[s]
               PROVE  /\ \/ written[s] = Joined(heard[s])
                         \/ parser[s] = "split" /\ written[s] = Joined(heard[s]) \o Marker
                      /\ parser[s] = "split" =>
                             \A k \in DOMAIN heard[s] :
                                 \A i \in 1 .. Len(heard[s][k]) - Len(Marker) :
                                     ~MarkerAt(heard[s][k], i)
    BY DEF AllHeard
  <2>1. Ended(s)
    BY DEF ProcessInv, Ending, Streams
  <2> QED
    BY <2>1 DEF Ended, HeardAll, Clean, Width
<1> QED
  BY <1>1, ProcessInvariant, PTL

\* Whatever QML calls from the handlers of the signals, `running` and
\* `processId` are as it was told when the shell is idle (io/process.cpp).
THEOREM ProcessQmlKnows == Spec => []QmlKnows
<1>1. ProcessInv => QmlKnows
  BY DEF ProcessInv, Knows, QmlKnows
<1> QED
  BY <1>1, ProcessInvariant, PTL

-----------------------------------------------------------------------------
(* PAM.  The main thread's work is a function of its state m, so the facts *)
(* about it are stated of any m that Fits, and the actions follow from     *)
(* them.                                                                   *)

Messages == [kind : {"info", "prompt"} \cup Codes, n : 0..MaxMessages]

Conversations == [exists : BOOLEAN, connected : BOOLEAN, pid : {"none", "own", "every"},
                  watches : BOOLEAN, in : Seq(Messages), out : Seq(0..MaxMessages)]

Subprocesses == [phase : {"none", "runs", "waits", "exited", "reaped"}, sent : 0..MaxMessages,
                 prompt : 0..MaxMessages, code : Codes \cup {"none"}, mixed : BOOLEAN]

Contexts == [post : BOOLEAN, target : BOOLEAN, conv : Nat, required : 0..MaxMessages,
             answered : 0..MaxMessages]

Mains == [context : Contexts, convs : Seq(Conversations), children : Seq(Subprocesses),
          told : Seq(Seq(Codes))]

Fits(m) == /\ m \in Mains
           /\ Len(m.children) = Len(m.convs) /\ Len(m.told) = Len(m.convs)
           /\ m.context.conv \in 0..Len(m.convs)
           /\ Len(m.convs) <= MaxConvs

\* PamTypeOK is Fits of the state there is.
LEMMA TypeIsFits ==
    PamTypeOK <=> Fits(Main) /\ responses \in 0..MaxResponses /\ patient \in BOOLEAN
  <1>1. PamTypeOK => Fits(Main) /\ responses \in 0..MaxResponses /\ patient \in BOOLEAN
    BY DEF PamTypeOK, Fits, Main, Mains, Contexts, Conversations, Subprocesses, Messages
  <1>2. Fits(Main) /\ responses \in 0..MaxResponses /\ patient \in BOOLEAN => PamTypeOK
    BY DEF PamTypeOK, Fits, Main, Mains, Contexts, Conversations, Subprocesses, Messages
  <1> QED
    BY <1>1, <1>2

\* What kill and waitpid leave: only the pid of i, and phases.
LEMMA KillFits ==
    ASSUME NEW m, Fits(m), NEW i \in 1..Len(m.convs)
    PROVE  /\ Fits(Kill(m, i))
           /\ Kill(m, i).context = m.context
           /\ Len(Kill(m, i).convs) = Len(m.convs)
           /\ \A j \in 1..Len(m.convs) :
                /\ Kill(m, i).convs[j] = IF j = i THEN [m.convs[j] EXCEPT !.pid = "none"]
                                                   ELSE m.convs[j]
                /\ \/ Kill(m, i).children[j] = m.children[j]
                   \/ /\ m.children[j].phase \notin {"none", "reaped"} \/ (j = i /\ m.convs[i].pid = "own")
                      /\ \E phase \in {"exited", "reaped"} :
                           Kill(m, i).children[j] = [m.children[j] EXCEPT !.phase = phase]
                /\ m.convs[i].pid = "own" => Kill(m, i).children[j] =
                        IF j = i THEN [m.children[j] EXCEPT !.phase = "reaped"]
                                 ELSE m.children[j]
  <1> DEFINE killed == IF m.convs[i].pid = "own" THEN {i}
                       ELSE {j \in DOMAIN m.children :
                               m.children[j].phase \notin {"none", "reaped"}}
             Phase(j) == IF j \notin killed THEN m.children[j].phase
                         ELSE IF \A k \in killed : j <= k THEN "reaped" ELSE "exited"
             convsNow == [m.convs EXCEPT ![i] = [m.convs[i] EXCEPT !.pid = "none"]]
             After(j) == [m.children[j] EXCEPT !.phase = Phase(j)]
             childrenNow == [j \in 1..Len(m.convs) |-> After(j)]
  <1>a. m \in Mains /\ Len(m.children) = Len(m.convs)
    BY DEF Fits
  <1>b. /\ m.convs \in Seq(Conversations) /\ m.children \in Seq(Subprocesses)
        /\ DOMAIN m.children = 1..Len(m.convs)
    BY <1>a DEF Mains
  <1>c. \A j \in 1..Len(m.convs) : m.convs[j] \in Conversations /\ m.children[j] \in Subprocesses
    BY <1>a, <1>b
  <1>1. CASE m.convs[i].pid = "none"
    <2>1. Kill(m, i) = m
      BY <1>1 DEF Kill
    <2>2. m.convs[i] = [m.convs[i] EXCEPT !.pid = "none"]
      BY <1>1, <1>c DEF Conversations
    <2> QED
      BY <2>1, <2>2, <1>1
  <1>2. CASE m.convs[i].pid # "none"
    <2>1. Kill(m, i) = [m EXCEPT !.convs = convsNow, !.children = childrenNow]
      BY <1>2, <1>a, <1>b DEF Kill, Mains
    <2>2. /\ convsNow \in Seq(Conversations) /\ Len(convsNow) = Len(m.convs)
          /\ \A j \in 1..Len(m.convs) :
                convsNow[j] = IF j = i THEN [m.convs[j] EXCEPT !.pid = "none"] ELSE m.convs[j]
      <3>1. [m.convs[i] EXCEPT !.pid = "none"] \in Conversations
        BY <1>c DEF Conversations
      <3> QED
        BY <3>1, <1>b
    <2>3. \A j \in 1..Len(m.convs) : Phase(j) \in {"none", "runs", "waits", "exited", "reaped"}
      BY <1>c DEF Subprocesses
    <2>4. /\ childrenNow \in Seq(Subprocesses) /\ Len(childrenNow) = Len(m.convs)
          /\ \A j \in 1..Len(m.convs) :
                childrenNow[j] = After(j)
      <3>1. \A j \in 1..Len(m.convs) : After(j) \in Subprocesses
        BY <2>3, <1>c DEF Subprocesses
      <3>2. Len(m.convs) \in Nat
        BY <1>b
      <3> HIDE DEF After
      <3>3. childrenNow \in Seq(Subprocesses)
        BY <3>1, <3>2
      <3>4. Len(childrenNow) = Len(m.convs)
        BY <3>2, <3>3
      <3> QED
        BY <3>3, <3>4
    <2>5. Kill(m, i).convs = convsNow /\ Kill(m, i).children = childrenNow
          /\ Kill(m, i).context = m.context /\ Kill(m, i).told = m.told
          /\ Kill(m, i) \in Mains
      BY <2>1, <2>2, <2>4, <1>a DEF Mains
    <2>6. Fits(Kill(m, i))
      BY <2>2, <2>4, <2>5 DEF Fits
    <2>7. \A j \in 1..Len(m.convs) :
            /\ Phase(j) = m.children[j].phase
               \/ /\ m.children[j].phase \notin {"none", "reaped"} \/ (j = i /\ m.convs[i].pid = "own")
                  /\ Phase(j) \in {"exited", "reaped"}
            /\ m.convs[i].pid = "own" =>
                 Phase(j) = IF j = i THEN "reaped" ELSE m.children[j].phase
      BY <1>b
    <2>8. \A j \in 1..Len(m.convs) : Phase(j) = m.children[j].phase =>
            After(j) = m.children[j]
      BY <1>c DEF Subprocesses
    <2> HIDE DEF convsNow, childrenNow, Phase
    <2>9. ASSUME NEW j \in 1..Len(m.convs)
          PROVE  \/ childrenNow[j] = m.children[j]
                 \/ /\ m.children[j].phase \notin {"none", "reaped"} \/ (j = i /\ m.convs[i].pid = "own")
                    /\ \E phase \in {"exited", "reaped"} :
                         childrenNow[j] = [m.children[j] EXCEPT !.phase = phase]
      BY <2>4, <2>7, <2>8
    <2>10. ASSUME NEW j \in 1..Len(m.convs), m.convs[i].pid = "own"
           PROVE  childrenNow[j] = IF j = i THEN [m.children[j] EXCEPT !.phase = "reaped"]
                                            ELSE m.children[j]
      BY <2>4, <2>7, <2>8, <2>10
    <2> QED
      BY <2>2, <2>5, <2>6, <2>9, <2>10
  <1> QED
    BY <1>1, <1>2, <1>c DEF Conversations

\* abortConversation: what is let go of is that conversation's connection.
LEMMA AbortFits ==
    ASSUME NEW m, Fits(m)
    PROVE  LET a == AbortConversation(m)
           IN  /\ Fits(a)
               /\ a.children = m.children /\ a.told = m.told /\ Len(a.convs) = Len(m.convs)
               /\ a.context.conv = 0
               /\ m.context.conv = 0 => a = m
               /\ m.context.conv # 0 => a.context.required = 0
               /\ \A j \in 1..Len(m.convs) :
                    a.convs[j] = IF j = m.context.conv
                                 THEN [m.convs[j] EXCEPT !.connected = FALSE]
                                 ELSE m.convs[j]
  <1> DEFINE c == m.context.conv
             letGo == [m.convs[c] EXCEPT !.connected = FALSE]
             convsNow == [m.convs EXCEPT ![c] = letGo]
             contextNow == [m.context EXCEPT !.target = FALSE, !.conv = 0, !.required = 0]
  <1>a. /\ m \in Mains /\ m.convs \in Seq(Conversations) /\ m.context \in Contexts
        /\ c \in 0..Len(m.convs) /\ Len(m.convs) \in Nat
    BY DEF Fits, Mains
  <1>1. CASE c = 0
    BY <1>1, <1>a DEF AbortConversation
  <1>2. CASE c # 0
    <2>1. c \in 1..Len(m.convs)
      BY <1>2, <1>a
    <2>2. letGo \in Conversations
      <3>1. m.convs[c] \in Conversations
        BY <2>1, <1>a, ElementOfSeq
      <3> QED
        BY <3>1 DEF Conversations
    <2>3. convsNow \in Seq(Conversations) /\ Len(convsNow) = Len(m.convs)
          /\ \A j \in 1..Len(m.convs) :
                convsNow[j] = IF j = c THEN letGo ELSE m.convs[j]
      <3> HIDE DEF letGo, c
      <3> QED
        BY <2>1, <2>2, <1>a, ExceptSeq
    <2>4. contextNow \in Contexts /\ contextNow.conv = 0 /\ contextNow.required = 0
      <3>1. 0 \in 0..MaxMessages
        BY PamAssumption
      <3> QED
        BY <3>1, <1>a DEF Contexts
    <2>5. AbortConversation(m) = [m EXCEPT !.context = contextNow, !.convs = convsNow]
      BY <1>2, <1>a DEF AbortConversation, Mains, Contexts
    <2> HIDE DEF convsNow, contextNow
    <2>6. /\ AbortConversation(m) \in Mains
          /\ AbortConversation(m).context = contextNow /\ AbortConversation(m).convs = convsNow
          /\ AbortConversation(m).children = m.children /\ AbortConversation(m).told = m.told
      BY <2>3, <2>4, <2>5, <1>a DEF Mains
    <2>7. Fits(AbortConversation(m))
      BY <2>3, <2>4, <2>6 DEF Fits
    <2> QED
      BY <2>3, <2>4, <2>6, <2>7, <1>2
  <1> QED
    BY <1>1, <1>2

\* onCompleted and onError: an abort of a connected conversation, told.
LEMMA CompletesFits ==
    ASSUME NEW m, Fits(m), NEW i \in 1..Len(m.convs), NEW result \in Codes
    PROVE  LET a == Completes(m, i, result)
           IN  /\ Fits(a)
               /\ ~m.convs[i].connected => a = m
               /\ m.convs[i].connected => /\ a.context = AbortConversation(m).context
                                          /\ a.convs = AbortConversation(m).convs
               /\ a.children = m.children /\ Len(a.convs) = Len(m.convs)
  <1>1. CASE ~m.convs[i].connected
    BY <1>1 DEF Completes
  <1>2. CASE m.convs[i].connected
    <2> DEFINE b == AbortConversation(m)
               toldNow == [b.told EXCEPT ![i] = Append(b.told[i], result)]
    <2>1. Fits(b) /\ b.children = m.children /\ b.told = m.told /\ Len(b.convs) = Len(m.convs)
      BY AbortFits
    <2> HIDE DEF b
    <2>2. b \in Mains /\ b.told \in Seq(Seq(Codes)) /\ i \in 1..Len(b.told)
      BY <2>1 DEF Fits, Mains
    <2>3. Append(b.told[i], result) \in Seq(Codes)
      BY <2>2, AppendProperties, ElementOfSeq
    <2>4. toldNow \in Seq(Seq(Codes)) /\ Len(toldNow) = Len(b.told)
      BY <2>2, <2>3, ExceptSeq
    <2>5. Completes(m, i, result) = [b EXCEPT !.told = toldNow]
      BY <1>2, <2>2 DEF Completes, Mains, b
    <2> HIDE DEF toldNow
    <2>6. /\ Completes(m, i, result) \in Mains
          /\ Completes(m, i, result).context = b.context
          /\ Completes(m, i, result).convs = b.convs
          /\ Completes(m, i, result).children = b.children
          /\ Completes(m, i, result).told = toldNow
      BY <2>2, <2>4, <2>5 DEF Mains
    <2>7. Fits(Completes(m, i, result))
      BY <2>1, <2>4, <2>6 DEF Fits
    <2> QED
      BY <1>2, <2>1, <2>6, <2>7 DEF b
  <1> QED
    BY <1>1, <1>2
-----------------------------------------------------------------------------
(* What holds of a conversation c and its subprocess d.                    *)

\* A conversation has the pid of its own process until that was waited for;
\* the pid of every process it has if the fork failed, and then it has none.
Sane(c, d) == /\ c.pid = "every" => d.phase = "none"
              /\ d.phase = "none" => c.pid # "own" /\ c.in = <<>>
              /\ c.pid # "own" => d.phase \in {"none", "reaped"}

PidFits(c, d) == c.pid = "own" <=> (c.exists /\ d.phase # "reaped")

Pids(m) == /\ \A j \in 1..Len(m.convs) : Sane(m.convs[j], m.children[j])
           /\ \/ \E j \in 1..Len(m.convs) : m.children[j].phase = "none"
              \/ \A j \in 1..Len(m.convs) : PidFits(m.convs[j], m.children[j])

\* What may be on its way from a subprocess that runs, and one that waits.
Infos(q) == \A k \in 1..Len(q) : q[k] = Info
PromptLast(q, n) == q # <<>> /\ q[Len(q)] = Prompt(n) /\ \A k \in 1..Len(q) - 1 : q[k] = Info

\* The context x has no prompt to answer.
Idle(x) == x.required # 0 => x.answered = x.required

\* A prompt is on its way, or shown, or answered; if the conversation is
\* `mine`, the context's, the context knows which.
InStep(x, mine, c, d) ==
    /\ c.connected <=> mine
    /\ ~d.mixed
    /\ d.phase = "runs" => c.out = <<>> /\ Infos(c.in) /\ (mine => Idle(x))
    /\ d.phase = "waits" =>
         /\ d.prompt # 0
         /\ \/ PromptLast(c.in, d.prompt) /\ c.out = <<>> /\ (mine => Idle(x))
            \/ /\ c.in = <<>> /\ c.out = <<>>
               /\ mine => x.required = d.prompt /\ x.answered # d.prompt
            \/ /\ c.in = <<>> /\ c.out = <<d.prompt>>
               /\ mine => x.required = d.prompt /\ x.answered = d.prompt

Prompts(m) == /\ \A j \in 1..Len(m.convs) :
                    InStep(m.context, m.context.conv = j, m.convs[j], m.children[j])
              /\ m.context.conv = 0 => m.context.required = 0

-----------------------------------------------------------------------------
(* What the main thread does keeps both.                                   *)

LEMMA KillKeeps ==
    ASSUME NEW m, Fits(m), NEW i \in 1..Len(m.convs)
    PROVE  /\ Pids(m) => Pids(Kill(m, i)) /\ Kill(m, i).convs[i].pid = "none"
           /\ Prompts(m) => Prompts(Kill(m, i))
  <1> DEFINE k == Kill(m, i)
  <1>a. \A j \in 1..Len(m.convs) : m.convs[j] \in Conversations /\ m.children[j] \in Subprocesses
    BY ElementOfSeq DEF Fits, Mains
  <1>b. /\ k.context = m.context /\ Len(k.convs) = Len(m.convs)
        /\ \A j \in 1..Len(m.convs) :
            /\ k.convs[j] = IF j = i THEN [m.convs[j] EXCEPT !.pid = "none"] ELSE m.convs[j]
            /\ \/ k.children[j] = m.children[j]
               \/ /\ \/ m.children[j].phase \notin {"none", "reaped"}
                     \/ j = i /\ m.convs[i].pid = "own"
                  /\ \E phase \in {"exited", "reaped"} :
                       k.children[j] = [m.children[j] EXCEPT !.phase = phase]
            /\ m.convs[i].pid = "own" => k.children[j] =
                    IF j = i THEN [m.children[j] EXCEPT !.phase = "reaped"] ELSE m.children[j]
    BY KillFits
  <1> HIDE DEF k
  <1>c. ASSUME NEW j \in 1..Len(m.convs)
        PROVE  /\ k.convs[j].pid = IF j = i THEN "none" ELSE m.convs[j].pid
               /\ k.convs[j].exists = m.convs[j].exists /\ k.convs[j].in = m.convs[j].in
               /\ k.convs[j].out = m.convs[j].out
               /\ k.convs[j].connected = m.convs[j].connected
    BY <1>a, <1>b DEF Conversations
  <1>d. ASSUME NEW j \in 1..Len(m.convs)
        PROVE  /\ k.children[j].mixed = m.children[j].mixed
               /\ k.children[j].prompt = m.children[j].prompt
               /\ \/ k.children[j].phase = m.children[j].phase
                  \/ /\ \/ m.children[j].phase \notin {"none", "reaped"}
                        \/ j = i /\ m.convs[i].pid = "own"
                     /\ k.children[j].phase \in {"exited", "reaped"}
               /\ m.convs[i].pid = "own" => k.children[j].phase =
                        IF j = i THEN "reaped" ELSE m.children[j].phase
    <2>1. CASE k.children[j] = m.children[j]
      BY <2>1, <1>a, <1>b DEF Subprocesses
    <2>2. CASE k.children[j] # m.children[j]
      <3>1. PICK phase \in {"exited", "reaped"} :
                k.children[j] = [m.children[j] EXCEPT !.phase = phase]
        BY <2>2, <1>b
      <3>2. /\ k.children[j].phase = phase /\ k.children[j].mixed = m.children[j].mixed
            /\ k.children[j].prompt = m.children[j].prompt
        BY <3>1, <1>a DEF Subprocesses
      <3>3. m.convs[i].pid = "own" => j = i
        BY <2>2, <1>b
      <3>4. m.convs[i].pid = "own" => k.children[j].phase = "reaped"
        BY <3>3, <1>a, <1>b DEF Subprocesses
      <3> QED
        BY <2>2, <3>2, <3>3, <3>4, <1>b
    <2> QED
      BY <2>1, <2>2
  <1>1. ASSUME Pids(m) PROVE Pids(k) /\ k.convs[i].pid = "none"
    <2>1. \A j \in 1..Len(m.convs) : Sane(m.convs[j], m.children[j])
      BY <1>1 DEF Pids
    <2>2. \A j \in 1..Len(k.convs) : Sane(k.convs[j], k.children[j])
      <3> SUFFICES ASSUME NEW j \in 1..Len(m.convs) PROVE Sane(k.convs[j], k.children[j])
        BY <1>b
      <3>1. Sane(m.convs[j], m.children[j]) /\ Sane(m.convs[i], m.children[i])
        BY <2>1
      <3>2. CASE j # i
        BY <3>1, <3>2, <1>c, <1>d DEF Sane
      <3>3. CASE j = i
        BY <3>1, <3>3, <1>a, <1>c, <1>d DEF Sane, Conversations
      <3> QED
        BY <3>2, <3>3
    <2>3. CASE \E j \in 1..Len(m.convs) : m.children[j].phase = "none"
      <3>1. PICK j \in 1..Len(m.convs) : m.children[j].phase = "none"
        BY <2>3
      <3>2. k.children[j].phase = "none"
        BY <3>1, <2>1, <1>c, <1>d DEF Sane
      <3> QED
        BY <3>2, <2>2, <1>b, <1>c, <1>d DEF Pids
    <2>4. CASE \A j \in 1..Len(m.convs) : m.children[j].phase # "none"
                                        /\ PidFits(m.convs[j], m.children[j])
      <3>1. m.convs[i].pid \in {"own", "none"}
        BY <2>4, <2>1, <1>a DEF Sane, Conversations
      <3>2. CASE m.convs[i].pid = "none"
        BY <3>2, <2>2, <2>4, <1>b, KillFits DEF Pids, PidFits, Kill, k
      <3>3. CASE m.convs[i].pid = "own"
        <4>1. \A j \in 1..Len(k.convs) : PidFits(k.convs[j], k.children[j])
          BY <3>3, <2>4, <1>b, <1>c, <1>d DEF PidFits
        <4> QED
          BY <4>1, <2>2, <1>c, <1>d DEF Pids
      <3> QED
        BY <3>1, <3>2, <3>3
    <2> QED
      BY <2>3, <2>4, <1>1 DEF Pids
  <1>2. ASSUME Prompts(m) PROVE Prompts(k)
    BY <1>2, <1>b, <1>c, <1>d DEF Prompts, InStep
  <1> QED
    BY <1>1, <1>2 DEF k

LEMMA AbortKeeps ==
    ASSUME NEW m, Fits(m)
    PROVE  /\ Pids(m) => Pids(AbortConversation(m))
           /\ Prompts(m) => Prompts(AbortConversation(m))
  <1> DEFINE a == AbortConversation(m)
  <1>a. \A j \in 1..Len(m.convs) : m.convs[j] \in Conversations
    BY ElementOfSeq DEF Fits, Mains
  <1>b. /\ Len(a.convs) = Len(m.convs) /\ a.children = m.children /\ a.context.conv = 0
        /\ m.context.conv = 0 => a = m
        /\ m.context.conv # 0 => a.context.required = 0
        /\ \A j \in 1..Len(m.convs) :
              a.convs[j] = IF j = m.context.conv THEN [m.convs[j] EXCEPT !.connected = FALSE]
                           ELSE m.convs[j]
    BY AbortFits
  <1> HIDE DEF a
  <1>c. \A j \in 1..Len(m.convs) :
            /\ a.convs[j].pid = m.convs[j].pid /\ a.convs[j].exists = m.convs[j].exists
            /\ a.convs[j].in = m.convs[j].in /\ a.convs[j].out = m.convs[j].out
            /\ IF j = m.context.conv THEN a.convs[j].connected = FALSE
               ELSE a.convs[j].connected = m.convs[j].connected
    BY <1>a, <1>b DEF Conversations
  <1>1. ASSUME Pids(m) PROVE Pids(a)
    BY <1>1, <1>b, <1>c DEF Pids, Sane, PidFits
  <1>2. ASSUME Prompts(m) PROVE Prompts(a)
    <2>1. ASSUME NEW j \in 1..Len(m.convs)
          PROVE  InStep(a.context, a.context.conv = j, a.convs[j], a.children[j])
      BY <1>2, <1>b, <1>c DEF Prompts, InStep
    <2> QED
      BY <2>1, <1>2, <1>b DEF Prompts
  <1> QED
    BY <1>1, <1>2 DEF a

Good(m) == Fits(m) /\ Pids(m) /\ (patient => Prompts(m))

\* What was told is no part of either.
LEMMA CompletesGood ==
    ASSUME NEW m, Good(m), NEW i \in 1..Len(m.convs), NEW result \in Codes
    PROVE  Good(Completes(m, i, result)) /\ Len(Completes(m, i, result).convs) = Len(m.convs)
  <1> DEFINE c == Completes(m, i, result)
             a == AbortConversation(m)
  <1>1. /\ Fits(c) /\ Len(c.convs) = Len(m.convs) /\ c.children = m.children
        /\ ~m.convs[i].connected => c = m
        /\ m.convs[i].connected => c.context = a.context /\ c.convs = a.convs
    BY CompletesFits DEF Good
  <1>2. Pids(a) /\ (patient => Prompts(a)) /\ a.children = m.children
    BY AbortKeeps, AbortFits DEF Good
  <1> HIDE DEF c, a
  <1>3. CASE m.convs[i].connected
    BY <1>1, <1>2, <1>3 DEF Good, Pids, Prompts, c
  <1>4. CASE ~m.convs[i].connected
    BY <1>1, <1>4 DEF c
  <1> QED
    BY <1>3, <1>4

LEMMA KillGood ==
    ASSUME NEW m, Good(m), NEW i \in 1..Len(m.convs)
    PROVE  Good(Kill(m, i)) /\ Len(Kill(m, i).convs) = Len(m.convs)
  BY KillFits, KillKeeps DEF Good

LEMMA InternalErrorGood ==
    ASSUME NEW m, Good(m), NEW i \in 1..Len(m.convs)
    PROVE  Good(InternalError(m, i))
  <1>1. CASE m.convs[i].pid = "none"
    BY <1>1 DEF InternalError
  <1>2. CASE m.convs[i].pid # "none"
    <2>1. "Error" \in Codes
      BY DEF Codes
    <2> QED
      BY <1>2, <2>1, KillGood, CompletesGood DEF InternalError
  <1> QED
    BY <1>1, <1>2

\* setActive and componentComplete set these before they do anything.
LEMMA ContextGood ==
    ASSUME NEW m, Good(m), NEW b \in BOOLEAN
    PROVE  /\ Good([m EXCEPT !.context.target = b])
           /\ Good([m EXCEPT !.context.post = b])
  <1>a. m \in Mains /\ m.context \in Contexts
    BY DEF Good, Fits, Mains
  <1>b. ASSUME NEW x \in Contexts, x.conv = m.context.conv, x.required = m.context.required,
               x.answered = m.context.answered
        PROVE  Good([m EXCEPT !.context = x])
    <2> DEFINE n == [m EXCEPT !.context = x]
    <2>1. n \in Mains /\ n.context = x /\ n.convs = m.convs /\ n.children = m.children
          /\ n.told = m.told
      BY <1>a DEF Mains
    <2> HIDE DEF n
    <2>2. Fits(n) /\ Pids(n)
      BY <2>1, <1>b DEF Good, Fits, Pids
    <2>3. Prompts(m) => Prompts(n)
      BY <2>1, <1>b DEF Prompts, InStep, Idle
    <2> QED
      BY <2>2, <2>3 DEF Good, n
  <1>1. Good([m EXCEPT !.context = [m.context EXCEPT !.target = b]])
    <2> DEFINE x == [m.context EXCEPT !.target = b]
    <2>1. x \in Contexts /\ x.conv = m.context.conv /\ x.required = m.context.required
          /\ x.answered = m.context.answered
      BY <1>a DEF Contexts
    <2> HIDE DEF x
    <2> QED
      BY <2>1, <1>b DEF x
  <1>2. Good([m EXCEPT !.context = [m.context EXCEPT !.post = b]])
    <2> DEFINE x == [m.context EXCEPT !.post = b]
    <2>1. x \in Contexts /\ x.conv = m.context.conv /\ x.required = m.context.required
          /\ x.answered = m.context.answered
      BY <1>a DEF Contexts
    <2> HIDE DEF x
    <2> QED
      BY <2>1, <1>b DEF x
  <1> QED
    BY <1>1, <1>2

\* The states that StartConversation makes a conversation in.
FirstPhase(pid) == CASE pid = "own" -> "runs" [] pid = "every" -> "none" [] OTHER -> "reaped"

Made(m, pid) ==
    [m EXCEPT !.context.conv = Len(m.convs) + 1, !.convs = Append(@, Conversation(pid)),
              !.children = Append(@, [Child EXCEPT !.phase = FirstPhase(pid)]),
              !.told = Append(@, <<>>)]

LEMMA MadeGood ==
    ASSUME NEW m, Good(m), m.context.conv = 0, Len(m.convs) < MaxConvs,
           NEW pid \in {"none", "own", "every"}
    PROVE  Good(Made(m, pid)) /\ Len(Made(m, pid).convs) = Len(m.convs) + 1
  <1> DEFINE i == Len(m.convs) + 1
             n == Made(m, pid)
             c == Conversation(pid)
             d == [Child EXCEPT !.phase = FirstPhase(pid)]
             x == [m.context EXCEPT !.conv = i]
  <1>a. /\ m \in Mains /\ m.convs \in Seq(Conversations) /\ m.children \in Seq(Subprocesses)
        /\ m.told \in Seq(Seq(Codes)) /\ m.context \in Contexts
        /\ Len(m.children) = Len(m.convs) /\ Len(m.told) = Len(m.convs) /\ Len(m.convs) \in Nat
    BY DEF Good, Fits, Mains
  <1>b. MaxConvs \in Nat /\ MaxMessages \in Nat
    BY PamAssumption
  <1>c. /\ c \in Conversations /\ c.pid = pid /\ c.exists = TRUE /\ c.connected = TRUE
        /\ c.in = <<>> /\ c.out = <<>>
    BY DEF Conversation, Conversations
  <1>d. /\ d \in Subprocesses /\ d.phase = FirstPhase(pid) /\ d.mixed = FALSE
    <2>1. FirstPhase(pid) \in {"none", "runs", "waits", "exited", "reaped"}
      BY DEF FirstPhase
    <2>2. 0 \in 0..MaxMessages
      BY <1>b
    <2> QED
      BY <2>1, <2>2 DEF Child, Subprocesses
  <1>e. x \in Contexts /\ x.conv = i /\ x.required = m.context.required
        /\ x.answered = m.context.answered
    <2>1. i \in Nat
      BY <1>a
    <2> HIDE DEF i
    <2> QED
      BY <2>1, <1>a DEF Contexts
  <1>f. <<>> \in Seq(Codes)
    OBVIOUS
  <1> HIDE DEF c, d
  <1>g. /\ Append(m.convs, c) \in Seq(Conversations) /\ Len(Append(m.convs, c)) = i
        /\ Append(m.children, d) \in Seq(Subprocesses) /\ Len(Append(m.children, d)) = i
        /\ Append(m.told, <<>>) \in Seq(Seq(Codes)) /\ Len(Append(m.told, <<>>)) = i
        /\ Append(m.convs, c)[i] = c /\ Append(m.children, d)[i] = d
        /\ \A j \in 1..Len(m.convs) : /\ Append(m.convs, c)[j] = m.convs[j]
                                      /\ Append(m.children, d)[j] = m.children[j]
    BY <1>a, <1>c, <1>d, <1>f, AppendProperties
  <1>h. n = [m EXCEPT !.context = x, !.convs = Append(m.convs, c),
                      !.children = Append(m.children, d), !.told = Append(m.told, <<>>)]
    BY <1>a DEF Made, Mains, c, d
  <1> HIDE DEF n, x
  <1>i. /\ n \in Mains
        /\ n.context = x /\ n.convs = Append(m.convs, c) /\ n.children = Append(m.children, d)
        /\ n.told = Append(m.told, <<>>)
    BY <1>a, <1>e, <1>g, <1>h DEF Mains
  <1>1. Fits(n)
    BY <1>a, <1>b, <1>e, <1>g, <1>i DEF Fits
  <1>2. Pids(n)
    <2>1. Sane(c, d) /\ (pid = "every" => d.phase = "none") /\ (pid # "every" => PidFits(c, d))
      BY <1>c, <1>d DEF Sane, PidFits, FirstPhase
    <2>2. \A j \in 1..Len(n.convs) : Sane(n.convs[j], n.children[j])
      <3>1. \A j \in 1..Len(m.convs) : Sane(m.convs[j], m.children[j])
        BY DEF Good, Pids
      <3> QED
        BY <2>1, <3>1, <1>a, <1>g, <1>i
    <2>3. CASE \E j \in 1..Len(m.convs) : m.children[j].phase = "none"
      <3>1. PICK j \in 1..Len(m.convs) : m.children[j].phase = "none"
        BY <2>3
      <3>2. j \in 1..Len(n.convs) /\ n.children[j].phase = "none"
        BY <3>1, <1>a, <1>g, <1>i
      <3> QED
        BY <2>2, <3>2, Zenon DEF Pids
    <2>4. CASE pid = "every"
      <3>1. i \in 1..Len(n.convs) /\ n.children[i].phase = "none"
        BY <2>1, <2>4, <1>a, <1>g, <1>i
      <3> QED
        BY <2>2, <3>1, Zenon DEF Pids
    <2>5. CASE pid # "every" /\ \A j \in 1..Len(m.convs) : PidFits(m.convs[j], m.children[j])
      BY <2>1, <2>2, <2>5, <1>a, <1>g, <1>i DEF Pids
    <2> QED
      BY <2>3, <2>4, <2>5 DEF Good, Pids
  <1>3. ASSUME patient PROVE Prompts(n)
    <2>1. Prompts(m) /\ m.context.required = 0
      BY <1>3 DEF Good, Prompts
    <2>2. InStep(x, TRUE, c, d)
      <3>1. d.phase # "waits"
        BY <1>d DEF FirstPhase
      <3> QED
        BY <3>1, <2>1, <1>c, <1>d, <1>e DEF InStep, Infos, Idle
    <2>3. ASSUME NEW j \in 1..Len(m.convs)
          PROVE  InStep(x, FALSE, n.convs[j], n.children[j])
      <3>1. InStep(m.context, FALSE, m.convs[j], m.children[j])
        BY <2>1 DEF Prompts, InStep
      <3> QED
        BY <3>1, <1>g, <1>i DEF InStep
    <2>4. ASSUME NEW j \in 1..Len(n.convs)
          PROVE  InStep(n.context, n.context.conv = j, n.convs[j], n.children[j])
      <3>1. CASE j = i
        BY <3>1, <2>2, <1>e, <1>g, <1>i DEF InStep
      <3>2. CASE j # i
        <4>1. j \in 1..Len(m.convs)
          BY <3>2, <1>a, <1>g, <1>i
        <4> QED
          BY <4>1, <3>2, <2>3, <1>e, <1>i DEF InStep
      <3> QED
        BY <3>1, <3>2
    <2>5. n.context.conv # 0
      BY <1>a, <1>e, <1>i
    <2> QED
      BY <2>4, <2>5, Zenon DEF Prompts
  <1> QED
    BY <1>1, <1>2, <1>3, <1>g, <1>i DEF Good, n

LEMMA StartGood ==
    ASSUME NEW m, Good(m), Len(m.convs) < MaxConvs, NEW n \in StartConversation(m)
    PROVE  Good(n)
  <1>1. CASE ~m.context.post \/ m.context.conv # 0
    BY <1>1 DEF StartConversation
  <1>2. CASE ~(~m.context.post \/ m.context.conv # 0)
    <2>1. Good(Made(m, "own")) /\ Good(Made(m, "every")) /\ Good(Made(m, "none"))
          /\ Len(Made(m, "none").convs) = Len(m.convs) + 1
      BY <1>2, MadeGood
    <2>2. Good([m EXCEPT !.context.target = FALSE])
      BY ContextGood
    <2>3. Good(Completes(Made(m, "none"), Len(m.convs) + 1, "Error"))
      <3>1. Len(m.convs) + 1 \in 1..Len(Made(m, "none").convs)
        BY <2>1 DEF Good, Fits, Mains
      <3>2. "Error" \in Codes
        BY DEF Codes
      <3> QED
        BY <3>1, <3>2, <2>1, CompletesGood
    <2>4. n \in {[m EXCEPT !.context.target = FALSE], Made(m, "own"), Made(m, "every"),
                 Completes(Made(m, "none"), Len(m.convs) + 1, "Error")}
      BY <1>2, Zenon DEF StartConversation, Made, FirstPhase
    <2> QED
      BY <2>1, <2>2, <2>3, <2>4
  <1> QED
    BY <1>1, <1>2
-----------------------------------------------------------------------------
(* One conversation and its subprocess change, and what the context knows  *)
(* if the conversation is its own.                                         *)

OneChanges(m, i, x, c, d) == [m EXCEPT !.context = x, !.convs[i] = c, !.children[i] = d]

LEMMA OneChangesEffect ==
    ASSUME NEW m \in Mains, Fits(m), NEW i \in 1..Len(m.convs),
           NEW x \in Contexts, NEW c \in Conversations, NEW d \in Subprocesses,
           x.conv = m.context.conv
    PROVE  LET n == OneChanges(m, i, x, c, d)
           IN  /\ Fits(n)
               /\ n.context = x /\ Len(n.convs) = Len(m.convs) /\ n.told = m.told
               /\ n.convs[i] = c /\ n.children[i] = d
               /\ \A j \in 1..Len(m.convs) : j # i => /\ n.convs[j] = m.convs[j]
                                                      /\ n.children[j] = m.children[j]
  <1> DEFINE convsNow == [m.convs EXCEPT ![i] = c]
             childrenNow == [m.children EXCEPT ![i] = d]
             n == OneChanges(m, i, x, c, d)
  <1>1. m.convs \in Seq(Conversations) /\ m.children \in Seq(Subprocesses)
        /\ Len(m.children) = Len(m.convs)
    BY DEF Fits, Mains
  <1>2. convsNow \in Seq(Conversations) /\ Len(convsNow) = Len(m.convs) /\ convsNow[i] = c
        /\ \A j \in 1..Len(m.convs) : j # i => convsNow[j] = m.convs[j]
    BY <1>1, ExceptSeq
  <1>3. childrenNow \in Seq(Subprocesses) /\ Len(childrenNow) = Len(m.convs) /\ childrenNow[i] = d
        /\ \A j \in 1..Len(m.convs) : j # i => childrenNow[j] = m.children[j]
    BY <1>1, ExceptSeq
  <1>4. n = [m EXCEPT !.context = x, !.convs = convsNow, !.children = childrenNow]
    BY DEF OneChanges, Mains
  <1> HIDE DEF n, convsNow, childrenNow
  <1>5. /\ n \in Mains /\ n.context = x /\ n.convs = convsNow /\ n.children = childrenNow
        /\ n.told = m.told
    BY <1>2, <1>3, <1>4 DEF Mains
  <1>6. Fits(n)
    BY <1>1, <1>2, <1>3, <1>5 DEF Fits
  <1> QED
    BY <1>2, <1>3, <1>5, <1>6 DEF n

LEMMA OneChangesGood ==
    ASSUME NEW m, Good(m), NEW i \in 1..Len(m.convs),
           NEW x \in Contexts, NEW c \in Conversations, NEW d \in Subprocesses,
           x.conv = m.context.conv, patient => x = m.context \/ x.conv = i,
           Sane(c, d), m.children[i].phase = "none" => d.phase = "none",
           PidFits(m.convs[i], m.children[i]) => PidFits(c, d),
           patient /\ Prompts(m) => InStep(x, x.conv = i, c, d)
    PROVE  Good(OneChanges(m, i, x, c, d))
  <1> DEFINE n == OneChanges(m, i, x, c, d)
  <1>1. /\ Fits(n) /\ n.context = x /\ Len(n.convs) = Len(m.convs)
        /\ n.convs[i] = c /\ n.children[i] = d
        /\ \A j \in 1..Len(m.convs) : j # i => /\ n.convs[j] = m.convs[j]
                                               /\ n.children[j] = m.children[j]
    BY OneChangesEffect DEF Good, Fits
  <1> HIDE DEF n
  <1>2. Pids(n)
    <2>1. \A j \in 1..Len(n.convs) : Sane(n.convs[j], n.children[j])
      BY <1>1 DEF Good, Pids
    <2>2. CASE \E j \in 1..Len(m.convs) : m.children[j].phase = "none"
      <3>1. PICK j \in 1..Len(m.convs) : m.children[j].phase = "none"
        BY <2>2
      <3>2. n.children[j].phase = "none"
        BY <3>1, <1>1
      <3> QED
        BY <2>1, <3>2, <1>1 DEF Pids
    <2>3. CASE \A j \in 1..Len(m.convs) : PidFits(m.convs[j], m.children[j])
      <3>1. \A j \in 1..Len(n.convs) : PidFits(n.convs[j], n.children[j])
        BY <2>3, <1>1
      <3> QED
        BY <2>1, <3>1 DEF Pids
    <2> QED
      BY <2>2, <2>3 DEF Good, Pids
  <1>3. ASSUME patient PROVE Prompts(n)
    <2>1. Prompts(m)
      BY <1>3 DEF Good
    <2>2. ASSUME NEW j \in 1..Len(n.convs)
          PROVE  InStep(n.context, n.context.conv = j, n.convs[j], n.children[j])
      <3>1. CASE j = i
        BY <3>1, <2>1, <1>1, <1>3 DEF InStep
      <3>2. CASE j # i
        <4>1. InStep(m.context, m.context.conv = j, m.convs[j], m.children[j])
          BY <2>1, <1>1 DEF Prompts
        <4> QED
          BY <4>1, <3>2, <1>1, <1>3 DEF InStep
      <3> QED
        BY <3>1, <3>2
    <2>3. n.context.conv = 0 => n.context.required = 0
      BY <2>1, <1>1, <1>3 DEF Prompts
    <2> QED
      BY <2>2, <2>3, Zenon DEF Prompts
  <1> QED
    BY <1>1, <1>2, <1>3 DEF Good, n

\* What a subprocess sends, and what is read of it.
LEMMA QueueFacts ==
    ASSUME NEW q \in Seq(Messages), NEW n
    PROVE  /\ Infos(q) => Infos(Append(q, Info))
           /\ Infos(q) => PromptLast(Append(q, Prompt(n)), n)
           /\ q # <<>> /\ Infos(q) => Head(q) = Info /\ Infos(Tail(q))
           /\ PromptLast(q, n) => \/ Head(q) = Info /\ PromptLast(Tail(q), n)
                                  \/ Head(q) = Prompt(n) /\ Tail(q) = <<>>
  <1>1. Infos(q) => Infos(Append(q, Info))
    BY DEF Infos
  <1>2. ASSUME Infos(q) PROVE PromptLast(Append(q, Prompt(n)), n)
    BY <1>2 DEF Infos, PromptLast
  <1>3. q # <<>> /\ Infos(q) => Head(q) = Info /\ Infos(Tail(q))
    BY DEF Infos
  <1>4. ASSUME PromptLast(q, n)
        PROVE  \/ Head(q) = Info /\ PromptLast(Tail(q), n)
               \/ Head(q) = Prompt(n) /\ Tail(q) = <<>>
    <2>a. /\ q # <<>> /\ q[Len(q)] = Prompt(n) /\ Len(q) \in Nat /\ Len(q) # 0
          /\ \A k \in 1..Len(q) - 1 : q[k] = Info
      BY <1>4 DEF PromptLast
    <2>b. /\ Head(q) = q[1] /\ Tail(q) \in Seq(Messages) /\ Len(Tail(q)) = Len(q) - 1
          /\ \A k \in 1..Len(Tail(q)) : Tail(q)[k] = q[k + 1]
      BY <2>a, HeadTailProperties
    <2>c. Tail(q) = <<>> <=> Len(Tail(q)) = 0
      BY <2>b, EmptySeq
    <2>1. CASE Len(q) = 1
      BY <2>1, <2>a, <2>b, <2>c
    <2>2. CASE Len(q) # 1
      <3>1. Tail(q)[Len(Tail(q))] = Prompt(n) /\ Head(q) = Info
        BY <2>2, <2>a, <2>b
      <3>2. Tail(q) # <<>>
        BY <2>2, <2>a, <2>b, <2>c
      <3>3. \A k \in 1..Len(Tail(q)) - 1 : Tail(q)[k] = Info
        BY <2>2, <2>a, <2>b
      <3> QED
        BY <3>1, <3>2, <3>3 DEF PromptLast
    <2> QED
      BY <2>1, <2>2
  <1> QED
    BY <1>1, <1>2, <1>3, <1>4, Zenon
-----------------------------------------------------------------------------
(* The actions.                                                            *)

PamInv == Good(Main) /\ responses \in 0..MaxResponses /\ patient \in BOOLEAN

LEMMA MainTyped ==
    ASSUME PamInv
    PROVE  /\ Main \in Mains /\ Main.context = context /\ Main.convs = convs
           /\ Main.children = children /\ Main.told = told
           /\ context \in Contexts /\ DOMAIN convs = 1..Len(convs)
           /\ DOMAIN children = 1..Len(convs)
           /\ \A i \in 1..Len(convs) : convs[i] \in Conversations /\ children[i] \in Subprocesses
           /\ MaxMessages \in Nat
  <1>1. Main.context = context /\ Main.convs = convs /\ Main.children = children
        /\ Main.told = told
    BY DEF Main
  <1>2. Main \in Mains /\ Len(Main.children) = Len(Main.convs)
    BY DEF PamInv, Good, Fits
  <1>3. /\ context \in Contexts /\ convs \in Seq(Conversations)
        /\ children \in Seq(Subprocesses) /\ Len(children) = Len(convs)
    BY <1>1, <1>2 DEF Mains
  <1>4. \A i \in 1..Len(convs) : convs[i] \in Conversations /\ children[i] \in Subprocesses
    BY <1>3, ElementOfSeq
  <1> QED
    BY <1>1, <1>2, <1>3, <1>4, LenProperties, PamAssumption

\* An action that becomes a good state.
LEMMA BecomesGood ==
    ASSUME PamInv, NEW n \in Mains, Good(n), context' = n.context, convs' = n.convs,
           children' = n.children, told' = n.told, responses' \in 0..MaxResponses,
           patient' = patient
    PROVE  PamInv'
  <1>1. Main' = n
    BY DEF Main, Mains
  <1>2. Fits(Main')
    BY <1>1 DEF Good
  <1>3. Pids(Main')
    BY <1>1 DEF Good
  <1>4. patient => Prompts(Main')
    BY <1>1 DEF Good
  <1>5. Good(Main)'
    BY <1>2, <1>3, <1>4 DEF Good, Fits, Pids, Prompts, Sane, PidFits, InStep, Idle, Infos, PromptLast
  <1> QED
    BY <1>5 DEF PamInv

LEMMA OneChangesStep ==
    ASSUME PamInv, NEW i \in 1..Len(convs),
           NEW c \in Conversations, NEW d \in Subprocesses,
           Sane(c, d), children[i].phase = "none" => d.phase = "none",
           PidFits(convs[i], children[i]) => PidFits(c, d),
           patient /\ InStep(context, context.conv = i, convs[i], children[i])
               => InStep(context, context.conv = i, c, d),
           convs' = [convs EXCEPT ![i] = c], children' = [children EXCEPT ![i] = d],
           UNCHANGED <<context, told, responses, patient>>
    PROVE  PamInv'
  <1> DEFINE n == OneChanges(Main, i, context, c, d)
  <1>1. patient /\ Prompts(Main) => InStep(context, context.conv = i, c, d)
    BY MainTyped DEF Prompts
  <1>2. Good(n)
    BY <1>1, MainTyped, OneChangesGood DEF PamInv
  <1>3. n.context = context /\ n.convs = convs' /\ n.children = children' /\ n.told = told
    BY MainTyped DEF OneChanges, Main
  <1>4. n \in Mains
    BY <1>2 DEF Good, Fits
  <1> HIDE DEF n
  <1> QED
    BY <1>2, <1>3, <1>4, BecomesGood DEF PamInv

LEMMA SaysGood ==
    ASSUME PamInv, NEW i \in DOMAIN children, NEW message \in {"info", "prompt"},
           ChildSays(i, message)
    PROVE  PamInv'
  <1> DEFINE n == children[i].sent + 1
             said == IF message = "info" THEN Info ELSE Prompt(n)
             c == [convs[i] EXCEPT !.in = Append(convs[i].in, said)]
             prompt == IF message = "info" THEN children[i].prompt ELSE n
             phase == IF message = "info" THEN children[i].phase ELSE "waits"
             d == [children[i] EXCEPT !.sent = n, !.prompt = prompt, !.phase = phase]
  <1>a. /\ i \in 1..Len(convs) /\ convs[i] \in Conversations /\ children[i] \in Subprocesses
        /\ children[i].phase = "runs" /\ children[i].sent < MaxMessages /\ MaxMessages \in Nat
    BY MainTyped DEF ChildSays, Runs
  <1>b. /\ n \in 1..MaxMessages /\ n \in 0..MaxMessages /\ n # 0 /\ 0 \in 0..MaxMessages
        /\ prompt \in 0..MaxMessages /\ phase \in {"runs", "waits"}
        /\ message = "info" => phase = "runs"
        /\ message = "prompt" => phase = "waits" /\ prompt = n
    BY <1>a DEF Subprocesses
  <1>c. said \in Messages
    <2> HIDE DEF n
    <2> QED
      BY <1>b DEF Info, Prompt, Messages
  <1>d. convs[i].in \in Seq(Messages) /\ Append(convs[i].in, said) \in Seq(Messages)
    BY <1>a, <1>c, AppendProperties DEF Conversations
  <1>e. /\ c \in Conversations /\ c.pid = convs[i].pid /\ c.exists = convs[i].exists
        /\ c.connected = convs[i].connected /\ c.out = convs[i].out
        /\ c.in = Append(convs[i].in, said)
    <2> HIDE DEF said
    <2> QED
      BY <1>a, <1>d DEF Conversations
  <1>f. /\ d \in Subprocesses /\ d.mixed = children[i].mixed
        /\ message = "info" => d.phase = "runs"
        /\ message = "prompt" => d.phase = "waits" /\ d.prompt = n
    <2> HIDE DEF n, prompt, phase
    <2> QED
      BY <1>a, <1>b DEF Subprocesses
  <1>g. convs' = [convs EXCEPT ![i] = c] /\ children' = [children EXCEPT ![i] = d]
    BY <1>a DEF ChildSays
  <1>h. UNCHANGED <<context, told, responses, patient>>
    BY DEF ChildSays, ShellOnly
  <1>i. Sane(convs[i], children[i])
    BY <1>a, MainTyped DEF PamInv, Good, Pids
  <1>j. Infos(convs[i].in) => IF message = "info" THEN Infos(c.in) ELSE PromptLast(c.in, n)
    <2>1. CASE message = "info"
      BY <2>1, <1>d, <1>e, QueueFacts
    <2>2. CASE message = "prompt"
      BY <2>2, <1>d, <1>e, QueueFacts
    <2> QED
      BY <2>1, <2>2
  <1> HIDE DEF c, d, said, n, prompt, phase
  <1>1. Sane(c, d)
    BY <1>a, <1>e, <1>f, <1>i DEF Sane
  <1>2. PidFits(convs[i], children[i]) => PidFits(c, d)
    BY <1>a, <1>e, <1>f DEF PidFits
  <1>3. ASSUME InStep(context, context.conv = i, convs[i], children[i])
        PROVE  InStep(context, context.conv = i, c, d)
    <2>1. CASE message = "info"
      BY <2>1, <1>3, <1>a, <1>e, <1>f, <1>j DEF InStep
    <2>2. CASE message = "prompt"
      BY <2>2, <1>3, <1>a, <1>b, <1>e, <1>f, <1>j DEF InStep
    <2> QED
      BY <2>1, <2>2
  <1> QED
    BY <1>1, <1>2, <1>3, <1>a, <1>e, <1>f, <1>g, <1>h, OneChangesStep

LEMMA ReadsGood ==
    ASSUME PamInv, NEW i \in DOMAIN children, ChildReads(i)
    PROVE  PamInv'
  <1> DEFINE answer == Head(convs[i].out)
             c == [convs[i] EXCEPT !.out = Tail(convs[i].out)]
             mixed == children[i].mixed \/ answer # children[i].prompt
             d == [children[i] EXCEPT !.phase = "runs", !.prompt = 0, !.mixed = mixed]
  <1>a. /\ i \in 1..Len(convs) /\ convs[i] \in Conversations /\ children[i] \in Subprocesses
        /\ children[i].phase = "waits" /\ convs[i].out # <<>> /\ MaxMessages \in Nat
    BY MainTyped DEF ChildReads
  <1>b. convs[i].out \in Seq(0..MaxMessages) /\ Tail(convs[i].out) \in Seq(0..MaxMessages)
    BY <1>a, HeadTailProperties DEF Conversations
  <1>c. /\ c \in Conversations /\ c.pid = convs[i].pid /\ c.exists = convs[i].exists
        /\ c.connected = convs[i].connected /\ c.out = Tail(convs[i].out) /\ c.in = convs[i].in
    BY <1>a, <1>b DEF Conversations
  <1>d. /\ d \in Subprocesses /\ d.phase = "runs" /\ d.mixed = mixed
    <2>1. mixed \in BOOLEAN /\ 0 \in 0..MaxMessages
      BY <1>a
    <2> HIDE DEF mixed
    <2> QED
      BY <2>1, <1>a DEF Subprocesses
  <1>e. convs' = [convs EXCEPT ![i] = c] /\ children' = [children EXCEPT ![i] = d]
    BY <1>a DEF ChildReads
  <1>f. UNCHANGED <<context, told, responses, patient>>
    BY DEF ChildReads, ShellOnly
  <1>g. Sane(convs[i], children[i])
    BY <1>a, MainTyped DEF PamInv, Good, Pids
  <1>h. /\ ~children[i].mixed /\ answer = children[i].prompt => ~mixed
    OBVIOUS
  <1> HIDE DEF c, d, mixed
  <1>1. Sane(c, d)
    BY <1>a, <1>c, <1>d, <1>g DEF Sane
  <1>2. PidFits(convs[i], children[i]) => PidFits(c, d)
    BY <1>a, <1>c, <1>d DEF PidFits
  <1>3. ASSUME InStep(context, context.conv = i, convs[i], children[i])
        PROVE  InStep(context, context.conv = i, c, d)
    <2>1. /\ convs[i].in = <<>> /\ convs[i].out = <<children[i].prompt>> /\ ~children[i].mixed
          /\ context.conv = i => Idle(context)
          /\ convs[i].connected <=> context.conv = i
      BY <1>3, <1>a DEF InStep, Idle
    <2>2. answer = children[i].prompt /\ Tail(convs[i].out) = <<>>
      BY <2>1
    <2>3. ~d.mixed
      BY <2>1, <2>2, <1>d, <1>h
    <2>4. Infos(c.in)
      BY <2>1, <1>c DEF Infos
    <2> QED
      BY <2>1, <2>2, <2>3, <2>4, <1>c, <1>d DEF InStep
  <1> QED
    BY <1>1, <1>2, <1>3, <1>a, <1>c, <1>d, <1>e, <1>f, OneChangesStep

LEMMA ExitsGood ==
    ASSUME PamInv, NEW i \in DOMAIN children, NEW code \in Codes, ChildExits(i, code)
    PROVE  PamInv'
  <1> DEFINE c == [convs[i] EXCEPT !.in = Append(convs[i].in, Exit(code))]
             d == [children[i] EXCEPT !.phase = "exited", !.code = code]
  <1>a. /\ i \in 1..Len(convs) /\ convs[i] \in Conversations /\ children[i] \in Subprocesses
        /\ children[i].phase = "runs" /\ MaxMessages \in Nat
    BY MainTyped DEF ChildExits, Runs
  <1>b. Exit(code) \in Messages
    <2>1. 0 \in 0..MaxMessages
      BY <1>a
    <2> QED
      BY <2>1 DEF Exit, Messages
  <1>c. Append(convs[i].in, Exit(code)) \in Seq(Messages)
    BY <1>a, <1>b, AppendProperties DEF Conversations
  <1>d. /\ c \in Conversations /\ c.pid = convs[i].pid /\ c.exists = convs[i].exists
        /\ c.connected = convs[i].connected
    BY <1>a, <1>c DEF Conversations
  <1>e. d \in Subprocesses /\ d.phase = "exited" /\ d.mixed = children[i].mixed
    BY <1>a DEF Subprocesses
  <1>f. convs' = [convs EXCEPT ![i] = c] /\ children' = [children EXCEPT ![i] = d]
    BY <1>a DEF ChildExits
  <1>g. UNCHANGED <<context, told, responses, patient>>
    BY DEF ChildExits, ShellOnly
  <1>h. Sane(convs[i], children[i])
    BY <1>a, MainTyped DEF PamInv, Good, Pids
  <1> HIDE DEF c, d
  <1>1. Sane(c, d)
    BY <1>a, <1>d, <1>e, <1>h DEF Sane
  <1>2. PidFits(convs[i], children[i]) => PidFits(c, d)
    BY <1>a, <1>d, <1>e DEF PidFits
  <1>3. InStep(context, context.conv = i, convs[i], children[i])
            => InStep(context, context.conv = i, c, d)
    BY <1>d, <1>e DEF InStep
  <1> QED
    BY <1>1, <1>2, <1>3, <1>a, <1>d, <1>e, <1>f, <1>g, OneChangesStep

LEMMA CrashesGood ==
    ASSUME PamInv, NEW i \in DOMAIN children, ChildCrashes(i)
    PROVE  PamInv'
  <1> DEFINE d == [children[i] EXCEPT !.phase = "exited"]
  <1>a. /\ i \in 1..Len(convs) /\ convs[i] \in Conversations /\ children[i] \in Subprocesses
        /\ children[i].phase \in {"runs", "waits"}
    BY MainTyped DEF ChildCrashes
  <1>b. d \in Subprocesses /\ d.phase = "exited" /\ d.mixed = children[i].mixed
    BY <1>a DEF Subprocesses
  <1>c. convs' = [convs EXCEPT ![i] = convs[i]] /\ children' = [children EXCEPT ![i] = d]
    <2>1. convs' = convs
      BY DEF ChildCrashes
    <2>2. convs \in Seq(Conversations)
      BY MainTyped DEF Mains
    <2> QED
      BY <1>a, <2>1, <2>2 DEF ChildCrashes
  <1>d. UNCHANGED <<context, told, responses, patient>>
    BY DEF ChildCrashes, ShellOnly
  <1>e. Sane(convs[i], children[i])
    BY <1>a, MainTyped DEF PamInv, Good, Pids
  <1> HIDE DEF d
  <1>1. Sane(convs[i], d)
    BY <1>a, <1>b, <1>e DEF Sane
  <1>2. PidFits(convs[i], children[i]) => PidFits(convs[i], d)
    BY <1>a, <1>b DEF PidFits
  <1>3. InStep(context, context.conv = i, convs[i], children[i])
            => InStep(context, context.conv = i, convs[i], d)
    BY <1>b DEF InStep
  <1> QED
    BY <1>1, <1>2, <1>3, <1>a, <1>b, <1>c, <1>d, OneChangesStep

LEMMA DestroyGood ==
    ASSUME PamInv, NEW i \in DOMAIN convs, Destroy(i)
    PROVE  PamInv'
  <1> DEFINE k == Kill(Main, i)
             c == [k.convs[i] EXCEPT !.exists = FALSE]
             n == OneChanges(k, i, k.context, c, k.children[i])
  <1>a. i \in 1..Len(Main.convs)
    BY MainTyped
  <1>b. Good(k) /\ Len(k.convs) = Len(Main.convs) /\ k.convs[i].pid = "none"
    BY <1>a, KillGood, KillKeeps DEF PamInv, Good
  <1>c. /\ k \in Mains /\ k.context \in Contexts /\ k.convs \in Seq(Conversations)
        /\ k.children \in Seq(Subprocesses) /\ Len(k.children) = Len(k.convs)
    BY <1>b DEF Good, Fits, Mains
  <1>d. k.convs[i] \in Conversations /\ k.children[i] \in Subprocesses
    BY <1>a, <1>b, <1>c, ElementOfSeq
  <1>e. [k EXCEPT !.convs[i].exists = FALSE] = n
    <2>1. k.children = [k.children EXCEPT ![i] = k.children[i]]
      BY <1>c, <1>a, <1>b
    <2> HIDE DEF k
    <2> QED
      BY <2>1, <1>c DEF OneChanges, Mains
  <1>f. /\ context' = n.context /\ convs' = n.convs /\ children' = n.children /\ told' = n.told
        /\ UNCHANGED <<responses, patient>>
    <2> HIDE DEF n
    <2> QED
      BY <1>e DEF Destroy, Becomes, MainOnly
  <1> HIDE DEF k
  <1>g. /\ c \in Conversations /\ c.pid = "none" /\ c.exists = FALSE /\ c.in = k.convs[i].in
        /\ c.out = k.convs[i].out /\ c.connected = k.convs[i].connected
    BY <1>b, <1>d DEF Conversations
  <1> HIDE DEF c
  <1>1. Sane(k.convs[i], k.children[i])
    BY <1>a, <1>b DEF Good, Pids
  <1>2. Sane(c, k.children[i])
    BY <1>1, <1>b, <1>g DEF Sane
  <1>3. PidFits(c, k.children[i])
    BY <1>g DEF PidFits
  <1>4. Prompts(k) => InStep(k.context, k.context.conv = i, c, k.children[i])
    <2>1. Prompts(k) => InStep(k.context, k.context.conv = i, k.convs[i], k.children[i])
      BY <1>a, <1>b DEF Prompts
    <2> QED
      BY <2>1, <1>g DEF InStep
  <1>5. Good(n)
    BY <1>2, <1>3, <1>4, <1>a, <1>b, <1>c, <1>d, <1>g, OneChangesGood
  <1>6. n \in Mains
    BY <1>5 DEF Good, Fits
  <1> HIDE DEF n
  <1> QED
    BY <1>5, <1>6, <1>f, BecomesGood DEF PamInv

LEMMA RespondGood ==
    ASSUME PamInv, Respond
    PROVE  PamInv'
  <1> DEFINE i == context.conv
             x == [context EXCEPT !.answered = context.required]
             m == [Main EXCEPT !.context = x]
             gone == convs[i].pid # "own" \/ children[i].phase \notin {"runs", "waits"}
             c == [convs[i] EXCEPT !.out = Append(convs[i].out, context.required)]
             n == OneChanges(Main, i, x, c, children[i])
  <1>a. /\ i \in 1..Len(Main.convs) /\ i # 0 /\ context \in Contexts /\ Main \in Mains
        /\ convs[i] \in Conversations /\ children[i] \in Subprocesses
        /\ Main.convs = convs /\ Main.children = children /\ Main.context = context
        /\ convs \in Seq(Conversations) /\ children \in Seq(Subprocesses)
    <2>1. context.conv \in 0..Len(convs) /\ context.conv # 0 /\ Len(convs) \in Nat
      BY MainTyped DEF PamInv, Good, Fits, Respond, Active, Mains
    <2> QED
      BY <2>1, MainTyped DEF Mains
  <1>b. /\ x \in Contexts /\ x.conv = context.conv /\ x.required = context.required
        /\ x.answered = context.required
    BY <1>a DEF Contexts
  <1>c. /\ responses < MaxResponses /\ responses' = responses + 1 /\ patient' = patient
        /\ context.required # 0 /\ (patient => context.answered # context.required)
    BY DEF Respond
  <1>d. responses' \in 0..MaxResponses
    BY <1>c, PamAssumption DEF PamInv
  <1>e. Sane(convs[i], children[i])
    BY <1>a DEF PamInv, Good, Pids
  <1>f. patient => InStep(context, TRUE, convs[i], children[i])
    <2>1. patient => InStep(context, context.conv = i, convs[i], children[i])
      BY <1>a DEF PamInv, Good, Prompts
    <2> QED
      BY <2>1 DEF InStep
  <1>g. Becomes({IF gone THEN InternalError(m, i)
                 ELSE [m EXCEPT !.convs[i].out = Append(@, context.required)]})
    BY <1>a DEF Respond, Main, Mains
  <1>1. CASE gone
    <2>1. children[i].phase \notin {"runs", "waits"}
      BY <1>1, <1>e DEF Sane
    <2>2. m = OneChanges(Main, i, x, convs[i], children[i])
      <3>1. convs = [convs EXCEPT ![i] = convs[i]] /\ children = [children EXCEPT ![i] = children[i]]
        BY <1>a
      <3> HIDE DEF x
      <3> QED
        BY <3>1, <1>a DEF OneChanges, Mains
    <2>3. patient /\ Prompts(Main) => InStep(x, x.conv = i, convs[i], children[i])
      BY <2>1, <1>f, <1>b DEF InStep
    <2> HIDE DEF x, m
    <2>4. Good(m)
      BY <2>2, <2>3, <1>a, <1>b, <1>e, OneChangesGood DEF PamInv
    <2>5. m.convs = convs
      BY <1>a DEF m, Mains
    <2>6. Good(InternalError(m, i))
      BY <2>4, <2>5, <1>a, InternalErrorGood
    <2>7. /\ context' = InternalError(m, i).context /\ convs' = InternalError(m, i).convs
          /\ children' = InternalError(m, i).children /\ told' = InternalError(m, i).told
      BY <1>1, <1>g DEF Becomes
    <2>8. InternalError(m, i) \in Mains
      BY <2>6 DEF Good, Fits
    <2> QED
      BY <2>6, <2>7, <2>8, <1>c, <1>d, BecomesGood
  <1>2. CASE ~gone
    <2>1. convs[i].out \in Seq(0..MaxMessages) /\ context.required \in 0..MaxMessages
      BY <1>a DEF Conversations, Contexts
    <2>2. Append(convs[i].out, context.required) \in Seq(0..MaxMessages)
      BY <2>1, AppendProperties
    <2>3. /\ c \in Conversations /\ c.pid = convs[i].pid /\ c.exists = convs[i].exists
          /\ c.connected = convs[i].connected /\ c.in = convs[i].in
          /\ c.out = Append(convs[i].out, context.required)
      BY <2>2, <1>a DEF Conversations
    <2>4. /\ context' = n.context /\ convs' = n.convs /\ children' = n.children /\ told' = n.told
      <3>1. children = [children EXCEPT ![i] = children[i]]
        BY <1>a
      <3>2. [m EXCEPT !.convs[i].out = Append(@, context.required)] = n
        <4> HIDE DEF x
        <4> QED
          BY <3>1, <1>a DEF OneChanges, Mains
      <3> HIDE DEF n, m
      <3> QED
        BY <3>2, <1>2, <1>g DEF Becomes
    <2> HIDE DEF c, x
    <2>5. Sane(c, children[i])
      BY <2>3, <1>e DEF Sane
    <2>6. PidFits(convs[i], children[i]) => PidFits(c, children[i])
      BY <2>3 DEF PidFits
    <2>7. patient => InStep(x, x.conv = i, c, children[i])
      <3>1. SUFFICES ASSUME patient PROVE InStep(x, TRUE, c, children[i])
        BY <1>b DEF InStep
      <3>2. InStep(context, TRUE, convs[i], children[i]) /\ ~Idle(context)
        BY <3>1, <1>c, <1>f DEF Idle
      <3>3. /\ convs[i].connected /\ ~children[i].mixed /\ children[i].phase # "runs"
            /\ children[i].phase = "waits" =>
                 /\ children[i].prompt # 0 /\ convs[i].in = <<>> /\ convs[i].out = <<>>
                 /\ context.required = children[i].prompt
        BY <3>2, <1>c, <3>1 DEF InStep
      <3>4. convs[i].out = <<>> => c.out = <<context.required>>
        BY <2>1, <2>3
      <3> QED
        BY <3>3, <3>4, <2>3, <1>b DEF InStep
    <2>8. Good(n)
      BY <2>3, <2>5, <2>6, <2>7, <1>a, <1>b, OneChangesGood DEF PamInv
    <2>9. n \in Mains
      BY <2>8 DEF Good, Fits
    <2> HIDE DEF n
    <2> QED
      BY <2>4, <2>8, <2>9, <1>c, <1>d, BecomesGood
  <1> QED
    BY <1>1, <1>2

\* A set of states, one of which the action becomes.
LEMMA BecomesOneGood ==
    ASSUME PamInv, NEW states, Becomes(states), \A n \in states : Good(n), MainOnly
    PROVE  PamInv'
  <1>1. PICK n \in states : /\ context' = n.context /\ convs' = n.convs
                            /\ children' = n.children /\ told' = n.told
    BY DEF Becomes
  <1>2. Good(n) /\ n \in Mains
    BY DEF Good, Fits
  <1> QED
    BY <1>1, <1>2, BecomesGood DEF PamInv, MainOnly

LEMMA ReceivedGood ==
    ASSUME PamInv, NEW i \in DOMAIN convs, convs[i].in # <<>>
    PROVE  LET message == Head(convs[i].in)
               m == [Main EXCEPT !.convs[i].in = Tail(@)]
           IN  IF message.kind \in {"info", "prompt"} THEN Good(Message(m, i, message))
               ELSE Good(Exited(m, i, message.kind))
  <1> DEFINE message == Head(convs[i].in)
             c == [convs[i] EXCEPT !.in = Tail(convs[i].in)]
             d == children[i]
             m == [Main EXCEPT !.convs[i].in = Tail(@)]
             x == [context EXCEPT !.required = message.n, !.answered = 0]
  <1>a. /\ i \in 1..Len(Main.convs) /\ context \in Contexts /\ Main \in Mains
        /\ convs[i] \in Conversations /\ d \in Subprocesses
        /\ Main.convs = convs /\ Main.children = children /\ Main.context = context
        /\ convs \in Seq(Conversations) /\ children \in Seq(Subprocesses)
        /\ Len(children) = Len(convs) /\ MaxMessages \in Nat /\ 0 \in 0..MaxMessages
    BY MainTyped DEF Mains, PamInv, Good, Fits
  <1>b. /\ convs[i].in \in Seq(Messages) /\ message \in Messages
        /\ Tail(convs[i].in) \in Seq(Messages)
    BY <1>a, HeadTailProperties DEF Conversations
  <1>c. /\ c \in Conversations /\ c.pid = convs[i].pid /\ c.exists = convs[i].exists
        /\ c.connected = convs[i].connected /\ c.in = Tail(convs[i].in) /\ c.out = convs[i].out
    BY <1>a, <1>b DEF Conversations
  <1>d. children = [children EXCEPT ![i] = d]
    BY <1>a
  <1>e. m = OneChanges(Main, i, context, c, d)
    BY <1>a, <1>d DEF OneChanges, Mains
  <1>f. Sane(convs[i], d)
    BY <1>a DEF PamInv, Good, Pids
  <1>g. Sane(c, d) /\ d.phase # "none"
    BY <1>c, <1>f DEF Sane
  <1>h. PidFits(convs[i], d) => PidFits(c, d)
    BY <1>c DEF PidFits
  <1>i. patient => InStep(context, context.conv = i, convs[i], d)
    BY <1>a DEF PamInv, Good, Prompts
  <1>j. Info.kind = "info" /\ Info.n = 0
        /\ \A n : Prompt(n).kind = "prompt" /\ Prompt(n).n = n
    BY DEF Info, Prompt
  <1>k. patient => /\ d.phase = "runs" => message = Info /\ Infos(c.in)
                   /\ d.phase = "waits" => \/ message = Info /\ PromptLast(c.in, d.prompt)
                                           \/ message = Prompt(d.prompt) /\ c.in = <<>>
    <2>1. ASSUME patient, d.phase = "runs" PROVE message = Info /\ Infos(c.in)
      BY <2>1, <1>b, <1>c, <1>i, QueueFacts DEF InStep
    <2>2. ASSUME patient, d.phase = "waits"
          PROVE  \/ message = Info /\ PromptLast(c.in, d.prompt)
                 \/ message = Prompt(d.prompt) /\ c.in = <<>>
      <3>1. PromptLast(convs[i].in, d.prompt)
        BY <2>2, <1>i DEF InStep
      <3> QED
        BY <3>1, <1>b, <1>c, QueueFacts
    <2> QED
      BY <2>1, <2>2
  <1>l. message.kind \in {"info", "prompt"} \cup Codes /\ message.n \in 0..MaxMessages
    BY <1>b DEF Messages
  <1>m. m.convs[i].connected = convs[i].connected /\ m.context = context
        /\ Len(m.convs) = Len(convs) /\ m.children = children
    <2>1. m.context = context /\ m.convs = [convs EXCEPT ![i] = c] /\ m.children = children
      BY <1>a DEF Mains
    <2> HIDE DEF m, c
    <2>2. [convs EXCEPT ![i] = c][i] = c /\ Len([convs EXCEPT ![i] = c]) = Len(convs)
      BY <1>a, <1>c, ExceptSeq
    <2> QED
      BY <2>1, <2>2, <1>c
  <1> HIDE DEF m, c, message, d
  <1>1. CASE message.kind \in {"info", "prompt"} /\ ~convs[i].connected
    <2>1. Message(m, i, message) = m
      BY <1>1, <1>m DEF Message
    <2>2. patient => InStep(context, context.conv = i, c, d)
      <3>1. SUFFICES ASSUME patient PROVE InStep(context, context.conv = i, c, d)
        OBVIOUS
      <3>2. context.conv # i
        BY <3>1, <1>1, <1>i DEF InStep
      <3>3. d.phase = "waits" => convs[i].out = <<>>
        BY <3>1, <1>i DEF InStep, PromptLast
      <3> QED
        BY <3>1, <3>2, <3>3, <1>c, <1>i, <1>k DEF InStep
    <2>3. Good(m)
      BY <2>2, <1>a, <1>c, <1>e, <1>g, <1>h, OneChangesGood DEF PamInv, d
    <2> QED
      BY <2>1, <2>3, <1>1 DEF message, m
  <1>2. CASE message.kind \in {"info", "prompt"} /\ convs[i].connected
    <2>1. /\ x \in Contexts /\ x.conv = context.conv /\ x.required = message.n /\ x.answered = 0
      BY <1>a, <1>l DEF Contexts
    <2>2. Message(m, i, message) = OneChanges(Main, i, x, c, d)
      <3>1. Message(m, i, message) = [m EXCEPT !.context = x]
        BY <1>2, <1>m, <1>a, <1>e DEF Message, OneChanges, Mains
      <3> HIDE DEF x
      <3>2. [OneChanges(Main, i, context, c, d) EXCEPT !.context = x] = OneChanges(Main, i, x, c, d)
        BY <1>a DEF OneChanges, Mains
      <3> QED
        BY <3>1, <3>2, <1>e
    <2> HIDE DEF x
    <2>3. patient => context.conv = i
      BY <1>2, <1>i DEF InStep
    <2>4. patient => InStep(x, x.conv = i, c, d)
      <3>1. SUFFICES ASSUME patient PROVE InStep(x, TRUE, c, d)
        BY <2>1, <2>3 DEF InStep
      <3>2. InStep(context, TRUE, convs[i], d)
        BY <3>1, <1>i, <2>3 DEF InStep
      <3>3. CASE d.phase = "runs"
        BY <3>1, <3>2, <3>3, <1>c, <1>j, <1>k, <2>1 DEF InStep, Idle
      <3>4. CASE d.phase = "waits"
        <4>1. convs[i].out = <<>> /\ d.prompt # 0
          BY <3>2, <3>4 DEF InStep, PromptLast
        <4>2. CASE message = Info /\ PromptLast(c.in, d.prompt)
          BY <4>1, <4>2, <3>2, <3>4, <1>c, <1>j, <2>1 DEF InStep, Idle
        <4>3. CASE message = Prompt(d.prompt) /\ c.in = <<>>
          <5>1. x.required = d.prompt /\ x.answered # d.prompt
            BY <4>1, <4>3, <1>j, <2>1
          <5> QED
            BY <5>1, <4>1, <4>3, <3>2, <3>4, <1>c DEF InStep
        <4> QED
          BY <4>2, <4>3, <3>1, <3>4, <1>k
      <3>5. CASE d.phase \notin {"runs", "waits"}
        BY <3>2, <3>5, <1>c DEF InStep
      <3> QED
        BY <3>3, <3>4, <3>5
    <2>5. Good(OneChanges(Main, i, x, c, d))
      BY <2>1, <2>3, <2>4, <1>a, <1>c, <1>g, <1>h, OneChangesGood DEF PamInv, d
    <2> QED
      BY <2>2, <2>5, <1>2 DEF message, m
  <1>3. CASE message.kind \notin {"info", "prompt"}
    <2> DEFINE b == Completes(m, i, message.kind)
               e == [b.convs[i] EXCEPT !.pid = "none"]
               f == [d EXCEPT !.phase = "reaped"]
    <2>1. message.kind \in Codes
      BY <1>3, <1>l
    <2>2. patient => InStep(context, context.conv = i, c, d)
      <3>1. patient => d.phase \notin {"runs", "waits"}
        BY <1>3, <1>j, <1>k
      <3> QED
        BY <3>1, <1>c, <1>i DEF InStep
    <2>3. Good(m)
      BY <2>2, <1>a, <1>c, <1>e, <1>g, <1>h, OneChangesGood DEF PamInv, d
    <2>4. Good(b) /\ Len(b.convs) = Len(convs) /\ b.children = children
      BY <2>1, <2>3, <1>a, <1>m, CompletesGood, CompletesFits DEF Good
    <2> HIDE DEF b
    <2>5. /\ b \in Mains /\ b.context \in Contexts /\ b.convs[i] \in Conversations
          /\ b.convs \in Seq(Conversations)
      BY <2>4, <1>a, ElementOfSeq DEF Good, Fits, Mains
    <2>6. /\ e \in Conversations /\ e.pid = "none" /\ e.in = b.convs[i].in
          /\ e.connected = b.convs[i].connected
      BY <2>5 DEF Conversations
    <2>7. f \in Subprocesses /\ f.phase = "reaped" /\ f.mixed = d.mixed
      BY <1>a DEF Subprocesses
    <2>8. Exited(m, i, message.kind) = OneChanges(b, i, b.context, e, f)
      <3>1. Exited(m, i, message.kind) = [b EXCEPT !.convs[i].pid = "none",
                                                   !.children[i].phase = "reaped"]
        BY DEF Exited, b
      <3> QED
        BY <3>1, <2>4, <2>5 DEF OneChanges, Mains, d
    <2> HIDE DEF e, f
    <2>9. Sane(e, f) /\ PidFits(e, f)
      BY <2>6, <2>7 DEF Sane, PidFits
    <2>10. Prompts(b) => InStep(b.context, b.context.conv = i, e, f)
      <3>1. Prompts(b) => InStep(b.context, b.context.conv = i, b.convs[i], b.children[i])
        BY <2>4, <1>a DEF Prompts
      <3> QED
        BY <3>1, <2>4, <2>6, <2>7 DEF InStep, d
    <2>11. b.children[i].phase # "none" /\ i \in 1..Len(b.convs)
      BY <2>4, <1>a, <1>g DEF d
    <2>12. Good(OneChanges(b, i, b.context, e, f))
      BY <2>4, <2>5, <2>6, <2>7, <2>9, <2>10, <2>11, OneChangesGood
    <2> QED
      BY <2>8, <2>12, <1>3 DEF message, m
  <1> QED
    BY <1>1, <1>2, <1>3 DEF message, m

LEMMA OnMessageGood ==
    ASSUME PamInv, NEW i \in DOMAIN convs, OnMessage(i)
    PROVE  PamInv'
  <1> DEFINE message == Head(convs[i].in)
             m == [Main EXCEPT !.convs[i].in = Tail(@)]
             n == IF convs[i].in = <<>> THEN InternalError(Main, i)
                  ELSE IF message.kind \in {"info", "prompt"} THEN Message(m, i, message)
                  ELSE Exited(m, i, message.kind)
  <1>1. Becomes({n}) /\ MainOnly
    BY DEF OnMessage
  <1>2. CASE convs[i].in = <<>>
    <2>1. Good(InternalError(Main, i))
      BY MainTyped, InternalErrorGood DEF PamInv
    <2> QED
      BY <1>1, <1>2, <2>1, BecomesOneGood
  <1>3. CASE convs[i].in # <<>>
    <2>1. IF message.kind \in {"info", "prompt"} THEN Good(Message(m, i, message))
          ELSE Good(Exited(m, i, message.kind))
      BY <1>3, ReceivedGood
    <2> HIDE DEF message, m
    <2>2. Good(n)
      BY <1>3, <2>1
    <2> HIDE DEF n
    <2> QED
      BY <1>1, <2>2, BecomesOneGood
  <1> QED
    BY <1>2, <1>3

LEMMA SetActiveGood ==
    ASSUME PamInv, NEW active \in BOOLEAN, SetActive(active)
    PROVE  PamInv'
  <1> DEFINE m == [Main EXCEPT !.context.target = active]
             states == IF active THEN StartConversation(m) ELSE {AbortConversation(m)}
  <1>1. Becomes(states) /\ MainOnly /\ (active => Len(convs) < MaxConvs)
    BY DEF SetActive
  <1>2. Good(m) /\ m.convs = convs
    BY ContextGood, MainTyped DEF PamInv, Mains
  <1> HIDE DEF m
  <1>3. CASE active
    BY <1>1, <1>2, <1>3, StartGood, BecomesOneGood
  <1>4. CASE ~active
    <2>1. Good(AbortConversation(m))
      BY <1>2, AbortFits, AbortKeeps DEF Good
    <2> QED
      BY <1>1, <1>4, <2>1, BecomesOneGood
  <1> QED
    BY <1>3, <1>4

LEMMA ComponentCompleteGood ==
    ASSUME PamInv, ComponentComplete
    PROVE  PamInv'
  <1> DEFINE m == [Main EXCEPT !.context.post = TRUE]
             states == IF context.target THEN StartConversation(m) ELSE {m}
  <1>1. Becomes(states) /\ MainOnly /\ (context.target => Len(convs) < MaxConvs)
    BY DEF ComponentComplete
  <1>2. Good(m) /\ m.convs = convs
    BY ContextGood, MainTyped DEF PamInv, Mains
  <1> HIDE DEF m
  <1>3. CASE context.target
    BY <1>1, <1>2, <1>3, StartGood, BecomesOneGood
  <1>4. CASE ~context.target
    BY <1>1, <1>2, <1>4, BecomesOneGood
  <1> QED
    BY <1>3, <1>4
-----------------------------------------------------------------------------
(* The theorems.                                                           *)

LEMMA PamInitKeeps == PamInit => PamInv
  <1> SUFFICES ASSUME PamInit PROVE PamInv
    OBVIOUS
  <1>1. Fits(Main)
    BY PamAssumption DEF PamInit, Main, Fits, Mains, Contexts
  <1>2. Main.context.required = 0 /\ Main.convs = <<>>
    BY DEF PamInit, Main
  <1>3. Pids(Main) /\ Prompts(Main)
    BY <1>2 DEF Pids, Prompts
  <1> QED
    BY <1>1, <1>3, PamAssumption DEF PamInit, PamInv, Good

LEMMA PamNextKeeps == PamInv /\ [PamNext]_pamVars => PamInv'
  <1> SUFFICES ASSUME PamInv, [PamNext]_pamVars PROVE PamInv'
    OBVIOUS
  <1>1. CASE ChildNext
    BY <1>1, SaysGood, ReadsGood, CrashesGood, ExitsGood DEF ChildNext
  <1>2. CASE ComponentComplete
    BY <1>2, ComponentCompleteGood
  <1>3. CASE Respond
    BY <1>3, RespondGood
  <1>4. CASE \E active \in BOOLEAN : SetActive(active)
    BY <1>4, SetActiveGood
  <1>5. CASE \E i \in DOMAIN convs : OnMessage(i) \/ Destroy(i)
    BY <1>5, OnMessageGood, DestroyGood
  <1>6. CASE UNCHANGED pamVars
    <2>1. Main \in Mains /\ Good(Main) /\ context' = Main.context /\ convs' = Main.convs
          /\ children' = Main.children /\ told' = Main.told
      BY <1>6, MainTyped DEF pamVars, PamInv
    <2> QED
      BY <1>6, <2>1, BecomesGood DEF pamVars, PamInv
  <1> QED
    BY <1>1, <1>2, <1>3, <1>4, <1>5, <1>6 DEF PamNext

\* Each variable keeps its type: the context's conversation is one there is,
\* and each conversation has one subprocess (qml.cpp:24, :96).
THEOREM PamTypeCorrect == PamSpec => []PamTypeOK
  <1>1. PamInv => PamTypeOK
    BY TypeIsFits DEF PamInv, Good
  <1> QED
    BY <1>1, PamInitKeeps, PamNextKeeps, PTL DEF PamSpec

\* kill and waitpid are called with the pid of a process that runs or was not
\* waited for yet, and before a conversation is deleted, as long as no fork
\* failed (conversation.cpp:39, :63, :109).
THEOREM PamKillsItsOwn == PamSpec => []PidIsOfChild
  <1>1. PamInv => PidIsOfChild
    BY MainTyped DEF PamInv, Good, Pids, PidFits, PidIsOfChild
  <1> QED
    BY <1>1, PamInitKeeps, PamNextKeeps, PTL DEF PamSpec

\* A QML that responds once to each prompt answers the prompt it was shown,
\* whichever conversations were aborted before (qml.cpp:115, :121).
THEOREM PamResponsesMatch == PamSpec => []ResponsesMatch
  <1>1. PamInv => ResponsesMatch
    BY MainTyped DEF PamInv, Good, Prompts, InStep, ResponsesMatch
  <1> QED
    BY <1>1, PamInitKeeps, PamNextKeeps, PTL DEF PamSpec
=============================================================================
