----------------------------- MODULE ModelsProofs -----------------------------
(***************************************************************************)
(* Theorems about the list models: whatever the lists are, an update leads *)
(* to the new list, views follow it from signal to signal, and no object   *)
(* is in a list twice.                                                     *)
(***************************************************************************)
EXTENDS Models, SequenceTheorems, WellFoundedInduction, TLAPS

-----------------------------------------------------------------------------
(* Sequences.                                                              *)

LEMMA SubSeqFacts ==
    ASSUME NEW S, NEW s \in Seq(S), NEW m \in Nat \ {0}, NEW n \in Nat, m <= n + 1, n <= Len(s)
    PROVE  /\ SubSeq(s, m, n) \in Seq(S)
           /\ Len(SubSeq(s, m, n)) = n - m + 1
           /\ \A i \in 1..(n - m + 1) : SubSeq(s, m, n)[i] = s[m + i - 1]
<1>1. \A i \in m..n : s[i] \in S
  BY LenProperties, ElementOfSeq
<1> QED
  BY <1>1, SubSeqProperties

LEMMA RestFacts ==
    ASSUME NEW S, NEW s \in Seq(S), NEW from \in 1..(Len(s) + 1)
    PROVE  /\ Rest(s, from) \in Seq(S)
           /\ Len(Rest(s, from)) = Len(s) - from + 1
           /\ \A i \in 1..(Len(s) - from + 1) : Rest(s, from)[i] = s[from + i - 1]
<1>1. Len(s) \in Nat
  BY LenProperties
<1> QED
  BY <1>1, SubSeqFacts DEF Rest

\* ConcatProperties, for the items at each part of two parts and of three.
LEMMA Concat2Facts ==
    ASSUME NEW S, NEW a \in Seq(S), NEW b \in Seq(S)
    PROVE  /\ a \o b \in Seq(S)
           /\ Len(a \o b) = Len(a) + Len(b)
           /\ \A i \in 1..Len(a) : (a \o b)[i] = a[i]
           /\ \A i \in 1..Len(b) : (a \o b)[Len(a) + i] = b[i]
<1>1. Len(a) \in Nat /\ Len(b) \in Nat
  BY LenProperties
<1>2. /\ a \o b \in Seq(S)
      /\ Len(a \o b) = Len(a) + Len(b)
      /\ \A i \in 1 .. Len(a) + Len(b) : (a \o b)[i] = IF i <= Len(a) THEN a[i] ELSE b[i - Len(a)]
  BY ConcatProperties
<1>3. ASSUME NEW i \in 1..Len(b) PROVE (a \o b)[Len(a) + i] = b[i]
  <2>1. Len(a) + i \in 1 .. Len(a) + Len(b) /\ ~(Len(a) + i <= Len(a)) /\ Len(a) + i - Len(a) = i
    BY <1>1
  <2> QED
    BY <1>2, <2>1
<1>4. ASSUME NEW i \in 1..Len(a) PROVE (a \o b)[i] = a[i]
  BY <1>1, <1>2
<1> QED
  BY <1>2, <1>3, <1>4

LEMMA WithoutFacts ==
    ASSUME NEW S, NEW s \in Seq(S), NEW first \in 1..(Len(s) + 1), NEW last \in (first - 1)..Len(s)
    PROVE  LET t == Without(s, first, last)
               n == last - first + 1
           IN  /\ t \in Seq(S)
               /\ Len(t) = Len(s) - n
               /\ \A i \in 1..(first - 1) : t[i] = s[i]
               /\ \A i \in first..Len(t) : t[i] = s[i + n]
<1> DEFINE a == SubSeq(s, 1, first - 1)
           b == Rest(s, last + 1)
           n == last - first + 1
           t == Without(s, first, last)
<1>1. Len(s) \in Nat /\ first - 1 \in Nat
  BY LenProperties
<1>2. /\ a \in Seq(S) /\ Len(a) = first - 1
      /\ \A i \in 1..(first - 1) : a[i] = s[i]
  BY <1>1, SubSeqFacts
<1>3. /\ b \in Seq(S) /\ Len(b) = Len(s) - last
      /\ \A i \in 1..(Len(s) - last) : b[i] = s[last + 1 + i - 1]
  <2>1. last + 1 \in 1..(Len(s) + 1) /\ Len(s) - (last + 1) + 1 = Len(s) - last
    BY <1>1
  <2> QED
    BY <2>1, RestFacts
<1> HIDE DEF a, b
<1>4. t = a \o b
  BY DEF Without, a, b
<1> HIDE DEF t
<1>5. /\ t \in Seq(S) /\ Len(t) = Len(s) - n
      /\ \A i \in 1..(first - 1) : t[i] = a[i]
      /\ \A i \in 1..Len(b) : t[first - 1 + i] = b[i]
  <2>1. /\ a \o b \in Seq(S)
        /\ Len(a \o b) = Len(a) + Len(b)
        /\ \A i \in 1..Len(a) : (a \o b)[i] = a[i]
        /\ \A i \in 1..Len(b) : (a \o b)[Len(a) + i] = b[i]
    <3>1. a \in Seq(S) /\ b \in Seq(S)
      BY <1>2, <1>3
    <3> QED
      BY <3>1, Concat2Facts
  <2> QED
    BY <1>1, <1>2, <1>3, <1>4, <2>1
<1>6. ASSUME NEW i \in first..Len(t) PROVE t[i] = s[i + n]
  <2>1. /\ i - first + 1 \in 1..Len(b) /\ first - 1 + (i - first + 1) = i
        /\ last + 1 + (i - first + 1) - 1 = i + n
    BY <1>1, <1>3, <1>5
  <2> QED
    BY <1>3, <1>5, <2>1
<1> QED
  BY <1>2, <1>5, <1>6 DEF t

\* t is s with added before the position at.
IsWith(t, s, at, added, n) ==
    /\ n = Len(added) /\ Len(t) = Len(s) + n
    /\ \A i \in 1..(at - 1) : t[i] = s[i]
    /\ \A i \in at..(at + n - 1) : t[i] = added[i - at + 1]
    /\ \A i \in (at + n)..Len(t) : t[i] = s[i - n]

LEMMA WithFacts ==
    ASSUME NEW S, NEW s \in Seq(S), NEW added \in Seq(S), NEW at \in 1..(Len(s) + 1)
    PROVE  /\ With(s, at, added) \in Seq(S)
           /\ IsWith(With(s, at, added), s, at, added, Len(added))
<1> DEFINE a == SubSeq(s, 1, at - 1)
           b == Rest(s, at)
           c == a \o added
           n == Len(added)
           t == With(s, at, added)
<1>1. Len(s) \in Nat /\ at - 1 \in Nat /\ n \in Nat
  BY LenProperties
<1>2. /\ a \in Seq(S) /\ Len(a) = at - 1
      /\ \A i \in 1..(at - 1) : a[i] = s[i]
  BY <1>1, SubSeqFacts
<1>3. /\ b \in Seq(S) /\ Len(b) = Len(s) - at + 1
      /\ \A i \in 1..(Len(s) - at + 1) : b[i] = s[at + i - 1]
  BY <1>1, RestFacts
<1>4. t = c \o b
  BY DEF With
<1> HIDE DEF a, b, t
<1>5. /\ c \in Seq(S) /\ Len(c) = at - 1 + n
      /\ \A i \in 1..(at - 1) : c[i] = a[i]
      /\ \A i \in 1..n : c[at - 1 + i] = added[i]
  <2>1. /\ a \o added \in Seq(S)
        /\ Len(a \o added) = Len(a) + Len(added)
        /\ \A i \in 1..Len(a) : (a \o added)[i] = a[i]
        /\ \A i \in 1..Len(added) : (a \o added)[Len(a) + i] = added[i]
    <3>1. a \in Seq(S) /\ added \in Seq(S)
      BY <1>2
    <3> QED
      BY <3>1, Concat2Facts
  <2> QED
    BY <1>1, <1>2, <2>1
<1> HIDE DEF c
<1>6. /\ t \in Seq(S) /\ Len(t) = Len(c) + Len(b)
      /\ \A i \in 1..Len(c) : t[i] = c[i]
      /\ \A i \in 1..Len(b) : t[Len(c) + i] = b[i]
  <2>1. /\ c \o b \in Seq(S)
        /\ Len(c \o b) = Len(c) + Len(b)
        /\ \A i \in 1..Len(c) : (c \o b)[i] = c[i]
        /\ \A i \in 1..Len(b) : (c \o b)[Len(c) + i] = b[i]
    <3>1. c \in Seq(S) /\ b \in Seq(S)
      BY <1>3, <1>5
    <3> QED
      BY <3>1, Concat2Facts
  <2> QED
    BY <1>4, <2>1
<1>7. ASSUME NEW i \in 1..(at - 1) PROVE t[i] = s[i]
  BY <1>1, <1>2, <1>5, <1>6
<1>8. ASSUME NEW i \in at..(at + n - 1) PROVE t[i] = added[i - at + 1]
  <2>1. i - at + 1 \in 1..n /\ at - 1 + (i - at + 1) = i /\ i \in 1..Len(c)
    BY <1>1, <1>5
  <2> QED
    BY <1>5, <1>6, <2>1
<1>9. ASSUME NEW i \in (at + n)..Len(t) PROVE t[i] = s[i - n]
  <2>1. /\ i - Len(c) \in 1..Len(b) /\ Len(c) + (i - Len(c)) = i
        /\ at + (i - Len(c)) - 1 = i - n
    BY <1>1, <1>3, <1>5, <1>6
  <2> QED
    BY <1>3, <1>6, <2>1
<1> QED
  BY <1>1, <1>3, <1>5, <1>6, <1>7, <1>8, <1>9 DEF t, IsWith

\* What is removed from m on leaves the part before it.
LEMMA WithoutRest ==
    ASSUME NEW S, NEW s \in Seq(S), NEW n \in 0..Len(s), NEW m, m = n + 1
    PROVE  Without(s, m, Len(s)) = SubSeq(s, 1, n)
<1>1. Len(s) \in Nat /\ m - 1 = n
  BY LenProperties
<1>2. Without(s, m, Len(s)) = SubSeq(s, 1, n) \o Rest(s, Len(s) + 1)
  BY <1>1 DEF Without
<1>3. Rest(s, Len(s) + 1) = << >>
  BY <1>1, SubSeqEmpty DEF Rest
<1>4. SubSeq(s, 1, n) \in Seq(S)
  BY <1>1, SubSeqFacts
<1> QED
  BY <1>2, <1>3, <1>4, ConcatEmptySeq

\* What is inserted behind the last is appended.
LEMMA WithAtEnd ==
    ASSUME NEW S, NEW s \in Seq(S), NEW added \in Seq(S), NEW at, at = Len(s) + 1
    PROVE  With(s, at, added) = s \o added
<1>1. Len(s) \in Nat /\ at - 1 = Len(s)
  BY LenProperties
<1>2. With(s, at, added) = SubSeq(s, 1, Len(s)) \o added \o Rest(s, at)
  BY <1>1 DEF With
<1>3. Rest(s, at) = << >>
  BY <1>1, SubSeqEmpty DEF Rest
<1>4. SubSeq(s, 1, Len(s)) = s
  BY SubSeqFull
<1>5. s \o added \in Seq(S)
  BY ConcatProperties
<1> QED
  BY <1>2, <1>3, <1>4, <1>5, ConcatEmptySeq

-----------------------------------------------------------------------------
(* Runs.                                                                   *)

LEMMA LeastNumber ==
    ASSUME NEW T \in SUBSET Nat, T # {}
    PROVE  \E n \in T : \A m \in T : n <= m
<1>1. PICK n \in T : \A m \in T : ~(<<m, n>> \in OpToRel(<, Nat))
  BY NatLessThanWellFounded, WFMin
<1>2. \A m \in T : ~(m < n)
  BY <1>1 DEF OpToRel
<1> QED
  BY <1>2

\* The run that i is part of has an end.
LEMMA RunEndFacts ==
    ASSUME NEW S, NEW list \in Seq(S), NEW i \in 1..Len(list), NEW run
    PROVE  LET e == RunEnd(list, i, run)
           IN  /\ e \in (i + 1)..(Len(list) + 1)
               /\ (i + 1)..(e - 1) \subseteq run
               /\ e = Len(list) + 1 \/ e \notin run
<1>1. Len(list) \in Nat
  BY LenProperties
<1> DEFINE T == {e \in (i + 1)..(Len(list) + 1) : e = Len(list) + 1 \/ e \notin run}
<1>2. T \in SUBSET Nat /\ Len(list) + 1 \in T
  BY <1>1
<1>3. PICK e \in T : \A m \in T : e <= m
  BY <1>2, LeastNumber
<1>4. ASSUME NEW j \in (i + 1)..(e - 1) PROVE j \in run
  <2>1. j \in (i + 1)..(Len(list) + 1) /\ ~(e <= j)
    BY <1>1, <1>3
  <2> QED
    BY <1>3, <2>1
<1>5. /\ e \in (i + 1)..(Len(list) + 1)
      /\ (i + 1)..(e - 1) \subseteq run
      /\ e = Len(list) + 1 \/ e \notin run
  BY <1>3, <1>4
<1> QED
  BY <1>5 DEF RunEnd

-----------------------------------------------------------------------------
(* Views.                                                                  *)

Rows == [shows : Values, old : BOOLEAN]

\* A view v of a list s.
Follows(v, s) == /\ v \in Seq(Rows) /\ s \in Seq(Values) /\ Len(v) = Len(s)
                 /\ \A i \in 1..Len(s) : v[i].shows = s[i]

LEMMA FollowsWithout ==
    ASSUME NEW v, NEW s, Follows(v, s), NEW first \in 1..(Len(s) + 1), NEW last \in (first - 1)..Len(s)
    PROVE  Follows(Without(v, first, last), Without(s, first, last))
<1> DEFINE w == Without(v, first, last)
           t == Without(s, first, last)
           n == last - first + 1
<1>1. /\ v \in Seq(Rows) /\ s \in Seq(Values) /\ Len(v) = Len(s) /\ Len(s) \in Nat
      /\ \A i \in 1..Len(s) : v[i].shows = s[i]
  BY LenProperties DEF Follows
<1>2. /\ w \in Seq(Rows) /\ Len(w) = Len(s) - n
      /\ \A i \in 1..(first - 1) : w[i] = v[i]
      /\ \A i \in first..Len(w) : w[i] = v[i + n]
  <2>1. v \in Seq(Rows) /\ first \in 1..(Len(v) + 1) /\ last \in (first - 1)..Len(v)
    BY <1>1
  <2>2. /\ w \in Seq(Rows) /\ Len(w) = Len(v) - n
        /\ \A i \in 1..(first - 1) : w[i] = v[i]
        /\ \A i \in first..Len(w) : w[i] = v[i + n]
    BY <2>1, WithoutFacts
  <2> QED
    BY <1>1, <2>2
<1>3. /\ t \in Seq(Values) /\ Len(t) = Len(s) - n
      /\ \A i \in 1..(first - 1) : t[i] = s[i]
      /\ \A i \in first..Len(t) : t[i] = s[i + n]
  BY <1>1, WithoutFacts
<1> HIDE DEF w, t
<1>4. ASSUME NEW i \in 1..Len(t) PROVE w[i].shows = t[i]
  <2>1. CASE i < first
    <3>1. i \in 1..(first - 1) /\ i \in 1..Len(s)
      BY <1>1, <1>3, <2>1
    <3> QED
      BY <1>1, <1>2, <1>3, <3>1
  <2>2. CASE i >= first
    <3>1. i \in first..Len(t) /\ i + n \in 1..Len(s)
      BY <1>1, <1>3, <2>2
    <3> QED
      BY <1>1, <1>2, <1>3, <3>1
  <2> QED
    BY <1>3, <2>1, <2>2, LenProperties
<1> QED
  BY <1>2, <1>3, <1>4 DEF Follows, w, t

LEMMA FollowsWith ==
    ASSUME NEW v, NEW s, Follows(v, s), NEW rows, NEW added, Follows(rows, added),
           NEW at \in 1..(Len(s) + 1)
    PROVE  Follows(With(v, at, rows), With(s, at, added))
<1> DEFINE w == With(v, at, rows)
           t == With(s, at, added)
           n == Len(added)
<1>1. /\ v \in Seq(Rows) /\ s \in Seq(Values) /\ Len(v) = Len(s) /\ Len(s) \in Nat
      /\ \A i \in 1..Len(s) : v[i].shows = s[i]
  BY LenProperties DEF Follows
<1>2. /\ rows \in Seq(Rows) /\ added \in Seq(Values) /\ Len(rows) = n /\ n \in Nat
      /\ \A i \in 1..n : rows[i].shows = added[i]
  BY LenProperties DEF Follows
<1>3. w \in Seq(Rows) /\ IsWith(w, v, at, rows, n)
  <2>1. v \in Seq(Rows) /\ rows \in Seq(Rows) /\ at \in 1..(Len(v) + 1)
    BY <1>1, <1>2
  <2>2. w \in Seq(Rows) /\ IsWith(w, v, at, rows, Len(rows))
    BY <2>1, WithFacts
  <2> QED
    BY <1>2, <2>2
<1>4. t \in Seq(Values) /\ IsWith(t, s, at, added, n)
  BY <1>1, <1>2, WithFacts
<1> HIDE DEF w, t, n
<1>5. ASSUME NEW i \in 1..Len(t) PROVE w[i].shows = t[i]
  <2>1. CASE i < at
    <3>1. i \in 1..(at - 1) /\ i \in 1..Len(s)
      BY <1>1, <1>2, <1>4, <2>1 DEF IsWith
    <3> QED
      BY <1>1, <1>3, <1>4, <3>1 DEF IsWith
  <2>2. CASE i >= at /\ i < at + n
    <3>1. i \in at..(at + n - 1) /\ i - at + 1 \in 1..n
      BY <1>1, <1>2, <1>4, <2>2 DEF IsWith
    <3> QED
      BY <1>2, <1>3, <1>4, <3>1 DEF IsWith
  <2>3. CASE i >= at + n
    <3>1. i \in (at + n)..Len(t) /\ i - n \in 1..Len(s) /\ i \in (at + n)..Len(w)
      BY <1>1, <1>2, <1>3, <1>4, <2>3 DEF IsWith
    <3> QED
      BY <1>1, <1>3, <1>4, <3>1 DEF IsWith
  <2> QED
    BY <1>1, <1>2, <1>4, <2>1, <2>2, <2>3 DEF IsWith
<1> QED
  BY <1>1, <1>2, <1>3, <1>4, <1>5 DEF Follows, w, t, IsWith

\* The rows of part of a list.
LEMMA FollowsSubSeq ==
    ASSUME NEW v, NEW s, Follows(v, s), NEW m \in 1..(Len(s) + 1), NEW n \in (m - 1)..Len(s)
    PROVE  Follows(SubSeq(v, m, n), SubSeq(s, m, n))
<1>1. /\ v \in Seq(Rows) /\ s \in Seq(Values) /\ Len(v) = Len(s) /\ Len(s) \in Nat
      /\ \A i \in 1..Len(s) : v[i].shows = s[i]
  BY LenProperties DEF Follows
<1>2. /\ SubSeq(s, m, n) \in Seq(Values) /\ Len(SubSeq(s, m, n)) = n - m + 1
      /\ \A i \in 1..(n - m + 1) : SubSeq(s, m, n)[i] = s[m + i - 1]
  BY <1>1, SubSeqFacts
<1>3. /\ SubSeq(v, m, n) \in Seq(Rows) /\ Len(SubSeq(v, m, n)) = n - m + 1
      /\ \A i \in 1..(n - m + 1) : SubSeq(v, m, n)[i] = v[m + i - 1]
  BY <1>1, SubSeqFacts
<1>4. ASSUME NEW i \in 1..(n - m + 1) PROVE SubSeq(v, m, n)[i].shows = SubSeq(s, m, n)[i]
  BY <1>1, <1>2, <1>3
<1> QED
  BY <1>2, <1>3, <1>4 DEF Follows

\* The rows that a view reads when it is told of an insertion.
LEMMA FollowsInserted ==
    ASSUME NEW v, NEW s, Follows(v, s), NEW added \in Seq(Values), NEW at \in 1..(Len(s) + 1),
           NEW t, t = With(s, at, added), NEW last, last = at + Len(added) - 1
    PROVE  Follows(With(v, at, [i \in 1..(last - at + 1) |->
                                [shows |-> t[at + i - 1], old |-> FALSE]]), t)
<1> DEFINE n == Len(added)
           rows == [i \in 1..(last - at + 1) |-> [shows |-> t[at + i - 1], old |-> FALSE]]
<1>1. n \in Nat /\ s \in Seq(Values) /\ Len(s) \in Nat /\ last - at + 1 = n
  BY LenProperties DEF Follows
<1>2. \A i \in at..(at + n - 1) : t[i] = added[i - at + 1]
  <2>1. IsWith(t, s, at, added, n)
    BY <1>1, WithFacts
  <2> QED
    BY <2>1 DEF IsWith
<1>3. ASSUME NEW i \in 1..n PROVE t[at + i - 1] = added[i] /\ added[i] \in Values
  <2>1. at + i - 1 \in at..(at + n - 1) /\ (at + i - 1) - at + 1 = i
    BY <1>1
  <2> QED
    BY <1>2, <2>1, ElementOfSeq
<1>4. rows = [i \in 1..n |-> [shows |-> added[i], old |-> FALSE]]
  BY <1>1, <1>3
<1> HIDE DEF rows
<1>5. rows \in [1..n -> Rows]
  BY <1>3, <1>4 DEF Rows
<1>6. rows \in Seq(Rows) /\ Len(rows) = n
  BY <1>1, <1>5
<1>7. Follows(rows, added)
  BY <1>4, <1>6 DEF Follows
<1> QED
  BY <1>7, FollowsWith DEF rows

LEMMA InsertRowsFollows ==
    ASSUME Follows(view, values), NEW added \in Seq(Values), NEW at \in 1..(Len(values) + 1),
           NEW last, last = at + Len(added) - 1,
           values' = With(values, at, added), InsertRows(at, last)
    PROVE  Follows(view', values')
<1>1. view' = With(view, at, [i \in 1..(last - at + 1) |->
                              [shows |-> values'[at + i - 1], old |-> FALSE]])
  BY DEF InsertRows
<1> QED
  BY <1>1, FollowsInserted

-----------------------------------------------------------------------------
(* The strengthening.                                                      *)

InList(list, v) == \E i \in 1..Len(list) : list[i] = v
Distinct(list) == \A i, j \in 1..Len(list) : list[i] = list[j] => i = j

\* The first n values of s are those of t, or the same if their rows are in m.
Alike(v, w, i, m) == IF i \in m THEN Same(v, w) ELSE v = w
SameUpTo(s, t, n, m) == \A i \in 1..n : Alike(s[i], t[i], i, m)

Types == /\ kind \in {"script", "object"} /\ cmpKey \in BOOLEAN
         /\ phase \in IF kind = "script" THEN {"idle", "update"} ELSE {"idle", "prune", "place"}
         /\ newValues \in Seq(Values) /\ before \in Seq(Values)
         /\ Len(newValues) <= MaxLen
         /\ iter \in 1..(MaxLen + 1) /\ newIter \in 1..(MaxLen + 1)
         /\ moved \subseteq 1..MaxLen

IdleInv == Idle => Len(values) = Len(newValues) /\ SameUpTo(values, newValues, Len(values), moved)

UpdateInv == Updating => /\ iter = newIter
                         /\ iter <= Len(values) + 1 /\ iter <= Len(newValues) + 1
                         /\ SameUpTo(values, newValues, iter - 1, moved)

ObjectInv == kind = "object" => ~cmpKey /\ Distinct(values) /\ Distinct(newValues)

\* What was passed by is in the new list.
PruneInv == Pruning => /\ newIter = 1 /\ iter <= Len(values) + 1 /\ Len(values) <= MaxLen
                       /\ \A i \in 1..(iter - 1) : InList(newValues, values[i])

\* So are all values that are left, and the first of them are in their places.
PlaceInv == Placing => /\ newIter <= Len(values) + 1 /\ newIter <= Len(newValues) + 1
                       /\ \A i \in 1..Len(values) : InList(newValues, values[i])
                       /\ \A i \in 1..(newIter - 1) : values[i] = newValues[i]

IInv == /\ Types /\ Follows(view, values)
        /\ IdleInv /\ UpdateInv /\ ObjectInv /\ PruneInv /\ PlaceInv

LEMMA Lengths ==
    ASSUME IInv
    PROVE  /\ Len(values) \in Nat /\ Len(newValues) \in Nat /\ MaxLen \in Nat
           /\ values \in Seq(Values) /\ newValues \in Seq(Values)
           /\ iter \in Nat \ {0} /\ newIter \in Nat \ {0}
BY LenProperties, ConstantsAssumption DEF IInv, Types, Follows, ConstantsAssumption

-----------------------------------------------------------------------------
(* ScriptModel::updateValuesUnique.                                        *)

\* A turn of the loop keeps the invariant if the view follows and what lies
\* behind is the new list.
LEMMA ScriptStepMoving ==
    ASSUME IInv, Updating, SameUpdate, moved' \subseteq 1..MaxLen, Follows(view', values'),
           \/ /\ phase' = "update" /\ iter' = newIter' /\ iter' \in 1..(Len(values') + 1)
              /\ iter' <= Len(newValues) + 1
              /\ SameUpTo(values', newValues, iter' - 1, moved')
           \/ /\ phase' = "idle" /\ UNCHANGED <<iter, newIter>>
              /\ Len(values') = Len(newValues)
              /\ SameUpTo(values', newValues, Len(values'), moved')
    PROVE  IInv'
<1>1. kind = "script" /\ UNCHANGED <<kind, cmpKey, newValues, before>>
  BY DEF IInv, Types, Updating, SameUpdate
<1>2. Len(values') \in Nat
  BY LenProperties DEF Follows
<1>3. Types'
  BY <1>1, <1>2, Lengths DEF IInv, Types
<1>4. Follows(view, values)'
  BY DEF Follows, Rows
<1>5. IdleInv' /\ UpdateInv'
  BY <1>1, <1>2 DEF IdleInv, UpdateInv, Idle, Updating, SameUpTo, Alike, Same
<1>6. ObjectInv' /\ PruneInv' /\ PlaceInv'
  BY <1>1 DEF ObjectInv, PruneInv, PlaceInv, Pruning, Placing
<1> QED
  BY <1>3, <1>4, <1>5, <1>6 DEF IInv

LEMMA ScriptStep ==
    ASSUME IInv, Updating, Unchanged, Follows(view', values'),
           \/ /\ phase' = "update" /\ iter' = newIter' /\ iter' \in 1..(Len(values') + 1)
              /\ iter' <= Len(newValues) + 1
              /\ SameUpTo(values', newValues, iter' - 1, moved)
           \/ /\ phase' = "idle" /\ UNCHANGED <<iter, newIter>>
              /\ Len(values') = Len(newValues)
              /\ SameUpTo(values', newValues, Len(values'), moved)
    PROVE  IInv'
<1>1. SameUpdate /\ moved' = moved /\ moved \subseteq 1..MaxLen
  BY DEF Unchanged, SameUpdate, IInv, Types
<1> QED
  BY <1>1, ScriptStepMoving

LEMMA UpdateFacts ==
    ASSUME IInv, Updating
    PROVE  /\ iter = newIter /\ iter <= Len(values) + 1 /\ iter <= Len(newValues) + 1
           /\ SameUpTo(values, newValues, iter - 1, moved) /\ Follows(view, values)
           /\ AtEnd <=> iter = Len(values) + 1
           /\ NewAtEnd <=> iter = Len(newValues) + 1
BY Lengths DEF IInv, UpdateInv, AtEnd, NewAtEnd

LEMMA UpdateEndsKeeps == IInv /\ UpdateEnds => IInv'
<1> SUFFICES ASSUME IInv, UpdateEnds PROVE IInv'
  OBVIOUS
<1>1. Updating /\ Unchanged /\ phase' = "idle" /\ UNCHANGED <<values, view, iter, newIter>>
  BY DEF UpdateEnds, Ends
<1>2. AtEnd /\ NewAtEnd
  BY DEF UpdateEnds
<1>3. Len(values) = Len(newValues) /\ iter - 1 = Len(values)
  BY <1>1, <1>2, UpdateFacts, Lengths
<1> QED
  BY <1>1, <1>3, UpdateFacts, ScriptStep

LEMMA ChopKeeps == IInv /\ Chop => IInv'
<1> SUFFICES ASSUME IInv, Chop PROVE IInv'
  OBVIOUS
<1> DEFINE n == Len(newValues)
<1>1. /\ Updating /\ Unchanged /\ phase' = "idle" /\ UNCHANGED <<iter, newIter>>
      /\ NewAtEnd /\ ~AtEnd
      /\ values' = SubSeq(values, 1, iter - 1)
      /\ view' = Without(view, n + 1, Len(values))
  BY DEF Chop, Ends, RemoveRows
<1>2. n \in Nat /\ Len(values) \in Nat /\ iter = n + 1 /\ n < Len(values) /\ values \in Seq(Values)
  BY <1>1, UpdateFacts, Lengths
<1>3. iter - 1 = n /\ n \in 0..Len(values)
  BY <1>2
<1>4. Follows(view', values')
  <2> DEFINE m == n + 1
  <2>1. m \in 1..(Len(values) + 1) /\ Len(values) \in (m - 1)..Len(values) /\ m = n + 1
    BY <1>2
  <2>2. view' = Without(view, m, Len(values))
    BY <1>1
  <2> HIDE DEF m
  <2>3. Follows(view', Without(values, m, Len(values)))
    BY <1>1, <2>1, <2>2, UpdateFacts, FollowsWithout
  <2>4. Without(values, m, Len(values)) = SubSeq(values, 1, n)
    BY <1>2, <1>3, <2>1, WithoutRest
  <2> QED
    BY <1>1, <1>3, <2>3, <2>4
<1>5. Len(values') = n /\ SameUpTo(values', newValues, n, moved)
  <2>1. /\ Len(SubSeq(values, 1, n)) = n
        /\ \A i \in 1..n : SubSeq(values, 1, n)[i] = values[i]
    BY <1>2, SubSeqFacts
  <2>2. SameUpTo(values, newValues, n, moved)
    BY <1>1, <1>3, UpdateFacts
  <2> QED
    BY <1>1, <1>3, <2>1, <2>2 DEF SameUpTo
<1> QED
  BY <1>1, <1>4, <1>5, ScriptStep

LEMMA AppendRestKeeps == IInv /\ AppendRest => IInv'
<1> SUFFICES ASSUME IInv, AppendRest PROVE IInv'
  OBVIOUS
<1> DEFINE L == Len(values)
           at == L + 1
           last == Len(newValues)
           added == Rest(newValues, L + 1)
<1>1. /\ Updating /\ Unchanged /\ phase' = "idle" /\ UNCHANGED <<iter, newIter>>
      /\ AtEnd /\ ~NewAtEnd
      /\ values' = values \o added
      /\ InsertRows(at, last)
  BY DEF AppendRest, Ends
<1>2. /\ L \in Nat /\ Len(newValues) \in Nat /\ iter = L + 1 /\ iter - 1 = L /\ L < Len(newValues)
      /\ values \in Seq(Values) /\ newValues \in Seq(Values)
      /\ SameUpTo(values, newValues, iter - 1, moved) /\ Follows(view, values)
  BY <1>1, UpdateFacts, Lengths
<1>3. /\ added \in Seq(Values) /\ Len(added) = Len(newValues) - L
      /\ \A i \in 1..(Len(newValues) - L) : added[i] = newValues[L + i]
  <2>1. L + 1 \in 1..(Len(newValues) + 1)
    BY <1>2
  <2> HIDE DEF L
  <2>2. /\ added \in Seq(Values) /\ Len(added) = Len(newValues) - (L + 1) + 1
        /\ \A i \in 1..(Len(newValues) - (L + 1) + 1) : added[i] = newValues[L + 1 + i - 1]
    BY <1>2, <2>1, RestFacts
  <2> QED
    BY <1>2, <2>2
<1> HIDE DEF added
<1>5. Follows(view', values')
  <2>1. at \in 1..(Len(values) + 1) /\ last = at + Len(added) - 1 /\ at = Len(values) + 1
    BY <1>2, <1>3
  <2> HIDE DEF at, last
  <2>2. values' = With(values, at, added)
    BY <1>1, <1>2, <1>3, <2>1, WithAtEnd
  <2>3. InsertRows(at, last) /\ Follows(view, values) /\ added \in Seq(Values)
    BY <1>1, <1>2, <1>3
  <2> QED
    BY <2>1, <2>2, <2>3, InsertRowsFollows
<1>6. Len(values') = Len(newValues) /\ SameUpTo(values', newValues, Len(values'), moved)
  <2>1. /\ Len(values \o added) = L + Len(added)
        /\ \A i \in 1..L : (values \o added)[i] = values[i]
        /\ \A i \in 1..Len(added) : (values \o added)[L + i] = added[i]
    BY <1>2, <1>3, Concat2Facts
  <2>2. Len(values') = Len(newValues)
    BY <1>1, <1>2, <1>3, <2>1
  <2>3. ASSUME NEW i \in 1..Len(newValues) PROVE Alike(values'[i], newValues[i], i, moved)
    <3>1. CASE i <= L
      <4>1. i \in 1..L /\ Alike(values[i], newValues[i], i, moved)
        BY <1>2, <3>1 DEF SameUpTo
      <4> QED
        BY <1>1, <2>1, <4>1
    <3>2. CASE i > L
      <4>1. i - L \in 1..Len(added) /\ L + (i - L) = i /\ i - L \in 1..(Len(newValues) - L)
        BY <1>2, <1>3, <3>2
      <4>2. values'[i] = newValues[i]
        BY <1>1, <1>3, <2>1, <4>1
      <4> QED
        BY <4>2 DEF Same, Alike
    <3> QED
      BY <1>2, <3>1, <3>2
  <2> QED
    BY <2>2, <2>3 DEF SameUpTo
<1> QED
  BY <1>1, <1>5, <1>6, ScriptStep

\* What all turns of the loop that do not end it begin from.
LEMMA BetweenFacts ==
    ASSUME IInv, Between
    PROVE  /\ Updating /\ iter = newIter /\ iter \in 1..Len(values) /\ iter \in 1..Len(newValues)
           /\ Len(values) \in Nat /\ Len(newValues) \in Nat
           /\ values \in Seq(Values) /\ newValues \in Seq(Values)
           /\ SameUpTo(values, newValues, iter - 1, moved) /\ Follows(view, values)
BY UpdateFacts, Lengths DEF Between

LEMMA RemoveGoneKeeps == IInv /\ RemoveGone => IInv'
<1> SUFFICES ASSUME IInv, RemoveGone PROVE IInv'
  OBVIOUS
<1>1. Between
  BY DEF RemoveGone
<1>2. PICK e : /\ e = RunEnd(values, iter,
                             {j \in DOMAIN values : ~Contains(Rest(newValues, newIter), values[j])})
               /\ values' = Without(values, iter, e - 1)
               /\ view' = Without(view, iter, e - 1)
  BY DEF RemoveGone, RemoveRows
<1>3. Unchanged /\ UNCHANGED <<iter, newIter, phase>>
  BY DEF RemoveGone, Goes
<1>4. e \in (iter + 1)..(Len(values) + 1)
  BY <1>1, <1>2, BetweenFacts, RunEndFacts
<1>5. iter \in 1..(Len(values) + 1) /\ e - 1 \in (iter - 1)..Len(values)
  BY <1>1, <1>4, BetweenFacts
<1>6. /\ Len(values') = Len(values) - (e - 1 - iter + 1)
      /\ \A i \in 1..(iter - 1) : values'[i] = values[i]
  BY <1>1, <1>2, <1>5, BetweenFacts, WithoutFacts
<1>7. Follows(view', values')
  BY <1>1, <1>2, <1>5, BetweenFacts, FollowsWithout
<1>8. iter' \in 1..(Len(values') + 1) /\ SameUpTo(values', newValues, iter' - 1, moved)
  <2>1. iter - 1 <= Len(values') /\ Len(values') \in Nat
    BY <1>1, <1>4, <1>6, BetweenFacts
  <2>2. \A i \in 1..(iter - 1) : Alike(values[i], newValues[i], i, moved)
    BY <1>1, BetweenFacts DEF SameUpTo
  <2> QED
    BY <1>1, <1>3, <1>6, <2>1, <2>2, BetweenFacts DEF SameUpTo
<1> QED
  BY <1>1, <1>3, <1>7, <1>8, BetweenFacts, ScriptStep DEF Updating

LEMMA AdvanceKeeps == IInv /\ Advance => IInv'
<1> SUFFICES ASSUME IInv, Advance PROVE IInv'
  OBVIOUS
<1>1. /\ Between /\ Unchanged /\ UNCHANGED <<values, view, phase>>
      /\ iter' = iter + 1 /\ newIter' = newIter + 1 /\ values[iter] = newValues[newIter]
  BY DEF Advance, Goes, New, Old
<1>2. SameUpTo(values', newValues, iter' - 1, moved)
  <2>1. iter' - 1 = iter /\ iter \in Nat
    BY <1>1, BetweenFacts
  <2>2. ASSUME NEW i \in 1..iter PROVE Alike(values[i], newValues[i], i, moved)
    <3>1. CASE i = iter
      BY <1>1, <3>1, BetweenFacts DEF Same, Alike
    <3>2. CASE i # iter
      <4>1. i \in 1..(iter - 1)
        BY <2>1, <3>2
      <4> QED
        BY <1>1, <4>1, BetweenFacts DEF SameUpTo
    <3> QED
      BY <3>1, <3>2
  <2> QED
    BY <1>1, <2>1, <2>2 DEF SameUpTo
<1>3. iter' = newIter' /\ iter' \in 1..(Len(values') + 1) /\ iter' <= Len(newValues) + 1
  BY <1>1, BetweenFacts
<1>4. Follows(view', values') /\ Updating /\ phase' = "update"
  BY <1>1, BetweenFacts DEF Updating
<1> QED
  BY <1>1, <1>2, <1>3, <1>4, ScriptStep

LEMMA InsertNewKeeps == IInv /\ InsertNew => IInv'
<1> SUFFICES ASSUME IInv, InsertNew PROVE IInv'
  OBVIOUS
<1>1. Between /\ Unchanged /\ UNCHANGED phase
  BY DEF InsertNew, Goes
<1>2. PICK e : /\ e = RunEnd(newValues, newIter,
                             {j \in DOMAIN newValues : ~Contains(Rest(values, iter), newValues[j])})
               /\ values' = With(values, iter, SubSeq(newValues, newIter, e - 1))
               /\ InsertRows(iter, iter + (e - newIter) - 1)
               /\ iter' = iter + (e - newIter) /\ newIter' = e
  BY DEF InsertNew, Goes
<1> DEFINE added == SubSeq(newValues, newIter, e - 1)
           len == e - newIter
           at == iter
           last == iter + (e - newIter) - 1
<1>3. /\ e \in (iter + 1)..(Len(newValues) + 1) /\ newIter = iter
      /\ at \in 1..(Len(values) + 1) /\ len \in Nat \ {0} /\ iter \in Nat \ {0}
      /\ iter' = e /\ newIter' = e
  <2>1. e \in (newIter + 1)..(Len(newValues) + 1)
    BY <1>1, <1>2, BetweenFacts, RunEndFacts
  <2> QED
    BY <1>1, <1>2, <2>1, BetweenFacts
<1>4. /\ added \in Seq(Values) /\ Len(added) = len
      /\ \A i \in 1..len : added[i] = newValues[newIter + i - 1]
  <2>1. /\ newIter \in Nat \ {0} /\ e - 1 \in Nat /\ newIter <= e - 1 + 1 /\ e - 1 <= Len(newValues)
        /\ e - 1 - newIter + 1 = len
    BY <1>1, <1>3, BetweenFacts
  <2> QED
    BY <1>1, <2>1, BetweenFacts, SubSeqFacts
<1>5. last = at + Len(added) - 1
  BY <1>3, <1>4
<1>6. values' = With(values, at, added) /\ InsertRows(at, last)
  BY <1>2
<1> HIDE DEF added, last
<1>7. Follows(view', values')
  <2>1. Follows(view, values)
    BY <1>1, BetweenFacts
  <2> QED
    BY <1>3, <1>4, <1>5, <1>6, <2>1, InsertRowsFollows
<1>8. IsWith(values', values, at, added, len)
  BY <1>1, <1>3, <1>4, <1>6, BetweenFacts, WithFacts
<1>9. iter' \in 1..(Len(values') + 1) /\ iter' <= Len(newValues) + 1
  BY <1>1, <1>3, <1>8, BetweenFacts DEF IsWith
<1>10. SameUpTo(values', newValues, iter' - 1, moved)
  <2>1. ASSUME NEW i \in 1..(e - 1) PROVE Alike(values'[i], newValues[i], i, moved)
    <3>1. CASE i < iter
      <4>1. i \in 1..(iter - 1)
        BY <1>3, <3>1
      <4>2. values'[i] = values[i]
        BY <1>8, <4>1 DEF IsWith
      <4> QED
        BY <1>1, <4>1, <4>2, BetweenFacts DEF SameUpTo
    <3>2. CASE i >= iter
      <4>1. /\ i \in at..(at + len - 1) /\ i - at + 1 \in 1..len
            /\ newIter + (i - at + 1) - 1 = i
        BY <1>3, <3>2
      <4>2. values'[i] = added[i - at + 1]
        BY <1>8, <4>1 DEF IsWith
      <4>3. values'[i] = newValues[i]
        BY <1>4, <4>1, <4>2
      <4> QED
        BY <4>3 DEF Same, Alike
    <3> QED
      BY <1>3, <3>1, <3>2
  <2> QED
    BY <1>3, <2>1 DEF SameUpTo
<1>11. Updating /\ phase' = "update" /\ iter' = newIter'
  BY <1>1, <1>3, BetweenFacts DEF Updating
<1> QED
  BY <1>1, <1>7, <1>9, <1>10, <1>11, ScriptStep

LEMMA ReplaceKeeps == IInv /\ Replace => IInv'
<1> SUFFICES ASSUME IInv, Replace PROVE IInv'
  OBVIOUS
<1> DEFINE run == {j \in iter..Len(values) : /\ newIter + (j - iter) <= Len(newValues)
                                             /\ values[j] # newValues[newIter + (j - iter)]}
<1>1. Between /\ Unchanged /\ UNCHANGED phase
  BY DEF Replace, Goes
<1>2. PICK e : /\ e = RunEnd(values, iter, run)
               /\ values' = [i \in DOMAIN values |-> IF i \in iter..(e - 1)
                                                     THEN newValues[newIter + (i - iter)] ELSE values[i]]
               /\ DataChanged(iter, e - 1)
               /\ iter' = e /\ newIter' = newIter + (e - iter)
  BY DEF Replace, Goes
<1>3. newIter = iter /\ iter \in 1..Len(values) /\ iter <= Len(newValues)
      /\ Len(values) \in Nat /\ Len(newValues) \in Nat
      /\ values \in Seq(Values) /\ newValues \in Seq(Values)
  BY <1>1, BetweenFacts
<1>4. e \in (iter + 1)..(Len(values) + 1) /\ (iter + 1)..(e - 1) \subseteq run
  BY <1>2, <1>3, RunEndFacts
<1>5. e - 1 <= Len(newValues)
  <2>1. CASE e - 1 = iter
    BY <1>3, <2>1
  <2>2. CASE e - 1 # iter
    <3>1. e - 1 \in (iter + 1)..(e - 1)
      BY <1>3, <1>4, <2>2
    <3>2. newIter + (e - 1 - iter) <= Len(newValues)
      BY <1>4, <3>1
    <3> QED
      BY <1>3, <1>4, <3>2
  <2> QED
    BY <2>1, <2>2
<1> HIDE DEF run
<1>6. /\ DOMAIN values = 1..Len(values)
      /\ \A i \in 1..Len(values) : values'[i] = IF i \in iter..(e - 1) THEN newValues[i] ELSE values[i]
  <2>1. DOMAIN values = 1..Len(values)
    BY <1>3, LenProperties
  <2>2. ASSUME NEW i \in iter..(e - 1) PROVE newIter + (i - iter) = i
    BY <1>3, <1>4
  <2> QED
    BY <1>2, <2>1, <2>2
<1>7. values' \in Seq(Values) /\ Len(values') = Len(values)
  <2>1. ASSUME NEW i \in 1..Len(values) PROVE values'[i] \in Values
    <3>1. CASE i \in iter..(e - 1)
      <4>1. i \in 1..Len(newValues)
        BY <1>3, <1>4, <1>5, <3>1
      <4> QED
        BY <1>3, <1>6, <3>1, <4>1, ElementOfSeq
    <3>2. CASE i \notin iter..(e - 1)
      BY <1>3, <1>6, <3>2, ElementOfSeq
    <3> QED
      BY <3>1, <3>2
  <2>2. values' = [i \in 1..Len(values) |-> values'[i]]
    BY <1>2, <1>6
  <2> HIDE <1>2
  <2>3. values' \in [1..Len(values) -> Values]
    BY <2>1, <2>2
  <2> QED
    BY <1>3, <2>3
<1>8. Follows(view', values')
  <2>1. /\ view \in Seq(Rows) /\ Len(view) = Len(values) /\ DOMAIN view = 1..Len(values)
        /\ \A i \in 1..Len(values) : view[i].shows = values[i] /\ view[i] \in Rows
    BY <1>1, <1>3, BetweenFacts, LenProperties, ElementOfSeq DEF Follows
  <2>2. view' = [i \in 1..Len(values) |-> IF i \in iter..(e - 1)
                                          THEN [view[i] EXCEPT !.shows = values'[i]] ELSE view[i]]
    BY <1>2, <2>1 DEF DataChanged
  <2>3. ASSUME NEW i \in 1..Len(values) PROVE view'[i] \in Rows /\ view'[i].shows = values'[i]
    <3>1. view[i] \in Rows /\ values'[i] \in Values /\ view[i].shows = values[i]
      BY <1>7, <2>1, ElementOfSeq
    <3>2. CASE i \in iter..(e - 1)
      <4>1. view'[i] = [view[i] EXCEPT !.shows = values'[i]]
        BY <2>2, <3>2
      <4> QED
        BY <3>1, <4>1 DEF Rows
    <3>3. CASE i \notin iter..(e - 1)
      BY <1>6, <2>2, <3>1, <3>3
    <3> QED
      BY <3>2, <3>3
  <2>4. view' \in [1..Len(values) -> Rows]
    BY <2>2, <2>3
  <2>5. view' \in Seq(Rows) /\ Len(view') = Len(values)
    BY <1>3, <2>4
  <2> QED
    BY <1>7, <2>3, <2>5 DEF Follows
<1>9. SameUpTo(values', newValues, iter' - 1, moved)
  <2>1. ASSUME NEW i \in 1..(e - 1) PROVE Alike(values'[i], newValues[i], i, moved)
    <3>0. i \in 1..Len(values)
      BY <1>3, <1>4
    <3>1. CASE i < iter
      <4>1. i \in 1..(iter - 1) /\ i \notin iter..(e - 1)
        BY <1>3, <3>1
      <4>2. values'[i] = values[i]
        BY <1>6, <3>0, <4>1
      <4> QED
        BY <1>1, <4>1, <4>2, BetweenFacts DEF SameUpTo
    <3>2. CASE i >= iter
      <4>1. i \in iter..(e - 1)
        BY <1>3, <1>4, <3>2
      <4>2. values'[i] = newValues[i]
        BY <1>6, <3>0, <4>1
      <4> QED
        BY <4>2 DEF Same, Alike
    <3> QED
      BY <1>3, <3>1, <3>2
  <2> QED
    BY <1>2, <2>1 DEF SameUpTo
<1>10. /\ Updating /\ phase' = "update" /\ iter' = newIter'
       /\ iter' \in 1..(Len(values') + 1) /\ iter' <= Len(newValues) + 1
  BY <1>1, <1>2, <1>3, <1>4, <1>5, <1>7, BetweenFacts DEF Updating
<1> QED
  BY <1>1, <1>8, <1>9, <1>10, ScriptStep

\* The row that a value that is in the rest of a list has first.
LEMMA FirstOf ==
    ASSUME NEW s \in Seq(Values), NEW at \in 1..Len(s), NEW v, Contains(Rest(s, at), v)
    PROVE  \E i \in at..Len(s) : Same(s[i], v) /\ \A j \in at..(i - 1) : ~Same(s[j], v)
<1>1. Len(s) \in Nat /\ at \in 1..(Len(s) + 1)
  BY LenProperties
<1>2. /\ Rest(s, at) \in Seq(Values) /\ Len(Rest(s, at)) = Len(s) - at + 1
      /\ \A i \in 1..(Len(s) - at + 1) : Rest(s, at)[i] = s[at + i - 1]
  BY <1>1, RestFacts
<1>3. PICK k \in 1..(Len(s) - at + 1) : Same(Rest(s, at)[k], v)
  BY <1>1, <1>2, LenProperties DEF Contains
<1> DEFINE T == {i \in at..Len(s) : Same(s[i], v)}
<1>4. at + k - 1 \in T
  BY <1>1, <1>2, <1>3
<1>5. T \in SUBSET Nat /\ T # {}
  BY <1>1, <1>4
<1>6. PICK i \in T : \A j \in T : i <= j
  BY <1>5, LeastNumber
<1>7. ASSUME NEW j \in at..(i - 1) PROVE ~Same(s[j], v)
  <2>1. j \in at..Len(s) /\ ~(i <= j)
    BY <1>1, <1>6
  <2> QED
    BY <1>6, <2>1
<1> QED
  BY <1>6, <1>7

LEMMA MoveRowsFollows ==
    ASSUME Follows(view, values), NEW first \in 1..Len(values), NEW last \in first..Len(values),
           NEW at \in 1..first,
           values' = With(Without(values, first, last), at, SubSeq(values, first, last)),
           MoveRows(first, last, at)
    PROVE  Follows(view', values')
<1>1. Len(values) \in Nat /\ values \in Seq(Values)
  BY LenProperties DEF Follows
<1>2. /\ first \in 1..(Len(values) + 1) /\ last \in (first - 1)..Len(values)
      /\ last - first + 1 \in Nat /\ first <= last
  BY <1>1
<1>3. Len(Without(values, first, last)) = Len(values) - (last - first + 1)
  BY <1>1, <1>2, WithoutFacts
<1>4. at \in 1..(Len(Without(values, first, last)) + 1)
  BY <1>1, <1>2, <1>3
<1>5. Follows(Without(view, first, last), Without(values, first, last))
  BY <1>2, FollowsWithout
<1>6. Follows(SubSeq(view, first, last), SubSeq(values, first, last))
  BY <1>2, FollowsSubSeq
<1> QED
  BY <1>4, <1>5, <1>6, FollowsWith DEF MoveRows

LEMMA MoveRangeKeeps == IInv /\ MoveRange => IInv'
<1> SUFFICES ASSUME IInv, MoveRange PROVE IInv'
  OBVIOUS
<1>1. Between /\ SameUpdate /\ UNCHANGED phase /\ Contains(Rest(values, iter), New)
  BY DEF MoveRange
<1>2. /\ newIter = iter /\ iter \in 1..Len(values) /\ iter <= Len(newValues)
      /\ Len(values) \in Nat /\ Len(newValues) \in Nat
      /\ values \in Seq(Values) /\ newValues \in Seq(Values) /\ Follows(view, values)
  BY <1>1, BetweenFacts
<1> DEFINE First(i) == Same(values[i], New) /\ \A j \in iter..(i - 1) : ~Same(values[j], New)
           run(from) == {j \in from..Len(values) :
                         /\ newIter + (j - from) <= Len(newValues)
                         /\ Same(values[j], newValues[newIter + (j - from)])}
<1>3. PICK from : from = CHOOSE i \in iter..Len(values) : First(i)
  OBVIOUS
<1>4. from \in iter..Len(values) /\ Same(values[from], New)
  <2>1. \E i \in iter..Len(values) : First(i)
    BY <1>1, <1>2, FirstOf
  <2> QED
    BY <1>3, <2>1
<1>5. PICK e : /\ e = RunEnd(values, from, run(from))
               /\ values' = With(Without(values, from, e - 1), iter, SubSeq(values, from, e - 1))
               /\ MoveRows(from, e - 1, iter)
               /\ iter' = iter + (e - from) /\ newIter' = newIter + (e - from)
               /\ moved' = moved \cup iter..(iter + (e - from) - 1)
  BY <1>3 DEF MoveRange
<1>6. from \in 1..Len(values)
  BY <1>2, <1>4
<1>7. e \in (from + 1)..(Len(values) + 1) /\ (from + 1)..(e - 1) \subseteq run(from)
  BY <1>2, <1>5, <1>6, RunEndFacts
<1> DEFINE len == e - from
<1>8. len \in Nat \ {0} /\ e - 1 \in from..Len(values) /\ iter \in 1..from /\ iter \in Nat \ {0}
      /\ len <= Len(values) - from + 1 /\ e \in Nat /\ from \in Nat /\ len = e - from
  BY <1>2, <1>4, <1>6, <1>7
<1>9. ASSUME NEW k \in 0..(len - 1)
      PROVE  iter + k <= Len(newValues) /\ Same(values[from + k], newValues[iter + k])
  <2>1. CASE k = 0
    <3>1. from + k = from /\ iter + k = newIter
      BY <1>2, <1>8, <2>1
    <3> QED
      BY <1>2, <1>4, <3>1 DEF New
  <2>2. CASE k # 0
    <3>1. PICK m : m = from + k
      OBVIOUS
    <3>2. m \in (from + 1)..(e - 1) /\ newIter + (m - from) = iter + k
      BY <1>2, <1>6, <1>8, <2>2, <3>1
    <3>3. newIter + (m - from) <= Len(newValues) /\ Same(values[m], newValues[newIter + (m - from)])
      BY <1>7, <3>2
    <3> QED
      BY <3>1, <3>2, <3>3
  <2> QED
    BY <2>1, <2>2
<1> HIDE DEF run
<1>10. Follows(view', values')
  BY <1>2, <1>5, <1>6, <1>8, MoveRowsFollows
<1> DEFINE s == Without(values, from, e - 1)
           added == SubSeq(values, from, e - 1)
<1>11. /\ s \in Seq(Values) /\ Len(s) = Len(values) - len
       /\ \A i \in 1..(from - 1) : s[i] = values[i]
  <2>1. from \in 1..(Len(values) + 1) /\ e - 1 \in (from - 1)..Len(values) /\ e - 1 - from + 1 = len
    BY <1>2, <1>6, <1>8
  <2> QED
    BY <1>2, <2>1, WithoutFacts
<1>12. /\ added \in Seq(Values) /\ Len(added) = len
       /\ \A i \in 1..len : added[i] = values[from + i - 1]
  <2>1. from \in Nat \ {0} /\ e - 1 \in Nat /\ from <= e - 1 + 1 /\ e - 1 <= Len(values)
        /\ e - 1 - from + 1 = len
    BY <1>2, <1>6, <1>8
  <2> QED
    BY <1>2, <2>1, SubSeqFacts
<1>13. IsWith(values', s, iter, added, len)
  <2>0. iter \in 1..(Len(s) + 1)
    BY <1>2, <1>8, <1>11
  <2>1. values' = With(s, iter, added) /\ iter \in 1..(Len(s) + 1)
    BY <1>5, <2>0
  <2> HIDE DEF s, added
  <2> QED
    BY <1>11, <1>12, <2>1, WithFacts
<1> HIDE DEF s, added
<1>14. iter' \in 1..(Len(values') + 1) /\ iter' <= Len(newValues) + 1
  <2>1. iter + len - 1 <= Len(newValues)
    <3>1. len - 1 \in 0..(len - 1) /\ iter + (len - 1) = iter + len - 1
      BY <1>8
    <3> HIDE DEF len
    <3>2. iter + (len - 1) <= Len(newValues)
      BY <1>9, <3>1
    <3> QED
      BY <3>1, <3>2
  <2>2. Len(values') = Len(values)
    BY <1>2, <1>8, <1>11, <1>13 DEF IsWith
  <2>3. iter' = iter + len
    BY <1>5
  <2> HIDE DEF len
  <2> QED
    BY <1>2, <1>8, <2>1, <2>2, <2>3
<1>15. SameUpTo(values', newValues, iter' - 1, moved')
  <2>1. ASSUME NEW i \in 1..(iter + len - 1) PROVE Alike(values'[i], newValues[i], i, moved')
    <3>1. CASE i < iter
      <4>1. i \in 1..(iter - 1) /\ i \in 1..(from - 1)
        BY <1>4, <1>8, <3>1
      <4>2. values'[i] = values[i]
        BY <1>11, <1>13, <4>1 DEF IsWith
      <4>3. Alike(values[i], newValues[i], i, moved)
        BY <1>1, <4>1, BetweenFacts DEF SameUpTo
      <4>4. i \in moved' <=> i \in moved
        <5>1. i \notin iter..(iter + len - 1)
          <6>1. iter \in Nat /\ i \in Nat /\ i < iter
            BY <1>8, <3>1
          <6> HIDE DEF len
          <6> QED
            BY <6>1
        <5>2. moved' = moved \cup iter..(iter + len - 1)
          BY <1>5
        <5> HIDE DEF len
        <5> QED
          BY <5>1, <5>2
      <4> QED
        BY <4>2, <4>3, <4>4 DEF Alike
    <3>2. CASE i >= iter
      <4>1. /\ i \in iter..(iter + len - 1) /\ i - iter + 1 \in 1..len
            /\ from + (i - iter + 1) - 1 = from + (i - iter)
            /\ iter + (i - iter) = i /\ i - iter \in 0..(len - 1)
        BY <1>6, <1>8, <3>2
      <4>2. values'[i] = added[i - iter + 1]
        BY <1>13, <4>1 DEF IsWith
      <4>3. values'[i] = values[from + (i - iter)]
        BY <1>12, <4>1, <4>2
      <4>4. Same(values[from + (i - iter)], newValues[iter + (i - iter)])
        BY <1>9, <4>1
      <4>5. i \in moved'
        BY <1>5, <4>1
      <4> QED
        BY <4>1, <4>3, <4>4, <4>5 DEF Alike
    <3> QED
      BY <1>8, <3>1, <3>2
  <2>2. iter' - 1 = iter + len - 1
    BY <1>5, <1>8
  <2> QED
    BY <2>1, <2>2 DEF SameUpTo
<1>16. Updating /\ phase' = "update" /\ iter' = newIter'
  BY <1>1, <1>2, <1>5, BetweenFacts DEF Updating
<1>17. moved' \subseteq 1..MaxLen
  <2>1. Len(newValues) <= MaxLen /\ MaxLen \in Nat /\ moved \subseteq 1..MaxLen
    BY Lengths DEF IInv, Types
  <2>2. iter' = iter + len /\ moved' = moved \cup iter..(iter + len - 1)
    BY <1>5
  <2>3. iter + len - 1 <= Len(newValues)
    BY <1>2, <1>8, <1>14, <2>2
  <2> HIDE DEF len
  <2> QED
    BY <1>2, <1>8, <2>1, <2>2, <2>3
<1> QED
  BY <1>1, <1>10, <1>14, <1>15, <1>16, <1>17, ScriptStepMoving

-----------------------------------------------------------------------------
(* ObjectModel::diffUpdate.                                                *)

\* A list without one of its rows.
LEMMA DistinctWithout ==
    ASSUME NEW s \in Seq(Values), Distinct(s), NEW at \in 1..Len(s), NEW t, t = Without(s, at, at)
    PROVE  /\ Distinct(t) /\ Len(t) = Len(s) - 1
           /\ \A i \in 1..(at - 1) : t[i] = s[i]
           /\ \A i \in 1..Len(t) : \E j \in 1..Len(s) : t[i] = s[j]
<1>1. Len(s) \in Nat /\ at \in 1..(Len(s) + 1) /\ at \in (at - 1)..Len(s) /\ at - at + 1 = 1
  BY LenProperties
<1>2. /\ t \in Seq(Values) /\ Len(t) = Len(s) - 1
      /\ \A i \in 1..(at - 1) : t[i] = s[i]
      /\ \A i \in at..Len(t) : t[i] = s[i + 1]
  <2>1. /\ Without(s, at, at) \in Seq(Values)
        /\ Len(Without(s, at, at)) = Len(s) - (at - at + 1)
        /\ \A i \in 1..(at - 1) : Without(s, at, at)[i] = s[i]
        /\ \A i \in at..Len(Without(s, at, at)) : Without(s, at, at)[i] = s[i + (at - at + 1)]
    BY <1>1, WithoutFacts, Zenon
  <2> QED
    BY <1>1, <2>1
<1> DEFINE from(i) == IF i < at THEN i ELSE i + 1
<1>3. ASSUME NEW i \in 1..Len(t) PROVE from(i) \in 1..Len(s) /\ t[i] = s[from(i)]
  <2>1. CASE i < at
    <3>1. i \in 1..(at - 1) /\ i \in 1..Len(s)
      BY <1>1, <1>2, <2>1
    <3> QED
      BY <1>2, <2>1, <3>1
  <2>2. CASE ~(i < at)
    <3>1. i \in at..Len(t) /\ i + 1 \in 1..Len(s)
      BY <1>1, <1>2, <2>2
    <3> QED
      BY <1>2, <2>2, <3>1
  <2> QED
    BY <2>1, <2>2
<1>4. ASSUME NEW i \in 1..Len(t), NEW j \in 1..Len(t), from(i) = from(j) PROVE i = j
  BY <1>1, <1>2, <1>4
<1> HIDE DEF from
<1>5. ASSUME NEW i \in 1..Len(t), NEW j \in 1..Len(t), t[i] = t[j] PROVE i = j
  <2>1. s[from(i)] = s[from(j)] /\ from(i) \in 1..Len(s) /\ from(j) \in 1..Len(s)
    BY <1>3, <1>5
  <2>2. from(i) = from(j)
    BY <2>1 DEF Distinct
  <2> QED
    BY <1>4, <2>2
<1> QED
  BY <1>2, <1>3, <1>5 DEF Distinct

\* A list with one row more.
LEMMA DistinctWith ==
    ASSUME NEW s \in Seq(Values), Distinct(s), NEW v \in Values, ~InList(s, v),
           NEW at \in 1..(Len(s) + 1), NEW t, t = With(s, at, <<v>>)
    PROVE  /\ Distinct(t) /\ Len(t) = Len(s) + 1 /\ t[at] = v
           /\ \A i \in 1..(at - 1) : t[i] = s[i]
           /\ \A i \in 1..Len(t) : t[i] = v \/ \E j \in 1..Len(s) : t[i] = s[j]
<1>1. Len(s) \in Nat /\ <<v>> \in Seq(Values) /\ Len(<<v>>) = 1 /\ <<v>>[1] = v
  BY LenProperties
<1>2. IsWith(t, s, at, <<v>>, 1)
  BY <1>1, WithFacts
<1>3. /\ Len(t) = Len(s) + 1
      /\ \A i \in 1..(at - 1) : t[i] = s[i]
      /\ \A i \in (at + 1)..Len(t) : t[i] = s[i - 1]
  BY <1>2 DEF IsWith
<1>4. t[at] = v
  <2>1. at \in at..(at + 1 - 1) /\ at - at + 1 = 1
    BY <1>1
  <2>2. \A i \in at..(at + 1 - 1) : t[i] = <<v>>[i - at + 1]
    BY <1>2 DEF IsWith
  <2>3. t[at] = <<v>>[at - at + 1]
    BY <2>1, <2>2
  <2> QED
    BY <1>1, <2>1, <2>3
<1> DEFINE from(i) == IF i < at THEN i ELSE i - 1
<1>5. ASSUME NEW i \in 1..Len(t), i # at PROVE from(i) \in 1..Len(s) /\ t[i] = s[from(i)]
  <2>1. CASE i < at
    <3>1. i \in 1..(at - 1) /\ i \in 1..Len(s)
      BY <1>1, <1>3, <2>1
    <3> QED
      BY <1>3, <2>1, <3>1
  <2>2. CASE ~(i < at)
    <3>1. i \in (at + 1)..Len(t) /\ i - 1 \in 1..Len(s)
      BY <1>1, <1>3, <1>5, <2>2
    <3> QED
      BY <1>3, <2>2, <3>1
  <2> QED
    BY <2>1, <2>2
<1>6. ASSUME NEW i \in 1..Len(t), NEW j \in 1..Len(t), i # at, j # at, from(i) = from(j) PROVE i = j
  BY <1>1, <1>3, <1>6
<1> HIDE DEF from
<1>7. ASSUME NEW i \in 1..Len(t), NEW j \in 1..Len(t), t[i] = t[j] PROVE i = j
  <2>1. CASE i # at /\ j # at
    <3>1. s[from(i)] = s[from(j)] /\ from(i) \in 1..Len(s) /\ from(j) \in 1..Len(s)
      BY <1>5, <1>7, <2>1
    <3>2. from(i) = from(j)
      BY <3>1 DEF Distinct
    <3> QED
      BY <1>6, <2>1, <3>2
  <2>2. CASE i = at /\ j # at
    BY <1>4, <1>5, <1>7, <2>2 DEF InList
  <2>3. CASE i # at /\ j = at
    BY <1>4, <1>5, <1>7, <2>3 DEF InList
  <2> QED
    BY <2>1, <2>2, <2>3
<1> QED
  BY <1>3, <1>4, <1>5, <1>7 DEF Distinct

\* What a step is to keep.
LEMMA ObjectStep ==
    ASSUME IInv, kind = "object", Unchanged, Follows(view', values'), Distinct(values'),
           \/ /\ phase' = "prune" /\ newIter' = 1 /\ iter' \in 1..(Len(values') + 1)
              /\ Len(values') <= MaxLen
              /\ \A i \in 1..(iter' - 1) : InList(newValues, values'[i])
           \/ /\ phase' = "place" /\ iter' = iter /\ newIter' \in 1..(Len(values') + 1)
              /\ newIter' <= Len(newValues) + 1
              /\ \A i \in 1..Len(values') : InList(newValues, values'[i])
              /\ \A i \in 1..(newIter' - 1) : values'[i] = newValues[i]
           \/ /\ phase' = "idle" /\ UNCHANGED <<iter, newIter>>
              /\ Len(values') = Len(newValues)
              /\ \A i \in 1..Len(values') : values'[i] = newValues[i]
    PROVE  IInv'
<1>1. UNCHANGED <<kind, cmpKey, newValues, before>>
  BY DEF Unchanged, SameUpdate
<1>2. Len(values') \in Nat
  BY LenProperties DEF Follows
<1>3. Types'
  BY <1>1, <1>2, Lengths DEF IInv, Types, Unchanged, SameUpdate
<1>4. Follows(view, values)'
  BY DEF Follows, Rows
<1>5. IdleInv'
  BY <1>1, <1>2 DEF IdleInv, Idle, SameUpTo, Alike, Same
<1>6. UpdateInv'
  BY DEF UpdateInv, Updating
<1>7. ObjectInv'
  BY <1>1 DEF IInv, ObjectInv, Distinct
<1>8. PruneInv' /\ PlaceInv'
  BY <1>1, <1>2 DEF PruneInv, PlaceInv, Pruning, Placing, InList
<1> QED
  BY <1>3, <1>4, <1>5, <1>6, <1>7, <1>8 DEF IInv

LEMMA ObjectFacts ==
    ASSUME IInv, Pruning \/ Placing
    PROVE  /\ kind = "object" /\ ~cmpKey /\ Distinct(values) /\ Distinct(newValues)
           /\ Follows(view, values)
BY DEF IInv, Types, Pruning, Placing, ObjectInv

LEMMA PruneKeeps == IInv /\ Prune => IInv'
<1> SUFFICES ASSUME IInv, Prune PROVE IInv'
  OBVIOUS
<1>1. /\ Pruning /\ Unchanged /\ UNCHANGED phase /\ newIter' = newIter /\ newIter = 1
      /\ iter \in 1..Len(values) /\ Len(values) <= MaxLen
      /\ \A i \in 1..(iter - 1) : InList(newValues, values[i])
  BY Lengths DEF Prune, Goes, AtEnd, IInv, PruneInv
<1>2. /\ Len(values) \in Nat /\ Len(newValues) \in Nat /\ MaxLen \in Nat
      /\ values \in Seq(Values) /\ newValues \in Seq(Values)
      /\ kind = "object" /\ ~cmpKey /\ Distinct(values) /\ Follows(view, values)
  BY <1>1, Lengths, ObjectFacts
<1>3. CASE Contains(newValues, Old) /\ UNCHANGED <<values, view>> /\ iter' = iter + 1
  <2>1. InList(newValues, values[iter])
    BY <1>2, <1>3, LenProperties DEF Contains, Old, Same, InList
  <2>2. iter' - 1 = iter /\ iter' \in 1..(Len(values') + 1) /\ Len(values') <= MaxLen
    BY <1>1, <1>2, <1>3
  <2>3. ASSUME NEW i \in 1..iter PROVE InList(newValues, values[i])
    <3>1. CASE i = iter
      BY <2>1, <3>1
    <3>2. CASE i # iter
      <4>1. i \in 1..(iter - 1)
        BY <1>1, <1>2, <3>2
      <4> QED
        BY <1>1, <4>1
    <3> QED
      BY <3>1, <3>2
  <2>4. Follows(view', values') /\ Distinct(values') /\ phase' = "prune" /\ newIter' = 1
    BY <1>1, <1>2, <1>3 DEF Pruning
  <2>5. \A i \in 1..(iter' - 1) : InList(newValues, values'[i])
    BY <1>3, <2>2, <2>3
  <2> QED
    BY <1>1, <1>2, <2>2, <2>4, <2>5, ObjectStep
<1>4. CASE RemoveAt(iter) /\ iter' = iter
  <2>1. values' = Without(values, iter, iter) /\ view' = Without(view, iter, iter)
    BY <1>4 DEF RemoveAt, RemoveRows
  <2>2. iter \in 1..(Len(values) + 1) /\ iter \in (iter - 1)..Len(values)
    BY <1>1, <1>2
  <2>3. Follows(view', values')
    BY <1>2, <2>1, <2>2, FollowsWithout
  <2>4. /\ Distinct(values') /\ Len(values') = Len(values) - 1
        /\ \A i \in 1..(iter - 1) : values'[i] = values[i]
    BY <1>1, <1>2, <2>1, DistinctWithout
  <2>5. iter' \in 1..(Len(values') + 1) /\ Len(values') <= MaxLen
    BY <1>1, <1>2, <1>4, <2>4
  <2>6. \A i \in 1..(iter' - 1) : InList(newValues, values'[i])
    BY <1>1, <1>4, <2>4
  <2>7. phase' = "prune" /\ newIter' = 1
    BY <1>1 DEF Pruning
  <2> QED
    BY <1>1, <1>2, <2>3, <2>4, <2>5, <2>6, <2>7, ObjectStep
<1> QED
  BY <1>3, <1>4 DEF Prune, Goes

LEMMA PruneEndsKeeps == IInv /\ PruneEnds => IInv'
<1> SUFFICES ASSUME IInv, PruneEnds PROVE IInv'
  OBVIOUS
<1>1. /\ Pruning /\ Unchanged /\ phase' = "place" /\ UNCHANGED <<values, view, iter, newIter>>
      /\ newIter = 1 /\ iter - 1 = Len(values)
      /\ \A i \in 1..(iter - 1) : InList(newValues, values[i])
  BY Lengths DEF PruneEnds, AtEnd, IInv, PruneInv
<1>2. /\ Len(values) \in Nat /\ Len(newValues) \in Nat
      /\ kind = "object" /\ Distinct(values) /\ Follows(view, values)
  BY <1>1, Lengths, ObjectFacts
<1>3. newIter' \in 1..(Len(values') + 1) /\ newIter' <= Len(newValues) + 1 /\ newIter' - 1 = 0
  BY <1>1, <1>2
<1>4. /\ Follows(view', values') /\ Distinct(values')
      /\ \A i \in 1..Len(values') : InList(newValues, values'[i])
      /\ \A i \in 1..(newIter' - 1) : values'[i] = newValues[i]
  BY <1>1, <1>2, <1>3
<1> QED
  BY <1>1, <1>2, <1>3, <1>4, ObjectStep

LEMMA PlaceKeeps == IInv /\ Place => IInv'
<1> SUFFICES ASSUME IInv, Place PROVE IInv'
  OBVIOUS
<1>1. /\ Placing /\ Unchanged /\ UNCHANGED phase /\ iter' = iter
      /\ newIter \in 1..(Len(values) + 1) /\ newIter \in 1..Len(newValues)
      /\ \A i \in 1..Len(values) : InList(newValues, values[i])
      /\ \A i \in 1..(newIter - 1) : values[i] = newValues[i]
  BY Lengths DEF Place, Goes, NewAtEnd, IInv, PlaceInv
<1>2. /\ Len(values) \in Nat /\ Len(newValues) \in Nat /\ newIter \in Nat
      /\ values \in Seq(Values) /\ newValues \in Seq(Values) /\ kind = "object"
      /\ Distinct(values) /\ Distinct(newValues) /\ Follows(view, values) /\ phase' = "place"
  BY <1>1, Lengths, ObjectFacts DEF Placing
<1>3. CASE InPlace /\ UNCHANGED <<values, view>> /\ newIter' = newIter + 1
  <2>1. newIter <= Len(values) /\ values[newIter] = newValues[newIter]
    BY <1>3 DEF InPlace, New
  <2>2. /\ newIter' \in 1..(Len(values') + 1) /\ newIter' <= Len(newValues) + 1
        /\ newIter' - 1 = newIter
    BY <1>1, <1>2, <1>3, <2>1
  <2>3. ASSUME NEW i \in 1..newIter PROVE values[i] = newValues[i]
    <3>1. i = newIter \/ i \in 1..(newIter - 1)
      BY <1>2
    <3> QED
      BY <1>1, <2>1, <3>1
  <2>4. /\ Follows(view', values') /\ Distinct(values')
        /\ \A i \in 1..Len(values') : InList(newValues, values'[i])
        /\ \A i \in 1..(newIter' - 1) : values'[i] = newValues[i]
    BY <1>1, <1>2, <1>3, <2>2, <2>3
  <2> QED
    BY <1>1, <1>2, <2>2, <2>4, ObjectStep
<1>4. CASE /\ Below # {} /\ RemoveAt(CHOOSE i \in Below : \A j \in Below : i <= j)
           /\ newIter' = newIter
  <2>1. PICK at : at = CHOOSE i \in Below : \A j \in Below : i <= j
    OBVIOUS
  <2>2. at \in Below
    <3>1. Below \in SUBSET Nat
      BY <1>1, <1>2 DEF Below
    <3>2. \E i \in Below : \A j \in Below : i <= j
      BY <1>4, <3>1, LeastNumber
    <3> QED
      BY <2>1, <3>2
  <2>3. /\ at \in 1..Len(values) /\ at \in 1..(Len(values) + 1) /\ at \in (at - 1)..Len(values)
        /\ newIter <= at
    BY <1>1, <1>2, <2>2 DEF Below
  <2>4. values' = Without(values, at, at) /\ view' = Without(view, at, at)
    BY <1>4, <2>1 DEF RemoveAt, RemoveRows
  <2>5. Follows(view', values')
    BY <1>2, <2>3, <2>4, FollowsWithout
  <2>6. /\ Distinct(values') /\ Len(values') = Len(values) - 1
        /\ \A i \in 1..(at - 1) : values'[i] = values[i]
        /\ \A i \in 1..Len(values') : \E j \in 1..Len(values) : values'[i] = values[j]
    <3>1. /\ values \in Seq(Values) /\ Distinct(values) /\ at \in 1..Len(values)
          /\ values' = Without(values, at, at)
      BY <1>2, <2>3, <2>4
    <3> QED
      BY <3>1, DistinctWithout
  <2>7. newIter' \in 1..(Len(values') + 1) /\ newIter' <= Len(newValues) + 1
    BY <1>1, <1>2, <1>4, <2>3, <2>6
  <2>8. \A i \in 1..Len(values') : InList(newValues, values'[i])
    BY <1>1, <2>6
  <2>9. ASSUME NEW i \in 1..(newIter - 1) PROVE values'[i] = newValues[i]
    <3>1. i \in 1..(at - 1)
      BY <1>2, <2>3
    <3> QED
      BY <1>1, <2>6, <3>1
  <2> QED
    BY <1>1, <1>2, <1>4, <2>5, <2>6, <2>7, <2>8, <2>9, ObjectStep
<1>5. CASE Below = {} /\ InsertObject(New, newIter) /\ newIter' = newIter + 1
  <2> DEFINE at == newIter
             added == <<New>>
             last == newIter
  <2>1. New \in Values /\ New = newValues[newIter]
    BY <1>1, <1>2, ElementOfSeq DEF New
  <2>2. added \in Seq(Values) /\ last = at + Len(added) - 1
    BY <1>2, <2>1
  <2>3. values' = With(values, at, added) /\ InsertRows(at, last)
    BY <1>5 DEF InsertObject
  <2>4. at \in 1..(Len(values) + 1)
    BY <1>1
  <2> HIDE DEF last, added
  <2>5. Follows(view', values')
    BY <1>2, <2>2, <2>3, <2>4, InsertRowsFollows
  <2>6. ~InList(values, New)
    <3> SUFFICES ASSUME NEW j \in 1..Len(values), values[j] = New PROVE FALSE
      BY DEF InList
    <3>1. CASE j < newIter
      <4>1. j \in 1..(newIter - 1) /\ j \in 1..Len(newValues) /\ j # newIter
        BY <1>1, <1>2, <3>1
      <4>2. newValues[j] = newValues[newIter]
        BY <1>1, <2>1, <4>1
      <4> QED
        BY <1>1, <1>2, <4>1, <4>2 DEF Distinct
    <3>2. CASE ~(j < newIter)
      <4>1. j \in newIter..Len(values)
        BY <1>2, <3>2
      <4> QED
        BY <1>5, <4>1 DEF Below
    <3> QED
      BY <3>1, <3>2
  <2>7. /\ Distinct(values') /\ Len(values') = Len(values) + 1 /\ values'[newIter] = New
        /\ \A i \in 1..(newIter - 1) : values'[i] = values[i]
        /\ \A i \in 1..Len(values') : values'[i] = New \/ \E j \in 1..Len(values) : values'[i] = values[j]
    <3>1. values' = With(values, newIter, <<New>>) /\ newIter \in 1..(Len(values) + 1)
      BY <2>3, <2>4 DEF added
    <3> QED
      BY <1>2, <2>1, <2>6, <3>1, DistinctWith
  <2>8. /\ newIter' \in 1..(Len(values') + 1) /\ newIter' <= Len(newValues) + 1
        /\ newIter' - 1 = newIter
    BY <1>1, <1>2, <1>5, <2>7
  <2>9. InList(newValues, New)
    BY <1>1, <2>1 DEF InList
  <2>10. \A i \in 1..Len(values') : InList(newValues, values'[i])
    BY <1>1, <2>7, <2>9
  <2>11. ASSUME NEW i \in 1..newIter PROVE values'[i] = newValues[i]
    <3>1. i = newIter \/ i \in 1..(newIter - 1)
      BY <1>2
    <3> QED
      BY <1>1, <2>1, <2>7, <3>1
  <2> QED
    BY <1>1, <1>2, <2>5, <2>7, <2>8, <2>10, <2>11, ObjectStep
<1> QED
  BY <1>3, <1>4, <1>5 DEF Place, Goes

\* A row more would be one of the new list, which has its own place.
LEMMA PlaceEndsKeeps == IInv /\ PlaceEnds => IInv'
<1> SUFFICES ASSUME IInv, PlaceEnds PROVE IInv'
  OBVIOUS
<1>1. /\ Placing /\ Unchanged /\ phase' = "idle" /\ UNCHANGED <<values, view, iter, newIter>>
      /\ newIter - 1 = Len(newValues) /\ newIter <= Len(values) + 1
      /\ \A i \in 1..Len(values) : InList(newValues, values[i])
      /\ \A i \in 1..(newIter - 1) : values[i] = newValues[i]
  BY Lengths DEF PlaceEnds, Ends, NewAtEnd, IInv, PlaceInv
<1>2. /\ Len(values) \in Nat /\ Len(newValues) \in Nat /\ newIter \in Nat
      /\ kind = "object" /\ Distinct(values) /\ Follows(view, values)
  BY <1>1, Lengths, ObjectFacts
<1>3. Len(values) = Len(newValues)
  <2> SUFFICES ASSUME Len(values) # Len(newValues) PROVE FALSE
    OBVIOUS
  <2>1. newIter \in 1..Len(values)
    BY <1>1, <1>2
  <2>2. PICK k \in 1..Len(newValues) : newValues[k] = values[newIter]
    BY <1>1, <2>1 DEF InList
  <2>3. k \in 1..(newIter - 1) /\ k \in 1..Len(values) /\ k # newIter
    BY <1>1, <1>2, <2>1
  <2>4. values[k] = values[newIter]
    BY <1>1, <2>2, <2>3
  <2> QED
    BY <1>2, <2>1, <2>3, <2>4 DEF Distinct
<1>4. Follows(view', values') /\ Distinct(values') /\ Len(values') = Len(newValues)
  BY <1>1, <1>2, <1>3
<1>5. \A i \in 1..Len(values') : values'[i] = newValues[i]
  BY <1>1, <1>3
<1> QED
  BY <1>1, <1>2, <1>4, <1>5, ObjectStep

-----------------------------------------------------------------------------
(* New lists.                                                              *)

LEMMA BeginKeeps ==
    ASSUME IInv, Idle, NEW list \in Seq(Values), Len(list) <= MaxLen, NEW ph, Begin(list, ph),
           \/ kind = "script" /\ ph = "update" /\ cmpKey' \in BOOLEAN
           \/ kind = "object" /\ ph = "prune" /\ UNCHANGED cmpKey /\ Distinct(list)
    PROVE  IInv'
<1>1. /\ newValues' = list /\ phase' = ph /\ iter' = 1 /\ newIter' = 1
      /\ view' = [i \in DOMAIN view |-> [view[i] EXCEPT !.old = TRUE]]
      /\ before' = values /\ moved' = {} /\ UNCHANGED <<kind, values>>
  BY DEF Begin
<1>2. /\ Len(values) \in Nat /\ Len(list) \in Nat /\ MaxLen \in Nat /\ values \in Seq(Values)
      /\ Len(values) <= MaxLen
  BY Lengths, LenProperties DEF IInv, IdleInv, Types
<1>3. Types'
  BY <1>1, <1>2 DEF IInv, Types
<1>4. Follows(view, values)'
  <2>1. /\ view \in Seq(Rows) /\ Len(view) = Len(values) /\ DOMAIN view = 1..Len(values)
        /\ \A i \in 1..Len(values) : view[i].shows = values[i] /\ view[i] \in Rows
    BY <1>2, LenProperties, ElementOfSeq DEF IInv, Follows
  <2>2. view' = [i \in 1..Len(values) |-> [view[i] EXCEPT !.old = TRUE]]
    BY <1>1, <2>1
  <2>3. ASSUME NEW i \in 1..Len(values) PROVE view'[i] \in Rows /\ view'[i].shows = values[i]
    <3>1. view'[i] = [view[i] EXCEPT !.old = TRUE] /\ view[i] \in Rows /\ view[i].shows = values[i]
      BY <2>1, <2>2
    <3> QED
      BY <3>1 DEF Rows
  <2>4. view' \in [1..Len(values) -> Rows]
    BY <2>2, <2>3
  <2>5. view' \in Seq(Rows) /\ Len(view') = Len(values)
    BY <1>2, <2>4
  <2>6. Follows(view', values')
    BY <1>1, <1>2, <2>3, <2>5 DEF Follows
  <2> QED
    BY <2>6 DEF Follows, Rows
<1>5. IdleInv' /\ PlaceInv'
  BY <1>1 DEF IdleInv, PlaceInv, Idle, Placing
<1>6. UpdateInv' /\ PruneInv'
  BY <1>1, <1>2 DEF UpdateInv, PruneInv, SameUpTo
<1>7. ObjectInv'
  BY <1>1 DEF IInv, ObjectInv, Distinct
<1> QED
  BY <1>3, <1>4, <1>5, <1>6, <1>7 DEF IInv

LEMMA ListsFacts ==
    ASSUME NEW list \in Lists
    PROVE  list \in Seq(Values) /\ Len(list) \in Nat /\ Len(list) <= MaxLen
<1>1. PICK n \in 0..MaxLen : list \in [1..n -> Values]
  BY DEF Lists
<1>2. n \in Nat /\ n <= MaxLen
  BY ConstantsAssumption DEF ConstantsAssumption
<1> QED
  BY <1>1, <1>2

LEMMA SetValuesKeeps == ASSUME IInv, NEW list \in Lists, SetValues(list) PROVE IInv'
<1>1. Idle /\ kind = "script" /\ Begin(list, "update") /\ UNCHANGED cmpKey /\ cmpKey \in BOOLEAN
  BY DEF SetValues, IInv, Types
<1> QED
  BY <1>1, ListsFacts, BeginKeeps

LEMMA SetObjectPropKeeps == IInv /\ SetObjectProp => IInv'
<1> SUFFICES ASSUME IInv, SetObjectProp PROVE IInv'
  OBVIOUS
<1>1. Idle /\ kind = "script" /\ Begin(values, "update") /\ cmpKey' \in BOOLEAN
  BY DEF SetObjectProp
<1>2. values \in Seq(Values) /\ Len(values) <= MaxLen
  BY <1>1, Lengths DEF IInv, IdleInv, Types
<1> QED
  BY <1>1, <1>2, BeginKeeps

LEMMA DiffUpdateKeeps == ASSUME IInv, NEW list \in Lists, DiffUpdate(list) PROVE IInv'
<1>1. Idle /\ kind = "object" /\ Begin(list, "prune") /\ UNCHANGED cmpKey /\ Unique(list) /\ ~cmpKey
  BY DEF DiffUpdate, IInv, ObjectInv
<1>2. Distinct(list)
  BY <1>1, ListsFacts, LenProperties DEF Unique, Distinct, Same
<1> QED
  BY <1>1, <1>2, ListsFacts, BeginKeeps

-----------------------------------------------------------------------------
LEMMA InitIInv == Init => IInv
<1> SUFFICES ASSUME Init PROVE IInv
  OBVIOUS
<1>1. /\ values = <<>> /\ newValues = <<>> /\ view = <<>> /\ before = <<>>
      /\ iter = 1 /\ newIter = 1 /\ phase = "idle" /\ cmpKey = FALSE /\ moved = {}
      /\ kind \in {"script", "object"}
  BY DEF Init
<1>2. Types
  <2>1. /\ newValues \in Seq(Values) /\ before \in Seq(Values) /\ Len(newValues) = 0
        /\ moved \subseteq 1..MaxLen
    BY <1>1
  <2>2. iter \in 1..(MaxLen + 1) /\ newIter \in 1..(MaxLen + 1) /\ 0 <= MaxLen
    BY <1>1, ConstantsAssumption DEF ConstantsAssumption
  <2>3. /\ kind \in {"script", "object"} /\ cmpKey \in BOOLEAN
        /\ phase \in IF kind = "script" THEN {"idle", "update"} ELSE {"idle", "prune", "place"}
    BY <1>1
  <2> QED
    BY <2>1, <2>2, <2>3 DEF Types
<1>3. Follows(view, values)
  BY <1>1 DEF Follows
<1>4. IdleInv /\ UpdateInv /\ PruneInv /\ PlaceInv
  BY <1>1 DEF IdleInv, UpdateInv, PruneInv, PlaceInv, Updating, Pruning, Placing, SameUpTo
<1>5. ObjectInv
  BY <1>1 DEF ObjectInv, Distinct
<1> QED
  BY <1>2, <1>3, <1>4, <1>5 DEF IInv

LEMMA NextIInv == IInv /\ [Next]_vars => IInv'
<1> SUFFICES ASSUME IInv, [Next]_vars PROVE IInv'
  OBVIOUS
<1>1. CASE ScriptNext
  BY <1>1, UpdateEndsKeeps, ChopKeeps, AppendRestKeeps, RemoveGoneKeeps, MoveRangeKeeps,
     InsertNewKeeps, ReplaceKeeps, AdvanceKeeps DEF ScriptNext
<1>2. CASE ObjectNext
  BY <1>2, PruneKeeps, PruneEndsKeeps, PlaceKeeps, PlaceEndsKeeps DEF ObjectNext
<1>3. CASE SetObjectProp
  BY <1>3, SetObjectPropKeeps
<1>4. ASSUME NEW list \in Lists, SetValues(list) PROVE IInv'
  BY <1>4, SetValuesKeeps
<1>5. ASSUME NEW list \in Lists, DiffUpdate(list) PROVE IInv'
  BY <1>5, DiffUpdateKeeps
<1>6. CASE UNCHANGED vars
  <2>1. UNCHANGED <<kind, cmpKey, values, newValues, iter, newIter, phase, view, before, moved>>
    BY <1>6 DEF vars
  <2>2. Types' /\ Follows(view, values)'
    BY <2>1 DEF IInv, Types, Follows, Rows
  <2>3. IdleInv' /\ UpdateInv'
    BY <2>1 DEF IInv, IdleInv, UpdateInv, Idle, Updating, SameUpTo, Alike, Same
  <2>4. ObjectInv' /\ PruneInv' /\ PlaceInv'
    BY <2>1 DEF IInv, ObjectInv, PruneInv, PlaceInv, Pruning, Placing, Distinct, InList
  <2> QED
    BY <2>2, <2>3, <2>4 DEF IInv
<1> QED
  BY <1>1, <1>2, <1>3, <1>4, <1>5, <1>6 DEF Next

LEMMA IInvTypeOK == IInv => TypeOK
<1> SUFFICES ASSUME IInv PROVE TypeOK
  OBVIOUS
<1>1. view \in Seq([shows : Values, old : BOOLEAN]) /\ values \in Seq(Values)
  BY DEF IInv, Follows, Rows
<1> QED
  BY <1>1 DEF IInv, Types, TypeOK

LEMMA IInvFollows == IInv => ViewFollows
BY LenProperties DEF IInv, Follows, ViewFollows, Rows

LEMMA IInvDone == IInv => DoneIsNew
<1> SUFFICES ASSUME IInv PROVE DoneIsNew
  OBVIOUS
<1>1. \A i : Reflects(i) <=> Alike(values[i], newValues[i], i, moved)
  BY DEF Reflects, Alike
<1>2. DOMAIN values = 1..Len(values)
  BY Lengths, LenProperties
<1>3. Idle => Len(values) = Len(newValues) /\ \A i \in DOMAIN values : Reflects(i)
  BY <1>1, <1>2 DEF IInv, IdleInv, SameUpTo
<1>4. Updating => /\ iter = newIter /\ iter <= Len(values) + 1
                  /\ \A i \in 1..(iter - 1) : Reflects(i)
  BY <1>1 DEF IInv, UpdateInv, SameUpTo
<1> QED
  BY <1>3, <1>4 DEF DoneIsNew

LEMMA IInvTwice == IInv => NeverTwice
BY Lengths, LenProperties DEF IInv, ObjectInv, NeverTwice, Unique, Distinct, Same

\* Every list, position and row of every run has its type.
THEOREM ModelsTypeCorrect == Spec => []TypeOK
<1>1. Spec => []IInv
  BY InitIInv, NextIInv, PTL DEF Spec
<1> QED
  BY <1>1, IInvTypeOK, PTL

\* Whatever the lists are, and however long: the views have the rows of the
\* model at every signal of an update, an update ends with the new list, and
\* no object is in a list of objects twice.
THEOREM ModelsCorrect == Spec => [](ViewFollows /\ DoneIsNew /\ NeverTwice)
<1>1. Spec => []IInv
  BY InitIInv, NextIInv, PTL DEF Spec
<1> QED
  BY <1>1, IInvFollows, IInvDone, IInvTwice, PTL

-----------------------------------------------------------------------------
(* Rows that are new.                                                      *)

\* When values are compared as a whole, and the new ones are distinct.
Plain == kind = "script" /\ ~cmpKey /\ Distinct(newValues)

\* A row whose value was there is an old one; and a value that was there is
\* still there, or is not in what is left of the new list.
Kept ==
    /\ \A i \in 1..Len(view) : InList(before, view[i].shows) => view[i].old
    /\ \A i \in 1..Len(before) : \/ InList(values, before[i])
                                 \/ \A j \in newIter..Len(newValues) : newValues[j] # before[i]

PlainKept == Plain => Kept

LEMMA WithoutItems ==
    ASSUME NEW S, NEW s \in Seq(S), NEW first \in 1..(Len(s) + 1), NEW last \in (first - 1)..Len(s),
           NEW t, t = Without(s, first, last)
    PROVE  /\ \A i \in 1..Len(t) : \E j \in 1..Len(s) : t[i] = s[j]
           /\ \A j \in 1..Len(s) : j \in first..last \/ InList(t, s[j])
<1> DEFINE n == last - first + 1
<1>1. Len(s) \in Nat /\ n \in Nat /\ first \in Nat
  BY LenProperties
<1>2. /\ Len(t) = Len(s) - n
      /\ \A i \in 1..(first - 1) : t[i] = s[i]
      /\ \A i \in first..Len(t) : t[i] = s[i + n]
  BY WithoutFacts
<1>3. ASSUME NEW i \in 1..Len(t) PROVE \E j \in 1..Len(s) : t[i] = s[j]
  <2>1. CASE i < first
    <3>1. i \in 1..(first - 1) /\ i \in 1..Len(s)
      BY <1>1, <2>1
    <3> QED
      BY <1>2, <3>1
  <2>2. CASE i >= first
    <3>1. i \in first..Len(t) /\ i + n \in 1..Len(s)
      BY <1>1, <1>2, <2>2
    <3> HIDE DEF n
    <3> QED
      BY <1>2, <3>1
  <2> QED
    BY <1>1, <2>1, <2>2
<1>4. ASSUME NEW j \in 1..Len(s), j \notin first..last PROVE InList(t, s[j])
  <2>1. CASE j < first
    <3>1. j \in 1..(first - 1) /\ j \in 1..Len(t)
      BY <1>1, <1>2, <2>1
    <3> QED
      BY <1>2, <3>1 DEF InList
  <2>2. CASE j > last
    <3>1. PICK i : i = j - n
      OBVIOUS
    <3>2. i \in first..Len(t) /\ i \in 1..Len(t) /\ i + n = j
      BY <1>1, <1>2, <2>2, <3>1
    <3> HIDE DEF n
    <3> QED
      BY <1>2, <3>2 DEF InList
  <2> QED
    BY <1>1, <1>4, <2>1, <2>2
<1> QED
  BY <1>3, <1>4

LEMMA WithItems ==
    ASSUME NEW S, NEW s \in Seq(S), NEW added \in Seq(S), NEW at \in 1..(Len(s) + 1),
           NEW t, t = With(s, at, added)
    PROVE  /\ \A i \in 1..Len(t) : \/ \E j \in 1..Len(s) : t[i] = s[j]
                                   \/ \E j \in 1..Len(added) : t[i] = added[j]
           /\ \A j \in 1..Len(s) : InList(t, s[j])
           /\ \A j \in 1..Len(added) : InList(t, added[j])
<1> DEFINE n == Len(added)
<1>1. Len(s) \in Nat /\ n \in Nat /\ at \in Nat
  BY LenProperties
<1>2. IsWith(t, s, at, added, n)
  BY WithFacts
<1> HIDE DEF n
<1>3. /\ Len(t) = Len(s) + n
      /\ \A i \in 1..(at - 1) : t[i] = s[i]
      /\ \A i \in at..(at + n - 1) : t[i] = added[i - at + 1]
      /\ \A i \in (at + n)..Len(t) : t[i] = s[i - n]
  BY <1>1, <1>2 DEF IsWith
<1>4. ASSUME NEW i \in 1..Len(t)
      PROVE  (\E j \in 1..Len(s) : t[i] = s[j]) \/ (\E j \in 1..n : t[i] = added[j])
  <2>1. CASE i < at
    <3>1. i \in 1..(at - 1) /\ i \in 1..Len(s)
      BY <1>1, <2>1
    <3> QED
      BY <1>3, <3>1
  <2>2. CASE i >= at /\ i < at + n
    <3>1. i \in at..(at + n - 1) /\ i - at + 1 \in 1..n
      BY <1>1, <2>2
    <3> QED
      BY <1>3, <3>1
  <2>3. CASE i >= at + n
    <3>1. i \in (at + n)..Len(t) /\ i - n \in 1..Len(s)
      BY <1>1, <1>3, <2>3
    <3> QED
      BY <1>3, <3>1
  <2> QED
    BY <1>1, <2>1, <2>2, <2>3
<1>5. ASSUME NEW j \in 1..Len(s) PROVE InList(t, s[j])
  <2>1. CASE j < at
    <3>1. j \in 1..(at - 1) /\ j \in 1..Len(t)
      BY <1>1, <1>3, <2>1
    <3> QED
      BY <1>3, <3>1 DEF InList
  <2>2. CASE j >= at
    <3>1. PICK i : i = j + n
      OBVIOUS
    <3>2. i \in (at + n)..Len(t) /\ i \in 1..Len(t) /\ i - n = j
      BY <1>1, <1>3, <2>2, <3>1
    <3> QED
      BY <1>3, <3>2 DEF InList
  <2> QED
    BY <1>1, <2>1, <2>2
<1>6. ASSUME NEW j \in 1..n PROVE InList(t, added[j])
  <2>1. PICK i : i = at + j - 1
    OBVIOUS
  <2>2. i \in at..(at + n - 1) /\ i \in 1..Len(t) /\ i - at + 1 = j
    BY <1>1, <1>3, <2>1
  <2> QED
    BY <1>3, <2>2 DEF InList
<1> QED
  BY <1>4, <1>5, <1>6 DEF n

\* What a view shows of rows that are inserted is what the model has there.
LEMMA InsertedItems ==
    ASSUME view \in Seq(Rows), values' \in Seq(Values), NEW at \in 1..(Len(view) + 1),
           NEW last \in (at - 1)..Len(values'), InsertRows(at, last)
    PROVE  \A i \in 1..Len(view') : \/ \E j \in 1..Len(view) : view'[i] = view[j]
                                    \/ \E m \in at..last : view'[i].shows = values'[m]
<1> DEFINE n == last - at + 1
           rows == [i \in 1..n |-> [shows |-> values'[at + i - 1], old |-> FALSE]]
<1>1. Len(view) \in Nat /\ Len(values') \in Nat /\ n \in Nat /\ at \in Nat \ {0}
  BY LenProperties
<1>2. \A i \in 1..n : at + i - 1 \in at..last /\ at + i - 1 \in 1..Len(values')
  BY <1>1
<1>3. rows \in Seq(Rows) /\ Len(rows) = n
  <2>1. \A i \in 1..n : [shows |-> values'[at + i - 1], old |-> FALSE] \in Rows
    BY <1>2, ElementOfSeq DEF Rows
  <2>2. rows \in [1..n -> Rows]
    BY <2>1
  <2> HIDE DEF n, rows
  <2> QED
    BY <1>1, <2>2
<1>4. view' = With(view, at, rows)
  BY DEF InsertRows
<1>5. \A i \in 1..n : rows[i].shows = values'[at + i - 1]
  OBVIOUS
<1> HIDE DEF rows
<1>7. rows \in Seq(Rows)
  BY <1>3
<1>6. ASSUME NEW i \in 1..Len(view')
      PROVE  \/ \E j \in 1..Len(view) : view'[i] = view[j]
             \/ \E j \in 1..Len(rows) : view'[i] = rows[j]
  BY <1>7, <1>4, WithItems
<1>8. ASSUME NEW i \in 1..Len(view'), NEW j \in 1..Len(rows), view'[i] = rows[j]
      PROVE  \E m \in at..last : view'[i].shows = values'[m]
  <2>1. j \in 1..n
    BY <1>3
  <2>2. at + j - 1 \in at..last /\ rows[j].shows = values'[at + j - 1]
    BY <1>2, <1>5, <2>1
  <2> QED
    BY <1>8, <2>2
<1> QED
  BY <1>6, <1>8

\* A turn of the loop.
LEMMA KeptStep ==
    ASSUME IInv, Kept, Plain, UNCHANGED <<before, newValues>>, newIter' \in newIter..newIter',
           \A i \in 1..Len(view') : \/ \E j \in 1..Len(view) : view'[i] = view[j]
                                    \/ ~InList(before, view'[i].shows),
           \A j \in 1..Len(values) : \/ InList(values', values[j])
                                     \/ \A k \in newIter..Len(newValues) : newValues[k] # values[j]
    PROVE  Kept'
<1>1. ASSUME NEW i \in 1..Len(view'), InList(before, view'[i].shows) PROVE view'[i].old
  BY <1>1 DEF Kept
<1>2. ASSUME NEW i \in 1..Len(before)
      PROVE  \/ InList(values', before[i])
             \/ \A j \in newIter'..Len(newValues) : newValues[j] # before[i]
  <2>1. CASE InList(values, before[i])
    <3>1. PICK k \in 1..Len(values) : values[k] = before[i]
      BY <2>1 DEF InList
    <3>2. \A j \in newIter'..Len(newValues) : j \in newIter..Len(newValues)
      BY Lengths
    <3> QED
      BY <3>1, <3>2
  <2>2. CASE \A j \in newIter..Len(newValues) : newValues[j] # before[i]
    <3>1. \A j \in newIter'..Len(newValues) : j \in newIter..Len(newValues)
      BY Lengths
    <3> QED
      BY <2>2, <3>1
  <2> QED
    BY <2>1, <2>2 DEF Kept
<1> QED
  BY <1>1, <1>2 DEF Kept, InList

\* A value of the new list that is in the rest of neither was not there.
LEMMA NotThere ==
    ASSUME IInv, Updating, Kept, Plain, NEW m \in newIter..Len(newValues),
           \A k \in iter..Len(values) : values[k] # newValues[m]
    PROVE  ~InList(before, newValues[m])
<1> SUFFICES ASSUME NEW b \in 1..Len(before), before[b] = newValues[m] PROVE FALSE
  BY DEF InList
<1>1. PICK k \in 1..Len(values) : values[k] = newValues[m]
  BY DEF Kept, InList
<1>2. /\ iter = newIter /\ iter <= Len(newValues) + 1
      /\ \A i \in 1..(iter - 1) : Alike(values[i], newValues[i], i, moved)
  BY UpdateFacts DEF SameUpTo
<1>3. k \notin iter..Len(values)
  BY <1>1
<1>4. k \in 1..(iter - 1) /\ k \in 1..Len(newValues) /\ m \in 1..Len(newValues) /\ k # m
  BY <1>2, <1>3, Lengths
<1>5. values[k] = newValues[k]
  <2>1. ~cmpKey
    BY DEF Plain
  <2> QED
    BY <1>2, <1>4, <2>1 DEF Same, Alike
<1> QED
  BY <1>1, <1>4, <1>5 DEF Plain, Distinct

\* What a list does not have from a place on, as wholes.
LEMMA NotContains ==
    ASSUME Plain, NEW list \in Seq(Values), NEW at \in 1..(Len(list) + 1), NEW v,
           ~Contains(Rest(list, at), v)
    PROVE  \A k \in at..Len(list) : list[k] # v
<1> SUFFICES ASSUME NEW k \in at..Len(list), list[k] = v PROVE FALSE
  OBVIOUS
<1>1. Len(list) \in Nat /\ at \in Nat
  BY LenProperties
<1>2. /\ Rest(list, at) \in Seq(Values) /\ Len(Rest(list, at)) = Len(list) - at + 1
      /\ \A i \in 1..(Len(list) - at + 1) : Rest(list, at)[i] = list[at + i - 1]
  BY RestFacts
<1>3. k - at + 1 \in 1..(Len(list) - at + 1) /\ at + (k - at + 1) - 1 = k
  BY <1>1
<1>4. Rest(list, at)[k - at + 1] = list[k]
  BY <1>2, <1>3
<1>5. k - at + 1 \in DOMAIN Rest(list, at)
  BY <1>2, <1>3, LenProperties
<1> QED
  BY <1>4, <1>5 DEF Contains, Same

\* The end of an update, the removal of the rest, and a value that is the same.
LEMMA KeptPassing ==
    ASSUME IInv, Kept, Plain, UpdateEnds \/ Chop \/ Advance
    PROVE  Kept'
<1>0. Len(values) \in Nat /\ Len(newValues) \in Nat /\ newIter \in Nat
  BY Lengths
<1>1. CASE UpdateEnds \/ Advance
  <2>1. /\ UNCHANGED <<values, view, before, newValues>>
        /\ newIter' = newIter \/ newIter' = newIter + 1
    BY <1>1 DEF UpdateEnds, Advance, Ends, Goes, Unchanged, SameUpdate
  <2>2. newIter' \in newIter..newIter'
    BY <1>0, <2>1
  <2> QED
    BY <2>1, <2>2, KeptStep DEF InList
<1>2. CASE Chop
  <2>1. /\ UNCHANGED <<before, newValues, newIter>> /\ newIter > Len(newValues) /\ Updating
        /\ ~AtEnd /\ view' = Without(view, Len(newValues) + 1, Len(values))
    BY <1>2 DEF Chop, Ends, Unchanged, SameUpdate, RemoveRows, NewAtEnd
  <2>2. view \in Seq(Rows) /\ Len(view) = Len(values) /\ Len(newValues) < Len(values)
    BY <1>0, <2>1, UpdateFacts DEF Follows
  <2>3. /\ Len(newValues) + 1 \in 1..(Len(view) + 1)
        /\ Len(values) \in (Len(newValues) + 1 - 1)..Len(view)
    BY <1>0, <2>2
  <2>4. \A i \in 1..Len(view') : \E j \in 1..Len(view) : view'[i] = view[j]
    BY <2>1, <2>2, <2>3, WithoutItems
  <2>5. newIter' \in newIter..newIter' /\ newIter..Len(newValues) = {}
    BY <1>0, <2>1
  <2> QED
    BY <2>1, <2>4, <2>5, KeptStep
<1> QED
  BY <1>1, <1>2

\* What is removed amid an update is not in what is left of the new list.
LEMMA KeptRemoveGone ==
    ASSUME IInv, Kept, Plain, RemoveGone
    PROVE  Kept'
<1> DEFINE run == {j \in DOMAIN values : ~Contains(Rest(newValues, newIter), values[j])}
<1>1. /\ Between /\ ~Contains(Rest(newValues, newIter), Old)
      /\ UNCHANGED <<before, newValues, newIter>>
  BY DEF RemoveGone, Goes, Unchanged, SameUpdate
<1>2. PICK e : /\ e = RunEnd(values, iter, run)
               /\ values' = Without(values, iter, e - 1)
               /\ view' = Without(view, iter, e - 1)
  BY DEF RemoveGone, RemoveRows
<1>3. /\ iter = newIter /\ iter \in 1..Len(values) /\ iter \in 1..Len(newValues)
      /\ Len(values) \in Nat /\ Len(newValues) \in Nat
      /\ values \in Seq(Values) /\ newValues \in Seq(Values)
      /\ view \in Seq(Rows) /\ Len(view) = Len(values)
  BY <1>1, BetweenFacts DEF Follows
<1>4. e \in (iter + 1)..(Len(values) + 1) /\ (iter + 1)..(e - 1) \subseteq run
  BY <1>2, <1>3, RunEndFacts
<1>5. iter \in 1..(Len(values) + 1) /\ e - 1 \in (iter - 1)..Len(values)
  BY <1>3, <1>4
<1>6. \A i \in 1..Len(view') : \E j \in 1..Len(view) : view'[i] = view[j]
  <2>1. /\ iter \in 1..(Len(view) + 1) /\ e - 1 \in (iter - 1)..Len(view)
        /\ view \in Seq(Rows) /\ view' = Without(view, iter, e - 1)
    BY <1>2, <1>3, <1>5
  <2> HIDE DEF run
  <2> QED
    BY <2>1, WithoutItems
<1>7. \A j \in 1..Len(values) : j \in iter..(e - 1) \/ InList(values', values[j])
  BY <1>2, <1>3, <1>5, WithoutItems
<1>8. ASSUME NEW j \in iter..(e - 1)
      PROVE  \A k \in newIter..Len(newValues) : newValues[k] # values[j]
  <2>1. ~Contains(Rest(newValues, newIter), values[j])
    <3>1. CASE j = iter
      BY <1>1, <3>1 DEF Old
    <3>2. CASE j # iter
      <4>1. j \in (iter + 1)..(e - 1)
        BY <1>3, <1>4, <3>2
      <4> QED
        BY <1>4, <4>1
    <3> QED
      BY <3>1, <3>2
  <2>2. newIter \in 1..(Len(newValues) + 1)
    BY <1>3
  <2> QED
    BY <1>3, <2>1, <2>2, NotContains
<1>9. newIter' \in newIter..newIter'
  BY <1>1, <1>3
<1> HIDE DEF run
<1> QED
  BY <1>1, <1>6, <1>7, <1>8, <1>9, KeptStep

\* What is moved is still there.
LEMMA KeptMoveRange ==
    ASSUME IInv, Kept, Plain, MoveRange
    PROVE  Kept'
<1>1. /\ Between /\ Contains(Rest(values, iter), New) /\ UNCHANGED <<before, newValues>>
  BY DEF MoveRange, SameUpdate
<1>2. /\ newIter = iter /\ iter \in 1..Len(values)
      /\ Len(values) \in Nat /\ Len(newValues) \in Nat
      /\ values \in Seq(Values) /\ newValues \in Seq(Values)
      /\ view \in Seq(Rows) /\ Len(view) = Len(values)
  BY <1>1, BetweenFacts DEF Follows
<1> DEFINE First(i) == Same(values[i], New) /\ \A j \in iter..(i - 1) : ~Same(values[j], New)
           run(from) == {j \in from..Len(values) :
                         /\ newIter + (j - from) <= Len(newValues)
                         /\ Same(values[j], newValues[newIter + (j - from)])}
<1>3. PICK from : from = CHOOSE i \in iter..Len(values) : First(i)
  OBVIOUS
<1>4. from \in iter..Len(values) /\ from \in 1..Len(values)
  <2>1. \E i \in iter..Len(values) : First(i)
    BY <1>1, <1>2, FirstOf
  <2>2. from \in iter..Len(values)
    BY <1>3, <2>1
  <2> QED
    BY <1>2, <2>2
<1>5. PICK e : /\ e = RunEnd(values, from, run(from))
               /\ values' = With(Without(values, from, e - 1), iter, SubSeq(values, from, e - 1))
               /\ MoveRows(from, e - 1, iter)
               /\ newIter' = newIter + (e - from)
  BY <1>3 DEF MoveRange, Goes
<1>6. e \in (from + 1)..(Len(values) + 1)
  BY <1>2, <1>4, <1>5, RunEndFacts
<1> HIDE DEF run, First
<1>7. /\ from \in 1..(Len(values) + 1) /\ e - 1 \in (from - 1)..Len(values)
      /\ from \in Nat \ {0} /\ e - 1 \in Nat /\ from <= e - 1 + 1 /\ e - 1 <= Len(values)
      /\ iter \in 1..(Len(values) - (e - 1 - from + 1) + 1)
  BY <1>2, <1>4, <1>6
<1>8. ASSUME NEW S, NEW s \in Seq(S), Len(s) = Len(values), NEW t,
             t = With(Without(s, from, e - 1), iter, SubSeq(s, from, e - 1))
      PROVE  /\ \A i \in 1..Len(t) : \E j \in 1..Len(s) : t[i] = s[j]
             /\ \A j \in 1..Len(s) : InList(t, s[j])
  <2> DEFINE w == Without(s, from, e - 1)
             shifted == SubSeq(s, from, e - 1)
  <2>0. from \in 1..(Len(s) + 1) /\ e - 1 \in (from - 1)..Len(s)
    BY <1>7, <1>8
  <2>1. w \in Seq(S) /\ Len(w) = Len(values) - (e - 1 - from + 1)
    <3>1. w \in Seq(S) /\ Len(w) = Len(s) - (e - 1 - from + 1)
      BY <2>0, WithoutFacts
    <3> QED
      BY <1>8, <3>1
  <2>2. /\ \A i \in 1..Len(w) : \E j \in 1..Len(s) : w[i] = s[j]
        /\ \A j \in 1..Len(s) : j \in from..(e - 1) \/ InList(w, s[j])
    BY <1>7, <1>8, WithoutItems
  <2>3. /\ shifted \in Seq(S) /\ Len(shifted) = e - 1 - from + 1
        /\ \A i \in 1..(e - 1 - from + 1) : shifted[i] = s[from + i - 1]
    BY <1>7, <1>8, SubSeqFacts
  <2>4. iter \in 1..(Len(w) + 1) /\ t = With(w, iter, shifted)
    BY <1>7, <1>8, <2>1
  <2> HIDE DEF w, shifted
  <2>5. /\ \A i \in 1..Len(t) : \/ \E j \in 1..Len(w) : t[i] = w[j]
                                \/ \E j \in 1..Len(shifted) : t[i] = shifted[j]
        /\ \A j \in 1..Len(w) : InList(t, w[j])
        /\ \A j \in 1..Len(shifted) : InList(t, shifted[j])
    <3>1. w \in Seq(S) /\ shifted \in Seq(S)
      BY <2>1, <2>3
    <3> QED
      BY <2>4, <3>1, WithItems
  <2>6. \A i \in 1..Len(shifted) : from + i - 1 \in 1..Len(s) /\ shifted[i] = s[from + i - 1]
    BY <1>2, <1>7, <1>8, <2>3
  <2>7. ASSUME NEW j \in from..(e - 1) PROVE InList(t, s[j])
    <3>1. PICK i : i = j - from + 1
      OBVIOUS
    <3>2. i \in 1..(e - 1 - from + 1) /\ from + i - 1 = j
      <4>1. from \in Nat /\ e - 1 \in Nat /\ j \in Nat /\ from <= j /\ j <= e - 1
        BY <1>7
      <4> HIDE DEF shifted
      <4> QED
        BY <3>1, <4>1
    <3>3. i \in 1..Len(shifted)
      BY <2>3, <3>2
    <3> QED
      BY <2>5, <2>6, <3>2, <3>3
  <2>8. ASSUME NEW j \in 1..Len(s), InList(w, s[j]) PROVE InList(t, s[j])
    BY <2>5, <2>8 DEF InList
  <2>9. ASSUME NEW i \in 1..Len(t) PROVE \E j \in 1..Len(s) : t[i] = s[j]
    <3>1. CASE \E j \in 1..Len(w) : t[i] = w[j]
      BY <2>2, <3>1
    <3>2. CASE \E j \in 1..Len(shifted) : t[i] = shifted[j]
      BY <2>6, <3>2
    <3> QED
      BY <2>5, <3>1, <3>2
  <2>10. ASSUME NEW j \in 1..Len(s) PROVE InList(t, s[j])
    BY <2>2, <2>7, <2>8
  <2> QED
    BY <2>9, <2>10
<1>9. \A i \in 1..Len(view') : \E j \in 1..Len(view) : view'[i] = view[j]
  <2>1. view' = With(Without(view, from, e - 1), iter, SubSeq(view, from, e - 1))
    BY <1>5 DEF MoveRows
  <2>2. PICK S : view \in Seq(S)
    BY <1>2
  <2>3. Len(view) = Len(values)
    BY <1>2
  <2> QED
    BY <1>8, <2>1, <2>2, <2>3
<1>10. \A j \in 1..Len(values) : InList(values', values[j])
  BY <1>2, <1>5, <1>8
<1>11. newIter' \in newIter..newIter'
  BY <1>2, <1>4, <1>5, <1>6
<1> QED
  BY <1>1, <1>9, <1>10, <1>11, KeptStep

\* What is inserted, amid an update or at its end, was not there.
LEMMA KeptInserting ==
    ASSUME IInv, Updating, Kept, Plain, UNCHANGED <<before, newValues>>,
           newIter' \in newIter..newIter',
           NEW added \in Seq(Values), NEW at \in 1..(Len(values) + 1),
           NEW last, last = at + Len(added) - 1, at = iter,
           values' = With(values, at, added), InsertRows(at, last),
           \A i \in 1..Len(added) : /\ at + i - 1 <= Len(newValues)
                                    /\ added[i] = newValues[at + i - 1]
                                    /\ \A k \in iter..Len(values) : values[k] # added[i]
    PROVE  Kept'
<1>1. /\ Len(values) \in Nat /\ Len(newValues) \in Nat /\ at \in Nat \ {0} /\ Len(added) \in Nat
      /\ values \in Seq(Values) /\ view \in Seq(Rows) /\ Len(view) = Len(values)
      /\ newIter = iter
  BY Lengths, UpdateFacts, LenProperties DEF Follows
<1>2. values' \in Seq(Values) /\ IsWith(values', values, at, added, Len(added))
  BY <1>1, WithFacts
<1>3. \A j \in 1..Len(values) : InList(values', values[j])
  BY <1>1, WithItems
<1>4. at \in 1..(Len(view) + 1) /\ last \in (at - 1)..Len(values')
  BY <1>1, <1>2 DEF IsWith
<1>5. \A i \in 1..Len(view') : \/ \E j \in 1..Len(view) : view'[i] = view[j]
                               \/ \E m \in at..last : view'[i].shows = values'[m]
  BY <1>1, <1>2, <1>4, InsertedItems
<1>6. ASSUME NEW m \in at..last PROVE ~InList(before, values'[m])
  <2>1. PICK i : i = m - at + 1
    OBVIOUS
  <2>2. i \in 1..Len(added) /\ at + i - 1 = m /\ m \in at..(at + Len(added) - 1)
    BY <1>1, <2>1
  <2>3. values'[m] = added[i]
    BY <1>2, <2>1, <2>2 DEF IsWith
  <2>4. m \in newIter..Len(newValues) /\ added[i] = newValues[m]
        /\ \A k \in iter..Len(values) : values[k] # newValues[m]
    BY <1>1, <2>2
  <2> QED
    BY <2>3, <2>4, NotThere
<1>7. \A i \in 1..Len(view') : \/ \E j \in 1..Len(view) : view'[i] = view[j]
                               \/ ~InList(before, view'[i].shows)
  BY <1>5, <1>6
<1> QED
  BY <1>3, <1>7, KeptStep

LEMMA KeptAppendRest ==
    ASSUME IInv, Kept, Plain, AppendRest
    PROVE  Kept'
<1> DEFINE at == Len(values) + 1
           last == Len(newValues)
           added == Rest(newValues, at)
<1>1. /\ Updating /\ AtEnd /\ ~NewAtEnd /\ UNCHANGED <<before, newValues, newIter>>
      /\ values' = values \o added /\ InsertRows(at, last)
  BY DEF AppendRest, Ends, Unchanged, SameUpdate
<1>2. /\ Len(values) \in Nat /\ Len(newValues) \in Nat /\ iter = at /\ newIter = iter
      /\ Len(values) < Len(newValues)
      /\ values \in Seq(Values) /\ newValues \in Seq(Values)
  BY <1>1, UpdateFacts, Lengths
<1>3. /\ at \in 1..(Len(newValues) + 1) /\ at \in 1..(Len(values) + 1) /\ at = Len(values) + 1
      /\ at \in Nat /\ last = Len(newValues) /\ newIter' \in newIter..newIter'
  BY <1>1, <1>2
<1> HIDE DEF at, last
<1>4. /\ added \in Seq(Values) /\ Len(added) = Len(newValues) - at + 1
      /\ \A i \in 1..(Len(newValues) - at + 1) : added[i] = newValues[at + i - 1]
  BY <1>2, <1>3, RestFacts
<1> HIDE DEF added
<1>5. values' = With(values, at, added)
  BY <1>1, <1>2, <1>3, <1>4, WithAtEnd
<1>6. last = at + Len(added) - 1
  BY <1>2, <1>3, <1>4
<1>7. ASSUME NEW i \in 1..Len(added)
      PROVE  /\ at + i - 1 <= Len(newValues) /\ added[i] = newValues[at + i - 1]
             /\ \A k \in iter..Len(values) : values[k] # added[i]
  BY <1>2, <1>3, <1>4
<1> QED
  BY <1>1, <1>2, <1>3, <1>4, <1>5, <1>6, <1>7, KeptInserting

LEMMA KeptInsertNew ==
    ASSUME IInv, Kept, Plain, InsertNew
    PROVE  Kept'
<1> DEFINE run == {j \in DOMAIN newValues : ~Contains(Rest(values, iter), newValues[j])}
<1>1. /\ Between /\ ~Contains(Rest(values, iter), New) /\ UNCHANGED <<before, newValues>>
  BY DEF InsertNew, Goes, Unchanged, SameUpdate
<1>2. PICK e : /\ e = RunEnd(newValues, newIter, run)
               /\ values' = With(values, iter, SubSeq(newValues, newIter, e - 1))
               /\ InsertRows(iter, iter + (e - newIter) - 1)
               /\ newIter' = e
  BY DEF InsertNew, Goes
<1>3. /\ Updating /\ newIter = iter /\ iter \in 1..Len(values) /\ iter \in 1..Len(newValues)
      /\ Len(values) \in Nat /\ Len(newValues) \in Nat
      /\ values \in Seq(Values) /\ newValues \in Seq(Values)
  BY <1>1, BetweenFacts
<1>4. e \in (newIter + 1)..(Len(newValues) + 1) /\ (newIter + 1)..(e - 1) \subseteq run
  BY <1>2, <1>3, RunEndFacts
<1> DEFINE added == SubSeq(newValues, newIter, e - 1)
           last == iter + (e - newIter) - 1
<1>5. /\ added \in Seq(Values) /\ Len(added) = e - 1 - newIter + 1
      /\ \A i \in 1..(e - 1 - newIter + 1) : added[i] = newValues[newIter + i - 1]
  <2>1. /\ newIter \in Nat \ {0} /\ e - 1 \in Nat /\ newIter <= e - 1 + 1 /\ e - 1 <= Len(newValues)
    BY <1>3, <1>4
  <2> QED
    BY <1>3, <2>1, SubSeqFacts
<1> HIDE DEF added
<1>6. /\ iter \in 1..(Len(values) + 1) /\ last = iter + Len(added) - 1
      /\ newIter' \in newIter..newIter'
  BY <1>2, <1>3, <1>4, <1>5
<1>7. values' = With(values, iter, added) /\ InsertRows(iter, last)
  BY <1>2 DEF added
<1>8. ASSUME NEW j \in newIter..(e - 1)
      PROVE  \A k \in iter..Len(values) : values[k] # newValues[j]
  <2>1. ~Contains(Rest(values, iter), newValues[j])
    <3>1. CASE j = newIter
      BY <1>1, <3>1 DEF New
    <3>2. CASE j # newIter
      <4>1. j \in (newIter + 1)..(e - 1)
        BY <1>3, <1>4, <3>2
      <4> QED
        BY <1>4, <4>1
    <3> QED
      BY <3>1, <3>2
  <2> QED
    BY <1>3, <1>6, <2>1, NotContains
<1> HIDE DEF run, last
<1>9. ASSUME NEW i \in 1..Len(added)
      PROVE  /\ iter + i - 1 <= Len(newValues) /\ added[i] = newValues[iter + i - 1]
             /\ \A k \in iter..Len(values) : values[k] # added[i]
  <2>1. iter + i - 1 \in newIter..(e - 1) /\ newIter + i - 1 = iter + i - 1
    BY <1>3, <1>4, <1>5
  <2>2. added[i] = newValues[iter + i - 1] /\ iter + i - 1 <= Len(newValues)
    BY <1>3, <1>4, <1>5, <2>1
  <2> QED
    BY <1>8, <2>1, <2>2
<1> QED
  BY <1>1, <1>3, <1>5, <1>6, <1>7, <1>9, KeptInserting

\* Whatever was shown is old when an update begins.
LEMMA KeptBegin ==
    ASSUME IInv, NEW list, NEW ph, Begin(list, ph)
    PROVE  Kept'
<1>1. /\ view' = [i \in DOMAIN view |-> [view[i] EXCEPT !.old = TRUE]]
      /\ before' = values /\ values' = values
  BY DEF Begin
<1>2. view \in Seq(Rows)
  BY DEF IInv, Follows
<1>3. /\ DOMAIN view = 1..Len(view) /\ Len(view) \in Nat
      /\ \A i \in 1..Len(view) : view[i] \in Rows
  BY <1>2, LenProperties, ElementOfSeq
<1>4. view' = [i \in 1..Len(view) |-> [view[i] EXCEPT !.old = TRUE]]
  BY <1>1, <1>3
<1>5. Len(view') = Len(view)
  BY <1>3, <1>4
<1>6. \A i \in 1..Len(view') : view'[i].old
  <2>1. ASSUME NEW i \in 1..Len(view) PROVE view'[i].old = TRUE
    <3>1. view'[i] = [view[i] EXCEPT !.old = TRUE] /\ view[i] \in Rows
      BY <1>3, <1>4
    <3> QED
      BY <3>1 DEF Rows
  <2> QED
    BY <1>5, <2>1
<1>7. \A i \in 1..Len(before') : InList(values', before'[i])
  BY <1>1 DEF InList
<1> QED
  BY <1>6, <1>7 DEF Kept

LEMMA PlainKeptStep == IInv /\ PlainKept /\ [Next]_vars => PlainKept'
<1> SUFFICES ASSUME IInv, PlainKept, [Next]_vars, Plain' PROVE Kept'
  BY DEF PlainKept
<1>1. CASE ScriptNext
  <2>1. UNCHANGED <<kind, cmpKey, newValues>>
    BY <1>1 DEF ScriptNext, UpdateEnds, Chop, AppendRest, RemoveGone, MoveRange, InsertNew,
                Replace, Advance, Ends, Goes, Unchanged, SameUpdate
  <2>2. Plain /\ Kept
    BY <2>1 DEF Plain, PlainKept, Distinct
  <2>3. ~Replace
    BY <2>2 DEF Replace, Same, Plain
  <2> QED
    BY <1>1, <2>2, <2>3, KeptPassing, KeptAppendRest, KeptRemoveGone, KeptMoveRange,
       KeptInsertNew DEF ScriptNext
<1>2. CASE ObjectNext
  <2>1. kind = "object" /\ kind' = kind
    BY <1>2 DEF ObjectNext, Prune, PruneEnds, Place, PlaceEnds, Pruning, Placing, Goes, Ends,
                Unchanged, SameUpdate, IInv, Types
  <2> QED
    BY <2>1 DEF Plain
<1>3. CASE SetObjectProp
  BY <1>3, KeptBegin DEF SetObjectProp
<1>4. CASE \E list \in Lists : SetValues(list) \/ DiffUpdate(list)
  BY <1>4, KeptBegin DEF SetValues, DiffUpdate
<1>5. CASE UNCHANGED vars
  BY <1>5 DEF vars, PlainKept, Plain, Kept, InList, Distinct
<1> QED
  BY <1>1, <1>2, <1>3, <1>4, <1>5 DEF Next

\* The rows that an update of a list without duplicates creates are those of
\* the values that were not there (scriptmodel.hpp:19).
THEOREM ModelsCreateOnlyNew == Spec => []OnlyNewCreated
<1>1. Init => PlainKept
  BY DEF Init, PlainKept, Kept
<1>2. IInv /\ PlainKept => OnlyNewCreated
  <2> SUFFICES ASSUME IInv, PlainKept, Idle, kind = "script", ~cmpKey, Unique(values),
                      NEW i \in DOMAIN view, Contains(before, values[i])
               PROVE  view[i].old
    BY DEF OnlyNewCreated
  <2>1. /\ Len(values) = Len(newValues) /\ Len(values) \in Nat
        /\ \A j \in 1..Len(values) : values[j] = newValues[j]
    BY Lengths DEF IInv, IdleInv, SameUpTo, Alike, Same
  <2>2. /\ DOMAIN values = 1..Len(values) /\ before \in Seq(Values)
        /\ view \in Seq(Rows) /\ Len(view) = Len(values)
        /\ \A j \in 1..Len(values) : view[j].shows = values[j]
    BY Lengths, LenProperties DEF IInv, Types, Follows
  <2>3. Distinct(newValues)
    BY <2>1, <2>2 DEF Unique, Distinct, Same
  <2>4. Kept
    BY <2>3 DEF PlainKept, Plain
  <2>5. i \in 1..Len(view) /\ view[i].shows = values[i]
    BY <2>2, LenProperties
  <2>6. InList(before, view[i].shows)
    BY <2>2, <2>5, LenProperties DEF Contains, InList, Same
  <2> QED
    BY <2>4, <2>5, <2>6 DEF Kept
<1> QED
  BY <1>1, <1>2, InitIInv, NextIInv, PlainKeptStep, PTL DEF Spec
=============================================================================
