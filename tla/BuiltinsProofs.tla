---------------------------- MODULE BuiltinsProofs ---------------------------
(***************************************************************************)
(* Proofs about Builtins, for any characters and any lengths: each of the  *)
(* functions that cut a string answers with the piece it promises, and the *)
(* loops of split and replace, run one turn a step, find the pieces that   *)
(* PiecesOf defines, so that replace fills its buffer to the last place.   *)
(***************************************************************************)
EXTENDS Builtins, FiniteSetTheorems, WellFoundedInduction, SequenceTheorems, TLAPS

(***************************************************************************)
(* Numbers: induction, as a fact about sets, and least and greatest        *)
(***************************************************************************)
LEMMA Induction ==
  ASSUME NEW M, 0 \in M, \A n \in Nat : n \in M => n + 1 \in M
  PROVE  Nat \subseteq M
<1> SUFFICES ASSUME NEW m \in Nat, m \notin M
             PROVE  FALSE
  OBVIOUS
<1> DEFINE T == {0..k : k \in Nat \ M}
<1>1. T \subseteq FiniteSubsetsOf(Nat) /\ T # {}
  <2>1. \A k \in Nat : IsFiniteSet(0..k) /\ 0..k \subseteq Nat
    BY FS_Interval
  <2> QED BY <2>1 DEF FiniteSubsetsOf
<1>2. PICK x \in T : \A y \in T : <<y, x>> \notin StrictSubsetOrdering(Nat)
  <2> HIDE DEF T
  <2> QED BY <1>1, FS_StrictSubsetOrderingWellFounded, WFMin
<1>3. PICK k \in Nat \ M : x = 0..k
  BY <1>2
<1>4. k # 0 /\ k - 1 \in Nat \ M
  BY <1>3
<1>5. 0..(k - 1) \in T /\ 0..(k - 1) \subseteq 0..k /\ 0..(k - 1) # 0..k
  <2>1. k \in 0..k /\ k \notin 0..(k - 1)
    BY <1>3
  <2> QED BY <1>3, <1>4, <2>1
<1>6. <<0..(k - 1), x>> \in StrictSubsetOrdering(Nat)
  BY <1>3, <1>4, <1>5 DEF StrictSubsetOrdering
<1> QED BY <1>2, <1>5, <1>6

\* A set of numbers has a least member, and Min is it.
LEMMA Least ==
  ASSUME NEW S \in SUBSET Nat, S # {}
  PROVE  Min(S) \in S /\ \A y \in S : Min(S) <= y
<1> DEFINE M == {n \in Nat : (\E x \in S : x <= n) => \E x \in S : \A y \in S : x <= y}
<1>1. 0 \in M
  OBVIOUS
<1>2. ASSUME NEW n \in Nat, n \in M
      PROVE  n + 1 \in M
  <2>1. CASE \E x \in S : x <= n
    BY <1>2, <2>1
  <2>2. CASE \A x \in S : ~(x <= n)
    <3> SUFFICES ASSUME NEW x \in S, x <= n + 1
                 PROVE  \E z \in S : \A y \in S : z <= y
      OBVIOUS
    <3>1. \A y \in S : y \in Nat /\ x \in Nat /\ ~(y <= n)
      BY <2>2
    <3>2. \A y \in S : x <= y
      BY <3>1
    <3> QED BY <3>2
  <2> QED BY <2>1, <2>2
<1>3. Nat \subseteq M
  <2> HIDE DEF M
  <2> QED BY <1>1, <1>2, Induction
<1>4. PICK x \in S : \A y \in S : x <= y
  <2>1. PICK x \in S : TRUE
    OBVIOUS
  <2>2. x \in M /\ x <= x
    BY <1>3
  <2> QED BY <2>1, <2>2
<1> QED BY <1>4 DEF Min

\* A bounded set of numbers has a greatest member, and Max is it.
LEMMA Greatest ==
  ASSUME NEW S \in SUBSET Nat, S # {}, NEW b \in Nat, \A x \in S : x <= b
  PROVE  Max(S) \in S /\ \A y \in S : y <= Max(S)
<1> DEFINE T == {n \in Nat : \A x \in S : x <= n}
           m == Min(T)
<1>1. m \in T /\ \A n \in T : m <= n
  <2>1. b \in T /\ T \in SUBSET Nat
    OBVIOUS
  <2> HIDE DEF T
  <2> QED BY <2>1, Least
<1>2. m \in Nat /\ \A x \in S : x <= m
  BY <1>1
<1>3. m \in S
  <2> SUFFICES ASSUME m \notin S
               PROVE  FALSE
    OBVIOUS
  <2>1. PICK x \in S : TRUE
    OBVIOUS
  <2>2. \A y \in S : y \in Nat /\ y <= m /\ y # m
    BY <1>2
  <2> HIDE DEF m
  <2>3. m - 1 \in Nat /\ \A y \in S : y <= m - 1
    BY <1>2, <2>1, <2>2
  <2>4. m - 1 \in T
    BY <2>3
  <2> QED BY <1>1, <1>2, <2>4
<1> HIDE DEF m
<1>4. \A y \in S : m >= y
  BY <1>2
<1>5. PICK x \in S : \A y \in S : x >= y
  BY <1>3, <1>4
<1>6. Max(S) \in S /\ \A y \in S : Max(S) >= y
  BY <1>5 DEF Max
<1> QED BY <1>6
-----------------------------------------------------------------------------
\* FlattenSeq: its recursion has a solution, which chains the sequences.
IsFlat(f, ss, n) == f = [i \in 1..n |-> IF i = 1 THEN ss[i] ELSE f[i - 1] \o ss[i]]

LEMMA FlatExists ==
  ASSUME NEW ss, NEW n \in Nat
  PROVE  \E f : IsFlat(f, ss, n)
<1> DEFINE M == {k \in Nat : \E f : IsFlat(f, ss, k)}
<1>1. 0 \in M
  <2> DEFINE f == [i \in 1..0 |-> ss[i]]
  <2>0. 1..0 = {}
    OBVIOUS
  <2>1. IsFlat(f, ss, 0)
    BY <2>0, Zenon DEF IsFlat
  <2> QED BY <2>1
<1>2. ASSUME NEW k \in Nat, k \in M
      PROVE  k + 1 \in M
  <2>1. PICK f : IsFlat(f, ss, k)
    BY <1>2
  <2> DEFINE Def(h, i) == IF i = 1 THEN ss[i] ELSE h[i - 1] \o ss[i]
             g == [i \in 1..(k + 1) |-> IF i \in 1..k THEN f[i] ELSE Def(f, i)]
  <2>2. \A i \in 1..k : f[i] = Def(f, i)
    BY <2>1, Zenon DEF IsFlat
  <2>3. \A i \in 1..(k + 1) : g[i] = Def(f, i)
    BY <2>2, Zenon
  <2>4. \A i \in 1..k : i \in 1..(k + 1) /\ g[i] = f[i]
    OBVIOUS
  <2>5. \A i \in 1..(k + 1) : i # 1 => i - 1 \in 1..k
    OBVIOUS
  <2>6. g = [i \in 1..(k + 1) |-> g[i]]
    OBVIOUS
  <2> HIDE DEF g
  <2>7. \A i \in 1..(k + 1) : g[i] = Def(g, i)
    BY <2>3, <2>4, <2>5, Zenon
  <2>8. g = [i \in 1..(k + 1) |-> Def(g, i)]
    BY <2>6, <2>7, Zenon
  <2>9. IsFlat(g, ss, k + 1)
    BY <2>8 DEF IsFlat
  <2> QED BY <2>9
<1>3. Nat \subseteq M
  <2> HIDE DEF M
  <2> QED BY <1>1, <1>2, Induction
<1> QED BY <1>3

LEMMA FlatTyped ==
  ASSUME NEW S, NEW ss \in Seq(Seq(S)), NEW f, IsFlat(f, ss, Len(ss))
  PROVE  /\ \A i \in 1..Len(ss) : f[i] \in Seq(S)
         /\ \A i \in 1..Len(ss) : f[i] = IF i = 1 THEN ss[i] ELSE f[i - 1] \o ss[i]
<1>1. \A i \in 1..Len(ss) : f[i] = IF i = 1 THEN ss[i] ELSE f[i - 1] \o ss[i]
  BY Zenon DEF IsFlat
<1> DEFINE M == {k \in Nat : k \in 1..Len(ss) => f[k] \in Seq(S)}
<1>2. 0 \in M
  OBVIOUS
<1>3. ASSUME NEW k \in Nat, k \in M
      PROVE  k + 1 \in M
  <2> SUFFICES ASSUME k + 1 \in 1..Len(ss)
               PROVE  f[k + 1] \in Seq(S)
    OBVIOUS
  <2>1. ss[k + 1] \in Seq(S)
    OBVIOUS
  <2>2. CASE k = 0
    BY <1>1, <2>1, <2>2
  <2>3. CASE k # 0
    <3>1. f[k] \in Seq(S) /\ (k + 1) - 1 = k /\ k + 1 # 1
      BY <1>3, <2>3
    <3>2. f[k + 1] = f[k] \o ss[k + 1]
      BY <1>1, <3>1
    <3> QED BY <2>1, <3>1, <3>2
  <2> QED BY <2>2, <2>3
<1>4. Nat \subseteq M
  <2> HIDE DEF M
  <2> QED BY <1>2, <1>3, Induction
<1> QED BY <1>1, <1>4

LEMMA FlattenIsFlat ==
  ASSUME NEW S, NEW ss \in Seq(Seq(S)), ss # <<>>
  PROVE  \E f : IsFlat(f, ss, Len(ss)) /\ FlattenSeq(ss) = f[Len(ss)]
<1> DEFINE f[i \in 1..Len(ss)] == IF i = 1 THEN ss[i] ELSE f[i - 1] \o ss[i]
<1>0. Len(ss) \in Nat /\ Len(ss) # 0
  OBVIOUS
<1>1. FlattenSeq(ss) = f[Len(ss)]
  BY <1>0, Zenon DEF FlattenSeq
<1>2. \E h : IsFlat(h, ss, Len(ss))
  BY <1>0, FlatExists
<1>3. IsFlat(f, ss, Len(ss))
  BY <1>2, Zenon DEF IsFlat
<1> HIDE DEF f
<1> QED BY <1>1, <1>3
-----------------------------------------------------------------------------
\* Induction from the end of a string to its beginning.
LEMMA FromTheEnd ==
  ASSUME NEW n \in Nat, NEW M,
         \A i \in 0..n : (\A j \in (i + 1)..n : j \in M) => i \in M
  PROVE  0..n \subseteq M
<1> DEFINE K == {k \in Nat : \A i \in 0..n : i + k >= n => i \in M}
<1>1. 0 \in K
  <2> SUFFICES ASSUME NEW i \in 0..n, i + 0 >= n
               PROVE  i \in M
    OBVIOUS
  <2>1. \A j \in (i + 1)..n : j \in M
    OBVIOUS
  <2> QED BY <2>1
<1>2. ASSUME NEW k \in Nat, k \in K
      PROVE  k + 1 \in K
  <2> SUFFICES ASSUME NEW i \in 0..n, i + (k + 1) >= n
               PROVE  i \in M
    OBVIOUS
  <2>1. ASSUME NEW j \in (i + 1)..n
        PROVE  j \in M
    <3>1. j \in 0..n /\ j + k >= n
      OBVIOUS
    <3> QED BY <1>2, <3>1
  <2> QED BY <2>1
<1>3. n \in K
  <2> HIDE DEF K
  <2> QED BY <1>1, <1>2, Induction
<1> QED BY <1>3
-----------------------------------------------------------------------------
(***************************************************************************)
(* The pieces of a string                                                  *)
(***************************************************************************)
LEMMA StringTyped ==
  ASSUME NEW s \in Strings
  PROVE  s \in Seq(Char) /\ Len(s) \in 0..MaxLen
<1>1. PICK n \in 0..MaxLen : s \in [1..n -> Char]
  BY DEF Strings, BoundedSeq, SeqOf
<1>2. n \in Nat
  BY <1>1, BuiltinsAssumption
<1>3. s \in Seq(Char) /\ Len(s) = n
  BY <1>1, <1>2
<1> QED BY <1>1, <1>3

LEMMA StringMade ==
  ASSUME NEW s \in Seq(Char), Len(s) <= MaxLen
  PROVE  s \in Strings
<1>1. Len(s) \in 0..MaxLen /\ s \in [1..Len(s) -> Char]
  BY BuiltinsAssumption
<1> QED BY <1>1 DEF Strings, BoundedSeq, SeqOf

\* value_str_n of what lies inside a string is that stretch of it.
LEMMA CharsInside ==
  ASSUME NEW s \in Seq(Char), NEW i \in Nat, NEW n \in Nat, i + n <= Len(s)
  PROVE  /\ Chars(s, i, n) = SubSeq(s, i + 1, i + n)
         /\ Chars(s, i, n) \in Seq(Char)
         /\ Len(Chars(s, i, n)) = n
<1>1. Chars(s, i, n) = [k \in 1..n |-> s[i + k]]
  BY DEF Chars
<1>2. \A k \in 1..n : s[i + k] \in Char
  OBVIOUS
<1>3. [k \in 1..n |-> s[i + k]] \in Seq(Char)
  BY <1>2
<1>4. SubSeq(s, i + 1, i + n) = [k \in 1..n |-> s[i + k]]
  OBVIOUS
<1> QED BY <1>1, <1>3, <1>4

LEMMA Stretch ==
  ASSUME NEW s \in Seq(Char), NEW i \in Nat, NEW j \in Nat, i <= j, j <= Len(s)
  PROVE  SubSeq(s, i + 1, j) \in Seq(Char) /\ Len(SubSeq(s, i + 1, j)) = j - i
<1>1. \A k \in (i + 1)..j : s[k] \in Char
  OBVIOUS
<1>2. i + 1 \in Int /\ j \in Int
  OBVIOUS
<1> QED BY <1>1, <1>2, SubSeqProperties

LEMMA Adjacent ==
  ASSUME NEW s \in Seq(Char), NEW i \in Nat, NEW j \in Nat, NEW k \in Nat,
         i <= j, j <= k, k <= Len(s)
  PROVE  SubSeq(s, i + 1, j) \o SubSeq(s, j + 1, k) = SubSeq(s, i + 1, k)
<1>1. i + 1 \in 1..(Len(s) + 1) /\ j \in ((i + 1) - 1)..Len(s) /\ k \in j..Len(s)
  OBVIOUS
<1> QED BY <1>1, ConcatAdjacentSubSeq

LEMMA Associative ==
  ASSUME NEW s \in Seq(Char), NEW t \in Seq(Char), NEW u \in Seq(Char)
  PROVE  (s \o t) \o u = s \o (t \o u)
BY ConcatAssociative

LEMMA LengthOfThree ==
  ASSUME NEW s \in Seq(Char), NEW t \in Seq(Char), NEW u \in Seq(Char)
  PROVE  /\ Len((s \o t) \o u) = (Len(s) + Len(t)) + Len(u)
         /\ Len(t) \in Nat /\ Len(u) \in Nat
<1>1. s \o t \in Seq(Char) /\ Len(s \o t) = Len(s) + Len(t)
  OBVIOUS
<1> QED BY <1>1

LEMMA PieceAdded ==
  ASSUME NEW o \in Seq(Seq(Char)), NEW p \in Seq(Char)
  PROVE  /\ <<p>> \in Seq(Seq(Char))
         /\ Append(o, p) \in Seq(Seq(Char))
         /\ Append(o, p) = o \o <<p>>
<1>1. <<p>> \in Seq(Seq(Char))
  OBVIOUS
<1>2. Append(o, p) \in Seq(Seq(Char))
  OBVIOUS
<1>3. Append(o, p) = o \o <<p>>
  BY AppendIsConcat
<1> QED BY <1>1, <1>2, <1>3

LEMMA PiecesAssociative ==
  ASSUME NEW o \in Seq(Seq(Char)), NEW q \in Seq(Seq(Char)), NEW r \in Seq(Seq(Char))
  PROVE  (o \o q) \o r = o \o (q \o r)
BY ConcatAssociative

\* A text that is searched for, and is not empty.
Sought(s, sep) == s \in Seq(Char) /\ sep \in Seq(Char) /\ sep # <<>>

\* What stands in the recursion of PiecesOf, when f tells the pieces behind i.
PiecesAt(f, s, sep, i) ==
    IF \E j \in i..Len(s) : FirstAt(s, sep, i, j)
    THEN LET j == CHOOSE j \in i..Len(s) : FirstAt(s, sep, i, j)
         IN  <<SubSeq(s, i + 1, j)>> \o f[j + Len(sep)]
    ELSE <<SubSeq(s, i + 1, Len(s))>>

ArePieces(f, s, sep) == f = [i \in 0..Len(s) |-> PiecesAt(f, s, sep, i)]
Pieces(s, sep) == CHOOSE f : ArePieces(f, s, sep)

LEMMA MatchInside ==
  ASSUME NEW s, NEW sep, Sought(s, sep), NEW i \in Nat, Matches(s, i, sep)
  PROVE  /\ Len(sep) \in Nat /\ Len(sep) > 0 /\ i + Len(sep) <= Len(s)
         /\ SubSeq(s, i + 1, i + Len(sep)) = sep
BY DEF Sought, Matches

\* The first place is one: there is no other.
LEMMA FirstOne ==
  ASSUME NEW s, NEW sep, NEW i \in Nat, NEW j \in Nat, NEW k \in Nat,
         FirstAt(s, sep, i, j), FirstAt(s, sep, i, k)
  PROVE  j = k
<1>1. j >= i /\ k >= i /\ Matches(s, j, sep) /\ Matches(s, k, sep)
  BY DEF FirstAt
<1>2. j \notin i..(k - 1) /\ k \notin i..(j - 1)
  BY <1>1 DEF FirstAt
<1> QED BY <1>1, <1>2

LEMMA ChosenFirst ==
  ASSUME NEW f, NEW s, NEW sep, Sought(s, sep), NEW i \in 0..Len(s),
         NEW j \in i..Len(s), FirstAt(s, sep, i, j)
  PROVE  PiecesAt(f, s, sep, i) = <<SubSeq(s, i + 1, j)>> \o f[j + Len(sep)]
<1> DEFINE c == CHOOSE k \in i..Len(s) : FirstAt(s, sep, i, k)
<1>1. c \in i..Len(s) /\ FirstAt(s, sep, i, c)
  OBVIOUS
<1>2. PiecesAt(f, s, sep, i) = <<SubSeq(s, i + 1, c)>> \o f[c + Len(sep)]
  BY Zenon DEF PiecesAt
<1> HIDE DEF c
<1>3. Len(s) \in Nat
  BY DEF Sought
<1>4. i \in Nat /\ j \in Nat /\ c \in Nat
  BY <1>1, <1>3
<1>5. c = j
  BY <1>1, <1>4, FirstOne
<1> QED BY <1>2, <1>5

LEMMA PiecesExist ==
  ASSUME NEW s, NEW sep, Sought(s, sep)
  PROVE  \E f : ArePieces(f, s, sep)
<1> DEFINE N == Len(s)
           M == {m \in 0..(N + 1) : \E f : f = [i \in m..N |-> PiecesAt(f, s, sep, i)]}
<1>0. N \in Nat /\ Len(sep) \in Nat
  BY DEF Sought
<1>1. ASSUME NEW m \in 0..(N + 1), \A k \in (m + 1)..(N + 1) : k \in M
      PROVE  m \in M
  <2>1. \E f : f = [i \in (m + 1)..N |-> PiecesAt(f, s, sep, i)]
    <3>1. CASE m = N + 1
      <4> DEFINE f == [i \in (m + 1)..N |-> 0]
      <4>1. (m + 1)..N = {}
        BY <1>0, <3>1
      <4>2. f = [i \in (m + 1)..N |-> PiecesAt(f, s, sep, i)]
        BY <4>1, Zenon
      <4> QED BY <4>2
    <3>2. CASE m # N + 1
      <4>1. m + 1 \in (m + 1)..(N + 1)
        BY <1>0, <3>2
      <4>2. m + 1 \in M
        BY <1>1, <4>1
      <4> QED BY <4>2
    <3> QED BY <3>1, <3>2
  <2>2. PICK f : f = [i \in (m + 1)..N |-> PiecesAt(f, s, sep, i)]
    BY <2>1
  <2> DEFINE g == [i \in m..N |-> IF i \in (m + 1)..N THEN f[i] ELSE PiecesAt(f, s, sep, i)]
  <2>3. \A i \in m..N : g[i] = PiecesAt(f, s, sep, i)
    <3>1. \A i \in (m + 1)..N : f[i] = PiecesAt(f, s, sep, i)
      BY <2>2, Zenon
    <3> QED BY <3>1, Zenon
  <2>4. \A i \in (m + 1)..N : i \in m..N /\ g[i] = f[i]
    BY <1>0
  <2>5. g = [i \in m..N |-> g[i]]
    OBVIOUS
  <2> HIDE DEF g
  <2>6. ASSUME NEW i \in m..N
        PROVE  g[i] = PiecesAt(g, s, sep, i)
    <3>0. i \in 0..Len(s) /\ i \in Nat
      BY <1>0
    <3>1. CASE \E j \in i..N : FirstAt(s, sep, i, j)
      <4>1. PICK j \in i..N : FirstAt(s, sep, i, j)
        BY <3>1
      <4>2. j \in Nat /\ Matches(s, j, sep)
        BY <1>0, <4>1 DEF FirstAt
      <4>3. j + Len(sep) \in (m + 1)..N
        BY <1>0, <4>1, <4>2, MatchInside
      <4>4. PiecesAt(g, s, sep, i) = <<SubSeq(s, i + 1, j)>> \o g[j + Len(sep)]
        BY <3>0, <4>1, ChosenFirst
      <4>5. PiecesAt(f, s, sep, i) = <<SubSeq(s, i + 1, j)>> \o f[j + Len(sep)]
        BY <3>0, <4>1, ChosenFirst
      <4> QED BY <2>3, <2>4, <4>3, <4>4, <4>5, Zenon
    <3>2. CASE ~\E j \in i..N : FirstAt(s, sep, i, j)
      <4>1. PiecesAt(g, s, sep, i) = PiecesAt(f, s, sep, i)
        BY <3>2, Zenon DEF PiecesAt
      <4> QED BY <2>3, <4>1, Zenon
    <3> QED BY <3>1, <3>2
  <2>7. g = [i \in m..N |-> PiecesAt(g, s, sep, i)]
    BY <2>5, <2>6, Zenon
  <2> QED BY <2>7
<1>2. 0 \in M
  <2> HIDE DEF M
  <2>1. N + 1 \in Nat /\ 0 \in 0..(N + 1)
    BY <1>0
  <2> HIDE DEF N
  <2> QED BY <1>1, <2>1, FromTheEnd
<1> QED BY <1>2 DEF ArePieces

LEMMA PiecesStep ==
  ASSUME NEW s, NEW sep, Sought(s, sep)
  PROVE  /\ PiecesOf(s, sep) = Pieces(s, sep)[0]
         /\ \A i \in 0..Len(s) : Pieces(s, sep)[i] = PiecesAt(Pieces(s, sep), s, sep, i)
<1> DEFINE f == Pieces(s, sep)
<1>1. ArePieces(f, s, sep)
  BY PiecesExist, Zenon DEF Pieces
<1>2. PiecesOf(s, sep) = f[0]
  BY Zenon DEF PiecesOf, Pieces, PiecesAt, ArePieces
<1> HIDE DEF f
<1>3. \A i \in 0..Len(s) : f[i] = PiecesAt(f, s, sep, i)
  BY <1>1, Zenon DEF ArePieces
<1> QED BY <1>2, <1>3 DEF f

\* sep stands at j and nowhere before, from i on: the piece up to it is cut.
LEMMA PieceCut ==
  ASSUME NEW s, NEW sep, Sought(s, sep), NEW i \in Nat, NEW j \in Nat, FirstAt(s, sep, i, j)
  PROVE  Pieces(s, sep)[i] = <<SubSeq(s, i + 1, j)>> \o Pieces(s, sep)[j + Len(sep)]
<1>1. i <= j /\ Matches(s, j, sep)
  BY DEF FirstAt
<1>2. j + Len(sep) <= Len(s) /\ Len(sep) \in Nat /\ Len(s) \in Nat
  BY <1>1, MatchInside DEF Sought
<1>3. i \in 0..Len(s) /\ j \in i..Len(s)
  BY <1>1, <1>2
<1> QED BY <1>3, PiecesStep, ChosenFirst

\* sep does not stand behind i any more: what is left is the last piece.
LEMMA PieceLast ==
  ASSUME NEW s, NEW sep, Sought(s, sep), NEW i \in 0..Len(s),
         \A k \in i..Len(s) : ~Matches(s, k, sep)
  PROVE  Pieces(s, sep)[i] = <<SubSeq(s, i + 1, Len(s))>>
<1>1. ~\E j \in i..Len(s) : FirstAt(s, sep, i, j)
  BY DEF FirstAt
<1>2. PiecesAt(Pieces(s, sep), s, sep, i) = <<SubSeq(s, i + 1, Len(s))>>
  BY <1>1, Zenon DEF PiecesAt
<1> QED BY <1>2, PiecesStep

\* One of the two is the case.
LEMMA PieceCases ==
  ASSUME NEW s, NEW sep, Sought(s, sep), NEW i \in 0..Len(s)
  PROVE  \/ \A k \in i..Len(s) : ~Matches(s, k, sep)
         \/ \E j \in i..Len(s) : FirstAt(s, sep, i, j)
<1> DEFINE H == {k \in i..Len(s) : Matches(s, k, sep)}
<1>0. Len(s) \in Nat
  BY DEF Sought
<1> SUFFICES ASSUME H # {}
             PROVE  \E j \in i..Len(s) : FirstAt(s, sep, i, j)
  OBVIOUS
<1>1. H \in SUBSET Nat
  BY <1>0
<1> DEFINE m == Min(H)
<1>2. m \in H /\ \A k \in H : m <= k
  <2> HIDE DEF H
  <2> QED BY <1>1, Least
<1> HIDE DEF m
<1>3. \A k \in i..(m - 1) : k \in i..Len(s) /\ k \in Int /\ m \in Int /\ ~(m <= k)
  BY <1>0, <1>2
<1>4. \A k \in i..(m - 1) : ~Matches(s, k, sep)
  BY <1>2, <1>3
<1>5. FirstAt(s, sep, i, m)
  BY <1>0, <1>2, <1>4 DEF FirstAt
<1> QED BY <1>2, <1>5

LEMMA PiecesTyped ==
  ASSUME NEW s, NEW sep, Sought(s, sep), NEW i \in 0..Len(s)
  PROVE  Pieces(s, sep)[i] \in Seq(Seq(Char)) /\ Len(Pieces(s, sep)[i]) > 0
<1> DEFINE N == Len(s)
           P == Pieces(s, sep)
           Good(p) == p \in Seq(Seq(Char)) /\ Len(p) > 0
           M == {k \in 0..N : Good(P[k])}
<1>0. N \in Nat /\ s \in Seq(Char) /\ Len(sep) \in Nat
  BY DEF Sought
<1>1. ASSUME NEW m \in 0..N, \A k \in (m + 1)..N : k \in M
      PROVE  m \in M
  <2>1. CASE \A k \in m..N : ~Matches(s, k, sep)
    <3>1. P[m] = <<SubSeq(s, m + 1, N)>>
      BY <2>1, PieceLast
    <3>2. SubSeq(s, m + 1, N) \in Seq(Char)
      BY <1>0, Stretch
    <3>3. Good(<<SubSeq(s, m + 1, N)>>)
      BY <3>2
    <3> HIDE DEF Good
    <3> QED BY <3>1, <3>3
  <2>2. CASE \E j \in m..N : FirstAt(s, sep, m, j)
    <3>1. PICK j \in m..N : FirstAt(s, sep, m, j)
      BY <2>2
    <3>2. m \in Nat /\ j \in Nat /\ m <= j /\ Matches(s, j, sep)
      BY <1>0, <3>1 DEF FirstAt
    <3>3. P[m] = <<SubSeq(s, m + 1, j)>> \o P[j + Len(sep)]
      BY <3>1, <3>2, PieceCut
    <3>4. j + Len(sep) \in (m + 1)..N
      BY <1>0, <3>1, <3>2, MatchInside
    <3>5. SubSeq(s, m + 1, j) \in Seq(Char)
      BY <1>0, <3>2, Stretch
    <3>6. Good(P[j + Len(sep)])
      BY <1>1, <3>4
    <3> HIDE DEF P
    <3>7. <<SubSeq(s, m + 1, j)>> \in Seq(Seq(Char))
      BY <3>5
    <3>8. Good(<<SubSeq(s, m + 1, j)>> \o P[j + Len(sep)])
      BY <3>6, <3>7, ConcatProperties
    <3> HIDE DEF Good
    <3> QED BY <3>3, <3>8
  <2> QED BY <2>1, <2>2, PieceCases
<1>2. 0..N \subseteq M
  <2> HIDE DEF M
  <2> HIDE DEF N
  <2> QED BY <1>0, <1>1, FromTheEnd
<1> QED BY <1>2
-----------------------------------------------------------------------------
(***************************************************************************)
(* Pieces joined                                                           *)
(***************************************************************************)
Glued(ps, glue) == [k \in DOMAIN ps |-> IF k = 1 THEN ps[k] ELSE glue \o ps[k]]

LEMMA GluedTyped ==
  ASSUME NEW ps \in Seq(Seq(Char)), NEW glue \in Seq(Char)
  PROVE  /\ Glued(ps, glue) \in Seq(Seq(Char))
         /\ Len(Glued(ps, glue)) = Len(ps)
         /\ \A k \in 1..Len(ps) : Glued(ps, glue)[k] = IF k = 1 THEN ps[k] ELSE glue \o ps[k]
         /\ Joined(ps, glue) = FlattenSeq(Glued(ps, glue))
<1> DEFINE e(k) == IF k = 1 THEN ps[k] ELSE glue \o ps[k]
<1>1. \A k \in 1..Len(ps) : e(k) \in Seq(Char)
  <2> SUFFICES ASSUME NEW k \in 1..Len(ps)
               PROVE  e(k) \in Seq(Char)
    OBVIOUS
  <2>1. ps[k] \in Seq(Char)
    OBVIOUS
  <2>2. glue \o ps[k] \in Seq(Char)
    BY <2>1, ConcatProperties
  <2> QED BY <2>1, <2>2
<1>2. DOMAIN ps = 1..Len(ps) /\ Len(ps) \in Nat
  OBVIOUS
<1>3. Glued(ps, glue) = [k \in 1..Len(ps) |-> e(k)]
  BY <1>2 DEF Glued
<1>4. Joined(ps, glue) = FlattenSeq(Glued(ps, glue))
  BY Zenon DEF Joined, Glued
<1> HIDE DEF e
<1>5. [k \in 1..Len(ps) |-> e(k)] \in Seq(Seq(Char)) /\ Len([k \in 1..Len(ps) |-> e(k)]) = Len(ps)
  BY <1>1, <1>2
<1>6. \A k \in 1..Len(ps) : Glued(ps, glue)[k] = e(k)
  BY <1>3
<1> QED BY <1>3, <1>4, <1>5, <1>6 DEF e

\* Joining goes over the pieces once: f[k] is what the first k give.
JoinsTo(f, ps, glue) ==
    /\ \A k \in 1..Len(ps) : f[k] \in Seq(Char)
    /\ f[1] = ps[1]
    /\ \A k \in 1..Len(ps) : k # 1 => f[k] = f[k - 1] \o (glue \o ps[k])
    /\ Joined(ps, glue) = f[Len(ps)]

LEMMA JoinedByPieces ==
  ASSUME NEW ps \in Seq(Seq(Char)), NEW glue \in Seq(Char), Len(ps) > 0
  PROVE  \E f : JoinsTo(f, ps, glue)
<1> DEFINE ss == Glued(ps, glue)
<1>1. ss \in Seq(Seq(Char)) /\ Len(ss) = Len(ps) /\ Joined(ps, glue) = FlattenSeq(ss)
  BY GluedTyped
<1>2. \A k \in 1..Len(ps) : ss[k] = IF k = 1 THEN ps[k] ELSE glue \o ps[k]
  BY GluedTyped
<1> HIDE DEF ss
<1>3. ss # <<>>
  BY <1>1
<1>4. PICK f : IsFlat(f, ss, Len(ss)) /\ FlattenSeq(ss) = f[Len(ss)]
  BY <1>1, <1>3, FlattenIsFlat
<1>5. /\ \A k \in 1..Len(ps) : f[k] \in Seq(Char)
      /\ \A k \in 1..Len(ps) : f[k] = IF k = 1 THEN ss[k] ELSE f[k - 1] \o ss[k]
  BY <1>1, <1>4, FlatTyped
<1>6. 1 \in 1..Len(ps)
  OBVIOUS
<1>7. f[1] = ps[1]
  BY <1>2, <1>5, <1>6
<1>8. ASSUME NEW k \in 1..Len(ps), k # 1
      PROVE  f[k] = f[k - 1] \o (glue \o ps[k])
  BY <1>2, <1>5, <1>8, Zenon
<1>9. Joined(ps, glue) = f[Len(ps)]
  BY <1>1, <1>4
<1> QED BY <1>5, <1>7, <1>8, <1>9 DEF JoinsTo

LEMMA JoinedOne ==
  ASSUME NEW p \in Seq(Char), NEW glue \in Seq(Char)
  PROVE  Joined(<<p>>, glue) = p
<1> DEFINE ps == <<p>>
<1>1. ps \in Seq(Seq(Char)) /\ Len(ps) = 1 /\ ps[1] = p
  OBVIOUS
<1> HIDE DEF ps
<1>2. Len(ps) > 0
  BY <1>1
<1>3. PICK f : JoinsTo(f, ps, glue)
  BY <1>1, <1>2, JoinedByPieces
<1>4. Joined(ps, glue) = p
  BY <1>1, <1>3 DEF JoinsTo
<1> QED BY <1>4 DEF ps

LEMMA JoinedTyped ==
  ASSUME NEW ps \in Seq(Seq(Char)), NEW glue \in Seq(Char), Len(ps) > 0
  PROVE  Joined(ps, glue) \in Seq(Char)
<1>1. PICK f : JoinsTo(f, ps, glue)
  BY JoinedByPieces
<1>2. Len(ps) \in 1..Len(ps)
  OBVIOUS
<1> QED BY <1>1, <1>2 DEF JoinsTo

\* A piece in front: it and the glue stand in front of the rest.
LEMMA JoinedMore ==
  ASSUME NEW p \in Seq(Char), NEW ps \in Seq(Seq(Char)), NEW glue \in Seq(Char), Len(ps) > 0
  PROVE  Joined(<<p>> \o ps, glue) = (p \o glue) \o Joined(ps, glue)
<1> DEFINE qs == <<p>> \o ps
           lead == p \o glue
           n == Len(ps)
<1>1. qs \in Seq(Seq(Char)) /\ Len(qs) = n + 1 /\ n \in Nat /\ n > 0
  <2>1. <<p>> \in Seq(Seq(Char)) /\ Len(<<p>>) = 1
    OBVIOUS
  <2> QED BY <2>1, ConcatProperties
<1>2. qs[1] = p /\ \A k \in 1..n : qs[k + 1] = ps[k]
  <2> DEFINE one == <<p>>
  <2>1. one \in Seq(Seq(Char)) /\ Len(one) = 1 /\ one[1] = p
    OBVIOUS
  <2> HIDE DEF one
  <2>2. ASSUME NEW i \in 1..(1 + n)
        PROVE  (one \o ps)[i] = IF i <= 1 THEN one[i] ELSE ps[i - 1]
    <3>1. i \in 1..(Len(one) + Len(ps))
      BY <2>1
    <3>2. (one \o ps)[i] = IF i <= Len(one) THEN one[i] ELSE ps[i - Len(one)]
      BY <2>1, <3>1, ConcatProperties
    <3> QED BY <2>1, <3>2
  <2>3. 1 \in 1..(1 + n) /\ \A k \in 1..n : k + 1 \in 1..(1 + n) /\ ~(k + 1 <= 1) /\ (k + 1) - 1 = k
    BY <1>1
  <2>4. (one \o ps)[1] = p
    BY <2>1, <2>2, <2>3
  <2>5. \A k \in 1..n : (one \o ps)[k + 1] = ps[k]
    <3> SUFFICES ASSUME NEW k \in 1..n
                 PROVE  (one \o ps)[k + 1] = ps[k]
      OBVIOUS
    <3>1. k + 1 \in 1..(1 + n) /\ ~(k + 1 <= 1) /\ (k + 1) - 1 = k
      BY <2>3
    <3> QED BY <2>2, <3>1, Zenon
  <2> QED BY <2>4, <2>5 DEF one
<1>3. lead \in Seq(Char)
  BY ConcatProperties
<1>3a. Len(qs) > 0
  BY <1>1
<1> HIDE DEF qs
<1>4. PICK f : JoinsTo(f, ps, glue)
  BY JoinedByPieces
<1>5. PICK g : JoinsTo(g, qs, glue)
  BY <1>1, <1>3a, JoinedByPieces
<1> DEFINE Good(k) == k \in 1..n => g[k + 1] = lead \o f[k]
           M == {k \in Nat : Good(k)}
<1>6. 0 \in M
  OBVIOUS
<1>7. ASSUME NEW k \in Nat, k \in M
      PROVE  k + 1 \in M
  <2> SUFFICES ASSUME k + 1 \in 1..n
                 PROVE  g[(k + 1) + 1] = lead \o f[k + 1]
    <3>1. Good(k + 1)
      OBVIOUS
    <3> HIDE DEF Good
    <3> QED BY <3>1
  <2>1. (k + 1) + 1 \in 1..Len(qs) /\ (k + 1) + 1 # 1 /\ ((k + 1) + 1) - 1 = k + 1
    BY <1>1
  <2>2. g[(k + 1) + 1] = g[k + 1] \o (glue \o ps[k + 1])
    <3>1. g[(k + 1) + 1] = g[((k + 1) + 1) - 1] \o (glue \o qs[(k + 1) + 1])
      BY <1>5, <2>1 DEF JoinsTo
    <3> QED BY <1>2, <2>1, <3>1
  <2>3. ps[k + 1] \in Seq(Char)
    OBVIOUS
  <2>4. CASE k = 0
    <3>1. g[k + 1] = p /\ f[k + 1] = ps[k + 1]
      BY <1>2, <1>4, <1>5, <2>4 DEF JoinsTo
    <3>2. p \o (glue \o ps[k + 1]) = (p \o glue) \o ps[k + 1]
      BY <2>3, Associative
    <3> QED BY <2>2, <3>1, <3>2
  <2>5. CASE k # 0
    <3>1. k \in 1..n /\ k + 1 # 1 /\ (k + 1) - 1 = k
      BY <1>1, <2>5
    <3>2. g[k + 1] = lead \o f[k]
      BY <1>7, <3>1
    <3>3. f[k] \in Seq(Char) /\ f[k + 1] = f[k] \o (glue \o ps[k + 1])
      <4>1. f[k + 1] = f[(k + 1) - 1] \o (glue \o ps[k + 1])
        BY <1>4, <3>1 DEF JoinsTo
      <4>2. f[k] \in Seq(Char)
        BY <1>4, <3>1 DEF JoinsTo
      <4> QED BY <3>1, <4>1, <4>2
    <3>4. glue \o ps[k + 1] \in Seq(Char)
      BY <2>3, ConcatProperties
    <3> HIDE DEF lead
    <3>5. (lead \o f[k]) \o (glue \o ps[k + 1]) = lead \o (f[k] \o (glue \o ps[k + 1]))
      BY <1>3, <3>3, <3>4, Associative
    <3> QED BY <2>2, <3>2, <3>3, <3>5
  <2> QED BY <2>4, <2>5
<1>8. n \in M
  <2> HIDE DEF M
  <2> QED BY <1>1, <1>6, <1>7, Induction
<1>9. g[n + 1] = lead \o f[n]
  <2>1. n \in 1..n /\ Good(n)
    <3>1. n \in 1..n
      BY <1>1
    <3> HIDE DEF Good
    <3> QED BY <1>8, <3>1
  <2> QED BY <2>1
<1> QED BY <1>1, <1>4, <1>5, <1>9 DEF JoinsTo, qs

\* The characters of a string, each for itself, are the string.
LEMMA JoinedCharacters ==
  ASSUME NEW s \in Seq(Char), NEW ps, ps = [k \in DOMAIN s |-> <<s[k]>>]
  PROVE  /\ Joined(ps, <<>>) = s
         /\ \A k \in DOMAIN ps : Len(ps[k]) = 1
<1>1. \A k \in 1..Len(s) : <<s[k]>> \in Seq(Char) /\ Len(<<s[k]>>) = 1
  OBVIOUS
<1>2. DOMAIN s = 1..Len(s) /\ Len(s) \in Nat
  OBVIOUS
<1>3. \A k \in 1..Len(s) : ps[k] = <<s[k]>>
  BY <1>2
<1>4. \A k \in DOMAIN ps : Len(ps[k]) = 1
  BY <1>1, <1>2, <1>3
<1>5. ps \in Seq(Seq(Char)) /\ Len(ps) = Len(s)
  BY <1>1, <1>2
<1>6. <<>> \in Seq(Char)
  OBVIOUS
<1>7. CASE s = <<>>
  <2>1. Glued(ps, <<>>) \in Seq(Seq(Char)) /\ Len(Glued(ps, <<>>)) = 0
    BY <1>5, <1>6, <1>7, GluedTyped
  <2>2. Joined(ps, <<>>) = FlattenSeq(Glued(ps, <<>>))
    BY <1>5, <1>6, GluedTyped
  <2>3. FlattenSeq(Glued(ps, <<>>)) = Glued(ps, <<>>)
    BY <2>1, Zenon DEF FlattenSeq
  <2>4. Glued(ps, <<>>) = <<>>
    BY <2>1
  <2> QED BY <1>4, <1>7, <2>2, <2>3, <2>4
<1>8. CASE s # <<>>
  <2>0. Len(ps) > 0
    BY <1>5, <1>8
  <2>1. PICK f : JoinsTo(f, ps, <<>>)
    BY <1>5, <1>6, <2>0, JoinedByPieces
  <2> DEFINE M == {k \in Nat : k \in 1..Len(s) => f[k] = SubSeq(s, 1, k)}
  <2>2. 0 \in M
    OBVIOUS
  <2>3. ASSUME NEW k \in Nat, k \in M
        PROVE  k + 1 \in M
    <3> SUFFICES ASSUME k + 1 \in 1..Len(s)
                 PROVE  f[k + 1] = SubSeq(s, 1, k + 1)
      OBVIOUS
    <3>0. ps[k + 1] = <<s[k + 1]>> /\ <<s[k + 1]>> \in Seq(Char)
      BY <1>1, <1>3
    <3>1. 1 \in 1..Len(s) /\ k + 1 \in 1..Len(s) /\ (k + 1) - 1 = k
      BY <1>2
    <3>2. SubSeq(s, 1, k + 1) = SubSeq(s, 1, k) \o <<s[k + 1]>>
      BY <3>1, SubSeqRecursiveSecond
    <3>3. CASE k = 0
      <4>1. SubSeq(s, 1, k) = <<>>
        BY <3>3
      <4>2. f[k + 1] = <<s[k + 1]>>
        BY <2>1, <3>0, <3>3 DEF JoinsTo
      <4>3. <<>> \o <<s[k + 1]>> = <<s[k + 1]>>
        BY <3>0, ConcatEmptySeq
      <4> QED BY <3>2, <4>1, <4>2, <4>3
    <3>4. CASE k # 0
      <4>1. k \in 1..Len(s) /\ k + 1 # 1
        BY <1>2, <3>4
      <4>2. f[k] = SubSeq(s, 1, k)
        BY <2>3, <4>1
      <4>3. f[k + 1] = f[(k + 1) - 1] \o (<<>> \o ps[k + 1])
        BY <1>5, <2>1, <3>1, <4>1 DEF JoinsTo
      <4>4. <<>> \o ps[k + 1] = ps[k + 1]
        BY <3>0, ConcatEmptySeq
      <4> QED BY <3>0, <3>1, <3>2, <4>2, <4>3, <4>4
    <3> QED BY <3>3, <3>4
  <2>4. Len(s) \in M
    <3> HIDE DEF M
    <3> QED BY <1>2, <2>2, <2>3, Induction
  <2>5. f[Len(s)] = SubSeq(s, 1, Len(s))
    <3>1. Len(s) \in 1..Len(s)
      BY <1>2, <1>5, <2>0
    <3> QED BY <2>4, <3>1
  <2>6. SubSeq(s, 1, Len(s)) = s
    BY SubSeqFull
  <2> QED BY <1>4, <1>5, <2>1, <2>5, <2>6 DEF JoinsTo
<1> QED BY <1>7, <1>8
-----------------------------------------------------------------------------
(***************************************************************************)
(* The pieces joined again, by what they were cut at or by something else  *)
(***************************************************************************)
\* What a cut at j does to the pieces from i on, and to what they join to.
CutThere(s, sep, glue, i, j) ==
    /\ Len(Pieces(s, sep)[i]) = 1 + Len(Pieces(s, sep)[j + Len(sep)])
    /\ Joined(Pieces(s, sep)[i], glue)
         = (SubSeq(s, i + 1, j) \o glue) \o Joined(Pieces(s, sep)[j + Len(sep)], glue)

LEMMA JoinedCut ==
  ASSUME NEW s, NEW sep, Sought(s, sep), NEW glue \in Seq(Char),
         NEW i \in Nat, NEW j \in Nat, FirstAt(s, sep, i, j)
  PROVE  CutThere(s, sep, glue, i, j)
<1> DEFINE p == SubSeq(s, i + 1, j)
           ps == Pieces(s, sep)[j + Len(sep)]
<1>1. j + Len(sep) \in 0..Len(s) /\ j <= Len(s)
  <2>1. Matches(s, j, sep)
    BY DEF FirstAt
  <2>2. Len(sep) \in Nat /\ Len(sep) > 0 /\ j + Len(sep) <= Len(s) /\ Len(s) \in Nat
    BY <2>1, MatchInside DEF Sought
  <2> QED BY <2>2
<1>2. p \in Seq(Char)
  <2>1. i <= j
    BY DEF FirstAt
  <2> QED BY <1>1, <2>1, Stretch DEF Sought
<1>3. ps \in Seq(Seq(Char)) /\ Len(ps) > 0
  BY <1>1, PiecesTyped
<1>4. Pieces(s, sep)[i] = <<p>> \o ps
  BY PieceCut
<1> HIDE DEF p, ps
<1>5. Joined(<<p>> \o ps, glue) = (p \o glue) \o Joined(ps, glue)
  BY <1>2, <1>3, JoinedMore
<1>6. Len(<<p>> \o ps) = 1 + Len(ps)
  BY <1>2, <1>3
<1> QED BY <1>4, <1>5, <1>6 DEF p, ps, CutThere

LEMMA JoinedLast ==
  ASSUME NEW s, NEW sep, Sought(s, sep), NEW glue \in Seq(Char), NEW i \in 0..Len(s),
         \A k \in i..Len(s) : ~Matches(s, k, sep)
  PROVE  /\ Len(Pieces(s, sep)[i]) = 1
         /\ Joined(Pieces(s, sep)[i], glue) = SubSeq(s, i + 1, Len(s))
<1> DEFINE p == SubSeq(s, i + 1, Len(s))
<1>1. Len(s) \in Nat /\ s \in Seq(Char)
  BY DEF Sought
<1>2. p \in Seq(Char)
  BY <1>1, Stretch
<1>3. Pieces(s, sep)[i] = <<p>>
  BY PieceLast
<1> HIDE DEF p
<1>4. Joined(<<p>>, glue) = p /\ Len(<<p>>) = 1
  BY <1>2, JoinedOne
<1> QED BY <1>3, <1>4 DEF p

\* Joined by what they were cut at, the pieces are the string.
LEMMA JoinedBack ==
  ASSUME NEW s, NEW sep, Sought(s, sep), NEW i \in 0..Len(s)
  PROVE  Joined(Pieces(s, sep)[i], sep) = SubSeq(s, i + 1, Len(s))
<1> DEFINE N == Len(s)
           Good(k) == Joined(Pieces(s, sep)[k], sep) = SubSeq(s, k + 1, N)
           M == {k \in 0..N : Good(k)}
<1>0. N \in Nat /\ s \in Seq(Char) /\ sep \in Seq(Char)
  BY DEF Sought
<1>1. ASSUME NEW m \in 0..N, \A k \in (m + 1)..N : k \in M
      PROVE  m \in M
  <2>1. CASE \A k \in m..N : ~Matches(s, k, sep)
    BY <1>0, <2>1, JoinedLast
  <2>2. CASE \E j \in m..N : FirstAt(s, sep, m, j)
    <3>1. PICK j \in m..N : FirstAt(s, sep, m, j)
      BY <2>2
    <3>2. m \in Nat /\ j \in Nat /\ m <= j /\ Matches(s, j, sep)
      BY <1>0, <3>1 DEF FirstAt
    <3>3. /\ Len(sep) \in Nat /\ Len(sep) > 0 /\ j + Len(sep) <= N
          /\ SubSeq(s, j + 1, j + Len(sep)) = sep
      BY <3>1, <3>2, MatchInside
    <3> DEFINE e == j + Len(sep)
    <3>4. e \in (m + 1)..N /\ e \in Nat /\ j <= e
      BY <1>0, <3>2, <3>3
    <3>5. Joined(Pieces(s, sep)[m], sep) = (SubSeq(s, m + 1, j) \o sep) \o Joined(Pieces(s, sep)[e], sep)
      <4>1. CutThere(s, sep, sep, m, j)
        BY <1>0, <3>1, <3>2, JoinedCut
      <4> QED BY <4>1 DEF CutThere
    <3>6. Joined(Pieces(s, sep)[e], sep) = SubSeq(s, e + 1, N)
      BY <1>1, <3>4
    <3>7. SubSeq(s, m + 1, j) \o sep = SubSeq(s, m + 1, e)
      <4>1. SubSeq(s, m + 1, j) \o SubSeq(s, j + 1, e) = SubSeq(s, m + 1, e)
        <5> HIDE DEF e
        <5> QED BY <1>0, <3>2, <3>4, Adjacent
      <4> QED BY <3>3, <4>1
    <3>8. SubSeq(s, m + 1, e) \o SubSeq(s, e + 1, N) = SubSeq(s, m + 1, N)
      <4>1. m <= e /\ e <= N
        BY <1>0, <3>2, <3>4
      <4> HIDE DEF e
      <4> QED BY <1>0, <3>2, <3>4, <4>1, Adjacent
    <3>9. Good(m)
      BY <3>5, <3>6, <3>7, <3>8, Zenon
    <3> QED BY <3>9
  <2> QED BY <2>1, <2>2, PieceCases
<1>2. 0..N \subseteq M
  <2> HIDE DEF M
  <2> HIDE DEF N
  <2> QED BY <1>0, <1>1, FromTheEnd
<1> QED BY <1>2

LEMMA OnceMore ==
  ASSUME NEW a \in Int, NEW d \in Int
  PROVE  a * d = (a - 1) * d + d /\ (a - 1) * d \in Int
<1>1. a * d \in Int /\ (a - 1) * d \in Int
  OBVIOUS
<1> QED BY <1>1

\* How long they are joined by something else.
LEMMA JoinedLength ==
  ASSUME NEW s, NEW sep, Sought(s, sep), NEW glue \in Seq(Char), NEW i \in 0..Len(s)
  PROVE  Len(Joined(Pieces(s, sep)[i], glue))
           = (Len(s) - i) + (Len(Pieces(s, sep)[i]) - 1) * (Len(glue) - Len(sep))
<1> DEFINE N == Len(s)
           d == Len(glue) - Len(sep)
           Good(k) == Len(Joined(Pieces(s, sep)[k], glue))
                        = (N - k) + (Len(Pieces(s, sep)[k]) - 1) * d
           M == {k \in 0..N : Good(k)}
<1>0. N \in Nat /\ s \in Seq(Char) /\ sep \in Seq(Char) /\ d \in Int
  BY DEF Sought
<1>1. ASSUME NEW m \in 0..N, \A k \in (m + 1)..N : k \in M
      PROVE  m \in M
  <2>1. CASE \A k \in m..N : ~Matches(s, k, sep)
    <3>1. Len(Pieces(s, sep)[m]) = 1 /\ Joined(Pieces(s, sep)[m], glue) = SubSeq(s, m + 1, N)
      BY <2>1, JoinedLast
    <3>2. Len(SubSeq(s, m + 1, N)) = N - m
      BY <1>0, Stretch
    <3>3. (1 - 1) * d = 0 /\ (N - m) + 0 = N - m
      BY <1>0
    <3> HIDE DEF d
    <3>4. Good(m)
      BY <3>1, <3>2, <3>3, Zenon
    <3> QED BY <3>4
  <2>2. CASE \E j \in m..N : FirstAt(s, sep, m, j)
    <3>1. PICK j \in m..N : FirstAt(s, sep, m, j)
      BY <2>2
    <3>2. m \in Nat /\ j \in Nat /\ m <= j /\ Matches(s, j, sep)
      BY <1>0, <3>1 DEF FirstAt
    <3>3. Len(sep) \in Nat /\ Len(sep) > 0 /\ j + Len(sep) <= N
      BY <3>1, <3>2, MatchInside
    <3> DEFINE e == j + Len(sep)
               a == Len(Pieces(s, sep)[e])
    <3>4. e \in (m + 1)..N /\ e \in 0..N /\ j <= N
      BY <1>0, <3>2, <3>3
    <3>5. /\ Len(Pieces(s, sep)[m]) = 1 + a
          /\ Joined(Pieces(s, sep)[m], glue) = (SubSeq(s, m + 1, j) \o glue) \o Joined(Pieces(s, sep)[e], glue)
      <4>1. CutThere(s, sep, glue, m, j)
        BY <3>1, <3>2, JoinedCut
      <4> QED BY <4>1 DEF CutThere
    <3>6. Good(e)
      BY <1>1, <3>4
    <3>7. SubSeq(s, m + 1, j) \in Seq(Char) /\ Len(SubSeq(s, m + 1, j)) = j - m
      BY <1>0, <3>2, <3>4, Stretch
    <3>8. Pieces(s, sep)[e] \in Seq(Seq(Char)) /\ a > 0 /\ a \in Nat
      <4>1. Pieces(s, sep)[e] \in Seq(Seq(Char)) /\ Len(Pieces(s, sep)[e]) > 0
        <5> HIDE DEF e
        <5> QED BY <3>4, PiecesTyped
      <4> QED BY <4>1
    <3>9. Joined(Pieces(s, sep)[e], glue) \in Seq(Char)
      <4> HIDE DEF e
      <4> QED BY <3>8, JoinedTyped
    <3>10. Len(Joined(Pieces(s, sep)[m], glue)) = ((j - m) + Len(glue)) + Len(Joined(Pieces(s, sep)[e], glue))
      <4> DEFINE u == SubSeq(s, m + 1, j)
                 v == Joined(Pieces(s, sep)[e], glue)
      <4>1. u \in Seq(Char) /\ v \in Seq(Char) /\ Len(u) = j - m
        BY <3>7, <3>9
      <4>2. Joined(Pieces(s, sep)[m], glue) = (u \o glue) \o v
        BY <3>5
      <4> HIDE DEF u, v
      <4>3. Len((u \o glue) \o v) = (Len(u) + Len(glue)) + Len(v)
        BY <4>1
      <4> QED BY <4>1, <4>2, <4>3 DEF v
    <3>11. Len(Joined(Pieces(s, sep)[e], glue)) = (N - (j + Len(sep))) + (a - 1) * d
      BY <3>6
    <3>12. a * d = (a - 1) * d + d /\ (a - 1) * d \in Int
      <4> HIDE DEF a, d
      <4> QED BY <1>0, <3>8, OnceMore
    <3>13. (1 + a) - 1 = a
      BY <3>8
    <3>14. Len(Joined(Pieces(s, sep)[m], glue)) = (N - m) + a * d
      <4> DEFINE x == (a - 1) * d
                 y == a * d
                 lp == Len(sep)
                 lg == Len(glue)
      <4>1. x \in Int /\ y = x + (lg - lp) /\ lg \in Nat /\ lp \in Nat
        <5>1. lg \in Nat /\ lp \in Nat /\ d = lg - lp
          BY <1>0, <3>3
        <5>2. x \in Int /\ y = x + d
          BY <3>12
        <5> HIDE DEF x, y, lp, lg, d
        <5> QED BY <5>1, <5>2
      <4>2. Len(Joined(Pieces(s, sep)[m], glue)) = ((j - m) + lg) + ((N - (j + lp)) + x)
        BY <3>10, <3>11
      <4> HIDE DEF x, y, lp, lg, N
      <4>3. ((j - m) + lg) + ((N - (j + lp)) + x) = (N - m) + y
        BY <1>0, <3>2, <4>1
      <4> QED BY <4>2, <4>3 DEF y
    <3>15. Good(m)
      <4> HIDE DEF a, d, N
      <4> QED BY <3>5, <3>13, <3>14, Zenon
    <3> QED BY <3>15
  <2> QED BY <2>1, <2>2, PieceCases
<1>2. 0..N \subseteq M
  <2> HIDE DEF M
  <2> HIDE DEF N
  <2> QED BY <1>0, <1>1, FromTheEnd
<1> QED BY <1>2
-----------------------------------------------------------------------------
(***************************************************************************)
(* The loops: b is where the piece begins that is being looked for         *)
(***************************************************************************)
Uncut(s, sep, b, i) == \A k \in b..(i - 1) : ~Matches(s, k, sep)

Splitting(s, sep, i, b, o) ==
    /\ i \in 0..Len(s) /\ b \in 0..i /\ Uncut(s, sep, b, i)
    /\ o \in Seq(Seq(Char)) /\ o \o Pieces(s, sep)[b] = PiecesOf(s, sep)

Counting(s, sep, i, m) ==
    /\ i \in 0..Len(s) /\ m \in Nat
    /\ \E b \in 0..i : /\ Uncut(s, sep, b, i)
                       /\ m + Len(Pieces(s, sep)[b]) = Len(PiecesOf(s, sep))

\* What is written is what stands before the piece, and the piece up to i.
Written(s, sep, new, i, o, b, pre) ==
    /\ Uncut(s, sep, b, i) /\ o = pre \o SubSeq(s, b + 1, i)
    /\ pre \o Joined(Pieces(s, sep)[b], new) = Joined(PiecesOf(s, sep), new)

Writing(s, sep, new, i, o) ==
    /\ i \in 0..Len(s) /\ o \in Seq(Char)
    /\ \E b \in 0..i, pre \in Seq(Char) : Written(s, sep, new, i, o, b, pre)

LEMMA Found ==
  ASSUME NEW s, NEW sep, Sought(s, sep), NEW i \in 0..Len(s), NEW b \in 0..i,
         Uncut(s, sep, b, i), Matches(s, i, sep)
  PROVE  /\ FirstAt(s, sep, b, i) /\ i \in Nat /\ b \in Nat /\ i <= Len(s) /\ b <= i
         /\ i + Len(sep) \in 0..Len(s) /\ i + Len(sep) \in 0..(i + Len(sep))
         /\ Uncut(s, sep, i + Len(sep), i + Len(sep))
<1>1. Len(s) \in Nat /\ Len(sep) \in Nat
  BY DEF Sought
<1>2. i \in Nat /\ b \in Nat /\ b <= i /\ i <= Len(s)
  BY <1>1
<1>3. FirstAt(s, sep, b, i)
  BY <1>2 DEF FirstAt, Uncut
<1>4. i + Len(sep) <= Len(s)
  BY <1>2, MatchInside
<1>5. (i + Len(sep))..((i + Len(sep)) - 1) = {}
  BY <1>1, <1>2
<1>6. Uncut(s, sep, i + Len(sep), i + Len(sep))
  BY <1>5 DEF Uncut
<1> QED BY <1>1, <1>2, <1>3, <1>4, <1>6

LEMMA Missed ==
  ASSUME NEW s, NEW sep, Sought(s, sep), NEW i \in 0..Len(s), NEW b \in 0..i,
         Uncut(s, sep, b, i), ~Matches(s, i, sep)
  PROVE  Uncut(s, sep, b, i + 1)
<1>1. Len(s) \in Nat
  BY DEF Sought
<1>2. \A k \in b..((i + 1) - 1) : k = i \/ k \in b..(i - 1)
  BY <1>1
<1> QED BY <1>2 DEF Uncut

\* No match begins where less than sep is left.
LEMMA Ended ==
  ASSUME NEW s, NEW sep, Sought(s, sep), NEW i \in 0..Len(s), NEW b \in 0..i,
         Uncut(s, sep, b, i), ~(i <= Len(s) - Len(sep))
  PROVE  b \in 0..Len(s) /\ \A k \in b..Len(s) : ~Matches(s, k, sep)
<1>1. Len(s) \in Nat /\ Len(sep) \in Nat
  BY DEF Sought
<1>2. ASSUME NEW k \in b..Len(s)
      PROVE  ~Matches(s, k, sep)
  <2>1. CASE k \in b..(i - 1)
    BY <2>1 DEF Uncut
  <2>2. CASE k \notin b..(i - 1)
    <3>1. ~(k + Len(sep) <= Len(s))
      BY <1>1, <2>2
    <3> QED BY <3>1 DEF Matches
  <2> QED BY <2>1, <2>2
<1>3. b \in 0..Len(s)
  BY <1>1
<1> QED BY <1>2, <1>3

LEMMA LoopsStart ==
  ASSUME NEW s, NEW sep, Sought(s, sep), NEW new \in Seq(Char)
  PROVE  /\ Splitting(s, sep, 0, 0, <<>>)
         /\ Counting(s, sep, 0, 0)
         /\ Writing(s, sep, new, 0, <<>>)
         /\ PiecesOf(s, sep) \in Seq(Seq(Char)) /\ Len(PiecesOf(s, sep)) > 0
         /\ Joined(PiecesOf(s, sep), new) \in Seq(Char)
<1>1. s \in Seq(Char) /\ Len(s) \in Nat /\ 0 \in 0..Len(s) /\ 0 \in 0..0
  BY DEF Sought
<1>2. Uncut(s, sep, 0, 0)
  BY DEF Uncut
<1>3. PiecesOf(s, sep) = Pieces(s, sep)[0]
  BY PiecesStep
<1>4. PiecesOf(s, sep) \in Seq(Seq(Char)) /\ Len(PiecesOf(s, sep)) > 0
  BY <1>1, <1>3, PiecesTyped
<1>5. Joined(PiecesOf(s, sep), new) \in Seq(Char)
  BY <1>4, JoinedTyped
<1>6. Splitting(s, sep, 0, 0, <<>>)
  <2>1. <<>> \in Seq(Seq(Char)) /\ <<>> \o PiecesOf(s, sep) = PiecesOf(s, sep)
    BY <1>4
  <2> QED BY <1>1, <1>2, <1>3, <2>1 DEF Splitting
<1>7. Counting(s, sep, 0, 0)
  <2>1. 0 + Len(PiecesOf(s, sep)) = Len(PiecesOf(s, sep))
    BY <1>4
  <2> QED BY <1>1, <1>2, <1>3, <2>1 DEF Counting
<1>8. Writing(s, sep, new, 0, <<>>)
  <2> DEFINE J == Joined(PiecesOf(s, sep), new)
             e == SubSeq(s, 0 + 1, 0)
  <2>1. e = <<>> /\ <<>> \in Seq(Char) /\ <<>> \o e = <<>> /\ <<>> \o J = J
    <3>1. e = <<>>
      BY <1>1
    <3>2. J \in Seq(Char)
      BY <1>5
    <3> HIDE DEF e, J
    <3> QED BY <3>1, <3>2
  <2>2. Joined(Pieces(s, sep)[0], new) = J
    BY <1>3
  <2>3. Written(s, sep, new, 0, <<>>, 0, <<>>)
    BY <1>2, <2>1, <2>2 DEF Written
  <2> QED BY <1>1, <2>1, <2>3 DEF Writing
<1> QED BY <1>4, <1>5, <1>6, <1>7, <1>8

LEMMA SplitTurn ==
  ASSUME NEW s, NEW sep, Sought(s, sep), NEW i, NEW b, NEW o, Splitting(s, sep, i, b, o)
  PROVE  /\ Matches(s, i, sep) =>
              Splitting(s, sep, i + Len(sep), i + Len(sep), Append(o, Chars(s, b, i - b)))
         /\ i <= Len(s) - Len(sep) /\ ~Matches(s, i, sep) => Splitting(s, sep, i + 1, b, o)
         /\ ~(i <= Len(s) - Len(sep)) => Append(o, Chars(s, b, Len(s) - b)) = PiecesOf(s, sep)
<1> DEFINE P == Pieces(s, sep)
<1>0. s \in Seq(Char) /\ Len(s) \in Nat /\ Len(sep) \in Nat /\ Len(sep) > 0
  BY DEF Sought
<1>1. /\ i \in 0..Len(s) /\ b \in 0..i /\ Uncut(s, sep, b, i)
      /\ o \in Seq(Seq(Char)) /\ o \o P[b] = PiecesOf(s, sep)
  BY DEF Splitting
<1>2. ASSUME NEW e \in 0..Len(s), b <= e
      PROVE  /\ Chars(s, b, e - b) = SubSeq(s, b + 1, e)
             /\ Chars(s, b, e - b) \in Seq(Char)
  <2>1. b \in Nat /\ e - b \in Nat /\ b + (e - b) <= Len(s) /\ b + (e - b) = e
    BY <1>0, <1>1, <1>2
  <2> QED BY <1>0, <2>1, CharsInside
<1>3. ASSUME Matches(s, i, sep)
      PROVE  Splitting(s, sep, i + Len(sep), i + Len(sep), Append(o, Chars(s, b, i - b)))
  <2> DEFINE e == i + Len(sep)
             p == Chars(s, b, i - b)
  <2>1. /\ FirstAt(s, sep, b, i) /\ i \in Nat /\ b \in Nat /\ b <= i
        /\ e \in 0..Len(s) /\ e \in 0..e /\ Uncut(s, sep, e, e)
    BY <1>1, <1>3, Found
  <2>2. p = SubSeq(s, b + 1, i) /\ p \in Seq(Char)
    BY <1>1, <1>2, <2>1
  <2>3. P[b] = <<p>> \o P[e]
    BY <2>1, <2>2, PieceCut
  <2>4. P[e] \in Seq(Seq(Char))
    <3> HIDE DEF e
    <3> QED BY <2>1, PiecesTyped
  <2> HIDE DEF e, p, P
  <2>5. Append(o, p) \in Seq(Seq(Char)) /\ Append(o, p) = o \o <<p>> /\ <<p>> \in Seq(Seq(Char))
    BY <1>1, <2>2, PieceAdded
  <2>6. (o \o <<p>>) \o P[e] = o \o (<<p>> \o P[e])
    <3> DEFINE q == <<p>>
               r == P[e]
    <3>1. q \in Seq(Seq(Char)) /\ r \in Seq(Seq(Char))
      BY <2>4, <2>5
    <3> HIDE DEF q, r
    <3>2. (o \o q) \o r = o \o (q \o r)
      BY <1>1, <3>1, PiecesAssociative
    <3> QED BY <3>2 DEF q, r
  <2>7. Append(o, p) \o P[e] = PiecesOf(s, sep)
    BY <1>1, <2>3, <2>5, <2>6
  <2>8. Splitting(s, sep, e, e, Append(o, p))
    BY <2>1, <2>5, <2>7 DEF Splitting, P
  <2> QED BY <2>8 DEF e, p
<1>4. ASSUME i <= Len(s) - Len(sep), ~Matches(s, i, sep)
      PROVE  Splitting(s, sep, i + 1, b, o)
  <2>1. Uncut(s, sep, b, i + 1)
    BY <1>1, <1>4, Missed
  <2>2. i + 1 \in 0..Len(s) /\ b \in 0..(i + 1)
    BY <1>0, <1>1, <1>4
  <2> QED BY <1>1, <2>1, <2>2 DEF Splitting
<1>5. ASSUME ~(i <= Len(s) - Len(sep))
      PROVE  Append(o, Chars(s, b, Len(s) - b)) = PiecesOf(s, sep)
  <2> DEFINE p == Chars(s, b, Len(s) - b)
  <2>1. b \in 0..Len(s) /\ \A k \in b..Len(s) : ~Matches(s, k, sep)
    BY <1>1, <1>5, Ended
  <2>2. p = SubSeq(s, b + 1, Len(s)) /\ p \in Seq(Char)
    <3>1. Len(s) \in 0..Len(s) /\ b <= Len(s)
      BY <1>0, <2>1
    <3> QED BY <1>2, <3>1
  <2>3. P[b] = <<p>>
    BY <2>1, <2>2, PieceLast
  <2> HIDE DEF p
  <2>4. Append(o, p) = o \o <<p>>
    BY <1>1, <2>2, PieceAdded
  <2>5. Append(o, p) = PiecesOf(s, sep)
    BY <1>1, <2>3, <2>4
  <2> QED BY <2>5 DEF p
<1> QED BY <1>3, <1>4, <1>5

LEMMA CountTurn ==
  ASSUME NEW s, NEW sep, Sought(s, sep), NEW i, NEW m, Counting(s, sep, i, m)
  PROVE  /\ Matches(s, i, sep) => Counting(s, sep, i + Len(sep), m + 1)
         /\ i <= Len(s) - Len(sep) /\ ~Matches(s, i, sep) => Counting(s, sep, i + 1, m)
         /\ ~(i <= Len(s) - Len(sep)) => m + 1 = Len(PiecesOf(s, sep))
<1> DEFINE P == Pieces(s, sep)
<1>0. s \in Seq(Char) /\ Len(s) \in Nat /\ Len(sep) \in Nat /\ Len(sep) > 0
      /\ i \in 0..Len(s) /\ m \in Nat /\ <<>> \in Seq(Char)
  BY DEF Sought, Counting
<1>1. PICK b \in 0..i : Uncut(s, sep, b, i) /\ m + Len(P[b]) = Len(PiecesOf(s, sep))
  BY DEF Counting
<1>3. ASSUME Matches(s, i, sep)
      PROVE  Counting(s, sep, i + Len(sep), m + 1)
  <2> DEFINE e == i + Len(sep)
  <2>1. /\ FirstAt(s, sep, b, i) /\ i \in Nat /\ b \in Nat
        /\ e \in 0..Len(s) /\ e \in 0..e /\ Uncut(s, sep, e, e)
    BY <1>0, <1>1, <1>3, Found
  <2>2. CutThere(s, sep, <<>>, b, i)
    BY <1>0, <2>1, JoinedCut
  <2>3. Len(P[b]) = 1 + Len(P[e])
    BY <2>2 DEF CutThere
  <2>4. Len(P[e]) \in Nat
    <3> HIDE DEF e
    <3>1. P[e] \in Seq(Seq(Char))
      BY <2>1, PiecesTyped
    <3> HIDE DEF P
    <3> QED BY <3>1
  <2> HIDE DEF e, P
  <2>5. m + 1 \in Nat /\ (m + 1) + Len(P[e]) = Len(PiecesOf(s, sep))
    <3> DEFINE x == Len(P[e])
    <3>1. x \in Nat /\ m + (1 + x) = Len(PiecesOf(s, sep))
      BY <1>1, <2>3, <2>4
    <3> HIDE DEF x
    <3>2. m + 1 \in Nat /\ (m + 1) + x = m + (1 + x)
      BY <1>0, <3>1
    <3> QED BY <3>1, <3>2 DEF x
  <2>6. Counting(s, sep, e, m + 1)
    BY <2>1, <2>5 DEF Counting, P
  <2> QED BY <2>6 DEF e
<1>4. ASSUME i <= Len(s) - Len(sep), ~Matches(s, i, sep)
      PROVE  Counting(s, sep, i + 1, m)
  <2>1. Uncut(s, sep, b, i + 1)
    BY <1>0, <1>1, <1>4, Missed
  <2>2. i + 1 \in 0..Len(s) /\ b \in 0..(i + 1)
    BY <1>0, <1>1, <1>4
  <2> QED BY <1>0, <1>1, <2>1, <2>2 DEF Counting
<1>5. ASSUME ~(i <= Len(s) - Len(sep))
      PROVE  m + 1 = Len(PiecesOf(s, sep))
  <2>1. b \in 0..Len(s) /\ \A k \in b..Len(s) : ~Matches(s, k, sep)
    BY <1>0, <1>1, <1>5, Ended
  <2>2. Len(P[b]) = 1
    BY <1>0, <2>1, JoinedLast
  <2> QED BY <1>1, <2>2
<1> QED BY <1>3, <1>4, <1>5

LEMMA WriteHit ==
  ASSUME NEW s, NEW sep, Sought(s, sep), NEW new \in Seq(Char), NEW i, NEW o,
         Writing(s, sep, new, i, o), Matches(s, i, sep)
  PROVE  Writing(s, sep, new, i + Len(sep), o \o new)
<1> DEFINE P == Pieces(s, sep)
           e == i + Len(sep)
<1>0. s \in Seq(Char) /\ Len(s) \in Nat /\ i \in 0..Len(s) /\ o \in Seq(Char)
  BY DEF Sought, Writing
<1>1. PICK b \in 0..i, pre \in Seq(Char) : Written(s, sep, new, i, o, b, pre)
  BY DEF Writing
<1>2. /\ Uncut(s, sep, b, i) /\ o = pre \o SubSeq(s, b + 1, i)
      /\ pre \o Joined(P[b], new) = Joined(PiecesOf(s, sep), new)
  BY <1>1 DEF Written
<1>3. /\ FirstAt(s, sep, b, i) /\ i \in Nat /\ b \in Nat /\ b <= i /\ i <= Len(s)
      /\ e \in 0..Len(s) /\ e \in 0..e /\ Uncut(s, sep, e, e)
  BY <1>0, <1>1, <1>2, Found
<1>4. CutThere(s, sep, new, b, i)
  BY <1>3, JoinedCut
<1> DEFINE u == SubSeq(s, b + 1, i)
           r == Joined(P[e], new)
           none == SubSeq(s, e + 1, e)
<1>5. Joined(P[b], new) = (u \o new) \o r
  BY <1>4 DEF CutThere
<1>6. u \in Seq(Char)
  BY <1>0, <1>3, Stretch
<1>7. r \in Seq(Char)
  <2> HIDE DEF e
  <2>1. P[e] \in Seq(Seq(Char)) /\ Len(P[e]) > 0
    BY <1>3, PiecesTyped
  <2> HIDE DEF P
  <2> QED BY <2>1, JoinedTyped
<1>8. none = <<>>
  <2> HIDE DEF e
  <2>1. e + 1 \in Int /\ e \in Int /\ e < e + 1
    BY <1>3
  <2> QED BY <2>1, SubSeqEmpty
<1>9. o = pre \o u
  BY <1>2
<1> HIDE DEF e, P, u, r, none
<1>10. o \o new \in Seq(Char) /\ o \o new = (o \o new) \o none
  <2>1. o \o new \in Seq(Char)
    BY <1>0, ConcatProperties
  <2>2. (o \o new) \o <<>> = o \o new
    BY <1>0, <2>1, ConcatEmptySeq
  <2> QED BY <1>8, <2>1, <2>2
<1>11. (o \o new) \o r = Joined(PiecesOf(s, sep), new)
  <2>1. u \o new \in Seq(Char)
    BY <1>6, ConcatProperties
  <2>2. (pre \o u) \o new = pre \o (u \o new)
    BY <1>6, Associative
  <2> DEFINE v == u \o new
  <2>3. v \in Seq(Char)
    BY <2>1
  <2> HIDE DEF v
  <2>4. (pre \o v) \o r = pre \o (v \o r)
    BY <1>7, <2>3, Associative
  <2>5. o \o new = pre \o v
    BY <1>9, <2>2 DEF v
  <2>6. pre \o (v \o r) = Joined(PiecesOf(s, sep), new)
    BY <1>2, <1>5 DEF v
  <2> QED BY <2>4, <2>5, <2>6
<1>12. Written(s, sep, new, e, o \o new, e, o \o new)
  BY <1>3, <1>10, <1>11, Zenon DEF Written, P, r, none
<1>13. Writing(s, sep, new, e, o \o new)
  BY <1>3, <1>10, <1>12 DEF Writing
<1> QED BY <1>13 DEF e

LEMMA WriteMiss ==
  ASSUME NEW s, NEW sep, Sought(s, sep), NEW new \in Seq(Char), NEW i, NEW o,
         Writing(s, sep, new, i, o), i < Len(s), ~Matches(s, i, sep)
  PROVE  Writing(s, sep, new, i + 1, o \o Chars(s, i, 1))
<1> DEFINE P == Pieces(s, sep)
<1>0. s \in Seq(Char) /\ Len(s) \in Nat /\ i \in 0..Len(s) /\ o \in Seq(Char)
  BY DEF Sought, Writing
<1>1. PICK b \in 0..i, pre \in Seq(Char) : Written(s, sep, new, i, o, b, pre)
  BY DEF Writing
<1>2. /\ Uncut(s, sep, b, i) /\ o = pre \o SubSeq(s, b + 1, i)
      /\ pre \o Joined(P[b], new) = Joined(PiecesOf(s, sep), new)
  BY <1>1 DEF Written
<1>3. i \in Nat /\ b \in Nat /\ b <= i /\ i + 1 \in Nat /\ i <= i + 1 /\ i + 1 <= Len(s)
      /\ i + 1 \in 0..Len(s) /\ b \in 0..(i + 1) /\ i <= Len(s)
  BY <1>0, <1>1
<1>4. Uncut(s, sep, b, i + 1)
  BY <1>0, <1>1, <1>2, Missed
<1> DEFINE u == SubSeq(s, b + 1, i)
           c == Chars(s, i, 1)
<1>5. c = SubSeq(s, i + 1, i + 1) /\ c \in Seq(Char)
  <2>1. 1 \in Nat /\ i + 1 <= Len(s) /\ i \in Nat
    BY <1>3
  <2>2. Chars(s, i, 1) = SubSeq(s, i + 1, i + 1) /\ Chars(s, i, 1) \in Seq(Char)
    BY <1>0, <2>1, CharsInside, Zenon
  <2> QED BY <2>2
<1>6. u \o c = SubSeq(s, b + 1, i + 1)
  <2> DEFINE e == i + 1
  <2>1. e \in Nat /\ i <= e /\ e <= Len(s)
    BY <1>3
  <2>2. c = SubSeq(s, i + 1, e)
    BY <1>5
  <2> HIDE DEF e, c
  <2>3. u \o SubSeq(s, i + 1, e) = SubSeq(s, b + 1, e)
    BY <1>0, <1>3, <2>1, Adjacent
  <2> QED BY <2>2, <2>3 DEF e
<1>7. u \in Seq(Char)
  BY <1>0, <1>3, Stretch
<1>8. o = pre \o u
  BY <1>2
<1> HIDE DEF u, c, P
<1>9. (pre \o u) \o c = pre \o (u \o c)
  BY <1>5, <1>7, Associative
<1>10. o \o c \in Seq(Char)
  BY <1>0, <1>5, ConcatProperties
<1>11. o \o c = pre \o SubSeq(s, b + 1, i + 1)
  BY <1>6, <1>8, <1>9
<1>12. Written(s, sep, new, i + 1, o \o c, b, pre)
  BY <1>2, <1>4, <1>11 DEF Written, P
<1>13. Writing(s, sep, new, i + 1, o \o c)
  BY <1>3, <1>10, <1>12 DEF Writing
<1> QED BY <1>13 DEF c

LEMMA WriteEnds ==
  ASSUME NEW s, NEW sep, Sought(s, sep), NEW new \in Seq(Char), NEW i, NEW o,
         Writing(s, sep, new, i, o), ~(i < Len(s))
  PROVE  o = Joined(PiecesOf(s, sep), new)
<1> DEFINE P == Pieces(s, sep)
<1>0. s \in Seq(Char) /\ Len(s) \in Nat /\ i \in 0..Len(s) /\ Len(sep) \in Nat /\ Len(sep) > 0
  BY DEF Sought, Writing
<1>1. PICK b \in 0..i, pre \in Seq(Char) : Written(s, sep, new, i, o, b, pre)
  BY DEF Writing
<1>2. /\ Uncut(s, sep, b, i) /\ o = pre \o SubSeq(s, b + 1, i)
      /\ pre \o Joined(P[b], new) = Joined(PiecesOf(s, sep), new)
  BY <1>1 DEF Written
<1>3. i = Len(s) /\ ~(i <= Len(s) - Len(sep))
  BY <1>0
<1>4. b \in 0..Len(s) /\ \A k \in b..Len(s) : ~Matches(s, k, sep)
  BY <1>0, <1>1, <1>2, <1>3, Ended
<1>5. Joined(P[b], new) = SubSeq(s, b + 1, Len(s))
  BY <1>4, JoinedLast
<1> QED BY <1>2, <1>3, <1>5

\* What has been written is never longer than what will have been.
LEMMA WriteFits ==
  ASSUME NEW s, NEW sep, Sought(s, sep), NEW new \in Seq(Char), NEW i, NEW o,
         Writing(s, sep, new, i, o)
  PROVE  Len(o) <= Len(Joined(PiecesOf(s, sep), new))
<1> DEFINE P == Pieces(s, sep)
<1>0. s \in Seq(Char) /\ Len(s) \in Nat /\ i \in 0..Len(s) /\ Len(sep) \in Nat /\ Len(sep) > 0
  BY DEF Sought, Writing
<1>1. PICK b \in 0..i, pre \in Seq(Char) : Written(s, sep, new, i, o, b, pre)
  BY DEF Writing
<1>2. /\ Uncut(s, sep, b, i) /\ o = pre \o SubSeq(s, b + 1, i)
      /\ pre \o Joined(P[b], new) = Joined(PiecesOf(s, sep), new)
  BY <1>1 DEF Written
<1>3. i \in Nat /\ b \in Nat /\ b <= i /\ i <= Len(s) /\ b \in 0..Len(s)
  BY <1>0, <1>1
<1> DEFINE u == SubSeq(s, b + 1, i)
           J == Joined(P[b], new)
<1>4. u \in Seq(Char) /\ Len(u) = i - b
  BY <1>0, <1>3, Stretch
<1>5. J \in Seq(Char)
  <2>1. P[b] \in Seq(Seq(Char)) /\ Len(P[b]) > 0
    BY <1>3, PiecesTyped
  <2> HIDE DEF P
  <2> QED BY <2>1, JoinedTyped
<1>6. Len(J) >= i - b
  <2>1. CASE \A k \in b..Len(s) : ~Matches(s, k, sep)
    <3>1. J = SubSeq(s, b + 1, Len(s))
      BY <1>3, <2>1, JoinedLast
    <3>2. Len(J) = Len(s) - b
      BY <1>0, <1>3, <3>1, Stretch
    <3> QED BY <1>0, <1>3, <3>2
  <2>2. CASE \E j \in b..Len(s) : FirstAt(s, sep, b, j)
    <3>1. PICK j \in b..Len(s) : FirstAt(s, sep, b, j)
      BY <2>2
    <3>2. j \in Nat /\ j <= Len(s) /\ b <= j /\ Matches(s, j, sep)
      BY <1>0, <1>3, <3>1 DEF FirstAt
    <3>3. j >= i
      <4>1. j \notin b..(i - 1)
        BY <1>2, <3>2 DEF Uncut
      <4> QED BY <1>3, <3>2, <4>1
    <3> DEFINE e == j + Len(sep)
               v == SubSeq(s, b + 1, j)
               r == Joined(P[e], new)
    <3>4. CutThere(s, sep, new, b, j)
      BY <1>3, <3>1, <3>2, JoinedCut
    <3>5. J = (v \o new) \o r
      BY <3>4 DEF CutThere
    <3>6. v \in Seq(Char) /\ Len(v) = j - b
      BY <1>0, <1>3, <3>2, Stretch
    <3>7. r \in Seq(Char)
      <4>1. e \in 0..Len(s)
        <5>1. j + Len(sep) <= Len(s)
          BY <3>2, MatchInside
        <5> QED BY <1>0, <3>2, <5>1
      <4> HIDE DEF e
      <4>2. P[e] \in Seq(Seq(Char)) /\ Len(P[e]) > 0
        BY <4>1, PiecesTyped
      <4> HIDE DEF P
      <4> QED BY <4>2, JoinedTyped
    <3> HIDE DEF J, v, r
    <3>8. Len((v \o new) \o r) = (Len(v) + Len(new)) + Len(r) /\ Len(new) \in Nat /\ Len(r) \in Nat
      BY <3>6, <3>7, LengthOfThree
    <3> DEFINE x == Len(new)
               y == Len(r)
    <3>9. Len(J) = ((j - b) + x) + y /\ x \in Nat /\ y \in Nat
      BY <3>5, <3>6, <3>8
    <3> HIDE DEF x, y
    <3> QED BY <1>3, <3>2, <3>3, <3>9
  <2> QED BY <1>3, <2>1, <2>2, PieceCases
<1>7. Len(o) = Len(pre) + Len(u)
  BY <1>2, <1>4
<1>8. Len(Joined(PiecesOf(s, sep), new)) = Len(pre) + Len(J)
  <2>1. Joined(PiecesOf(s, sep), new) = pre \o J
    BY <1>2
  <2> HIDE DEF J
  <2> QED BY <1>5, <2>1
<1>9. Len(pre) \in Nat /\ Len(J) \in Nat
  <2> HIDE DEF J
  <2> QED BY <1>5
<1> DEFINE x == Len(pre)
           y == Len(J)
           z == Len(Joined(PiecesOf(s, sep), new))
<1>10. x \in Nat /\ y \in Nat /\ y >= i - b /\ Len(o) = x + (i - b) /\ z = x + y
  BY <1>4, <1>6, <1>7, <1>8, <1>9
<1> HIDE DEF x, y, z
<1>11. Len(o) <= z
  BY <1>3, <1>10
<1> QED BY <1>11 DEF z
-----------------------------------------------------------------------------
(***************************************************************************)
(* The functions that cut a piece out of a string                          *)
(***************************************************************************)
LEMMA OfTwo ==
  ASSUME NEW a \in Int, NEW b \in Int
  PROVE  /\ Max({a, b}) = IF a >= b THEN a ELSE b
         /\ Min({a, b}) = IF a <= b THEN a ELSE b
<1> DEFINE x == Max({a, b})
           y == Min({a, b})
<1>1. x \in {a, b} /\ \A z \in {a, b} : x >= z
  <2>1. \E m \in {a, b} : \A z \in {a, b} : m >= z
    OBVIOUS
  <2> QED BY <2>1 DEF Max
<1>2. y \in {a, b} /\ \A z \in {a, b} : y <= z
  <2>1. \E m \in {a, b} : \A z \in {a, b} : m <= z
    OBVIOUS
  <2> QED BY <2>1 DEF Min
<1> HIDE DEF x, y
<1>3. x = IF a >= b THEN a ELSE b
  BY <1>1
<1>4. y = IF a <= b THEN a ELSE b
  BY <1>2
<1> QED BY <1>3, <1>4 DEF x, y

LEMMA SmallRemainder ==
  ASSUME NEW m \in Nat, NEW v \in Nat, v < m
  PROVE  v % m = v
OBVIOUS

\* A sum that is an int is what the addition gives.
LEMMA SumsExact ==
  ASSUME NEW a \in Nat, NEW b \in Nat, a + b <= IntMax
  PROVE  Sums(a, b) = {a + b}
<1> DEFINE v == a + b + IntMax + 1
           m == 2 * IntMax + 2
<1>1. v \in Nat /\ m \in Nat /\ v < m /\ IntMax \in Nat
  BY BuiltinsAssumption
<1>2. v - IntMax - 1 = a + b
  BY <1>1
<1>3. v % m = v
  <2> HIDE DEF v, m
  <2> QED BY <1>1, SmallRemainder
<1>4. Sums(a, b) = {a + b, (v % m) - IntMax - 1}
  BY DEF Sums
<1> QED BY <1>2, <1>3, <1>4

LEMMA StretchMade ==
  ASSUME NEW s \in Seq(Char), NEW i \in Nat, NEW n \in Nat, i + n <= Len(s)
  PROVE  /\ IsStretch(Chars(s, i, n), s, i)
         /\ Chars(s, i, n) = SubSeq(s, i + 1, i + n)
         /\ Chars(s, i, n) \in Seq(Char) /\ Len(Chars(s, i, n)) = n
<1>1. /\ Chars(s, i, n) = SubSeq(s, i + 1, i + n)
      /\ Chars(s, i, n) \in Seq(Char) /\ Len(Chars(s, i, n)) = n
  BY CharsInside
<1>2. i \in 0..Len(s)
  OBVIOUS
<1> QED BY <1>1, <1>2 DEF IsStretch, Matches

\* What CutsExact says of an answer.
CutRight(f, a, r) ==
    LET s == a[1] IN
    CASE f = "substr" ->
            (\A x \in Casts(a[2]), w \in Casts(a[3]) : x + w <= IntMax) =>
                \E x \in Casts(a[2]), w \in Casts(a[3]) : IsSubstr(r, s, x, w)
      [] f = "charAt"  -> \E i \in Casts(a[2]) : IsCharAt(r, s, i)
      [] f = "indexOf" -> \/ FirstAt(s, a[2], 0, r)
                          \/ r = -1 /\ \A i \in 0..Len(s) : ~Matches(s, i, a[2])
      [] f = "trim"    -> \E before, after \in {w \in Strings : Range(w) \subseteq Space} :
                             /\ s = before \o r \o after
                             /\ r # <<>> => {r[1], Last(r)} \cap Space = {}
      [] OTHER -> TRUE

\* Both ends clamped, in numbers.
Clamps(N, w, top, want, from, n) ==
    /\ want = IF w >= 0 THEN w ELSE 0
    /\ from = IF top <= N THEN top ELSE N
    /\ n = IF from + want > N THEN N - from ELSE want
LEMMA Clamped ==
  ASSUME NEW N \in Nat, NEW w \in Int, NEW top \in Nat, NEW want \in Nat, NEW from \in Nat, NEW n,
         Clamps(N, w, top, want, from, n)
  PROVE  /\ n \in Nat /\ from + n <= N /\ n <= want
         /\ n > 0 => from = top
         /\ n = w \/ top + n >= N \/ (w < 0 /\ n = 0)
BY DEF Clamps

SubstrCut(s, w, top, want, r) ==
    /\ \E i \in 0..Len(s) : IsStretch(r, s, i) /\ (r # <<>> => i = top)
    /\ Len(r) = w \/ top + Len(r) >= Len(s) \/ (w < 0 /\ r = <<>>)
    /\ Len(r) <= want

LEMMA SubstrCuts ==
  ASSUME NEW s \in Seq(Char), NEW w \in Int, NEW top \in Nat, NEW want \in Nat, NEW from \in Nat,
         NEW n, Clamps(Len(s), w, top, want, from, n)
  PROVE  SubstrCut(s, w, top, want, Chars(s, from, n))
<1> DEFINE r == Chars(s, from, n)
<1>0. SUFFICES SubstrCut(s, w, top, want, r)
  OBVIOUS
<1>1. /\ n \in Nat /\ from + n <= Len(s) /\ n <= want
      /\ n > 0 => from = top
      /\ n = w \/ top + n >= Len(s) \/ (w < 0 /\ n = 0)
  <2>1. Len(s) \in Nat
    OBVIOUS
  <2> DEFINE N == Len(s)
  <2>2. N \in Nat /\ Clamps(N, w, top, want, from, n)
    BY <2>1
  <2> HIDE DEF N
  <2>3. /\ n \in Nat /\ from + n <= N /\ n <= want
        /\ n > 0 => from = top
        /\ n = w \/ top + n >= N \/ (w < 0 /\ n = 0)
    BY <2>2, Clamped
  <2> QED BY <2>3 DEF N
<1>2. IsStretch(r, s, from) /\ Len(r) = n /\ r \in Seq(Char)
  BY <1>1, StretchMade
<1> HIDE DEF r
<1>3. r # <<>> => n > 0
  BY <1>1, <1>2
<1>4. n = 0 => r = <<>>
  BY <1>2
<1>5. from \in 0..Len(s)
  BY <1>1
<1> QED BY <1>1, <1>2, <1>3, <1>4, <1>5 DEF SubstrCut

LEMMA SubstrExact ==
  ASSUME NEW s \in Strings, NEW a \in Ints, NEW w \in Ints, a + w <= IntMax,
         NEW from, from = Min({Max({a, 0}), Len(s)}), NEW want, want = Max({w, 0}),
         NEW sum \in Sums(from, want), NEW r, r = Chars(s, from, Cut(s, from, want, sum))
  PROVE  IsSubstr(r, s, a, w)
<1> DEFINE N == Len(s)
           top == Max({a, 0})
           n == Cut(s, from, want, sum)
<1>0. s \in Seq(Char) /\ N \in Nat /\ a \in Int /\ w \in Int /\ IntMax \in Nat /\ a <= IntMax /\ w <= IntMax
  BY StringTyped, BuiltinsAssumption DEF Ints
<1>1. top = (IF a >= 0 THEN a ELSE 0) /\ want = IF w >= 0 THEN w ELSE 0
  BY <1>0, OfTwo
<1>2. top \in Nat /\ want \in Nat /\ top + want <= IntMax
  <2> HIDE DEF top
  <2> QED BY <1>0, <1>1
<1>3. from = IF top <= N THEN top ELSE N
  <2>1. from = Min({top, N}) /\ top \in Int /\ N \in Int
    BY <1>0, <1>2
  <2> HIDE DEF top, N
  <2> QED BY <2>1, OfTwo
<1>4. from \in Nat /\ from + want <= IntMax /\ from <= N
  <2> HIDE DEF top, N
  <2> QED BY <1>0, <1>2, <1>3
<1>5. sum = from + want
  BY <1>2, <1>4, SumsExact
<1>6. n = IF from + want > N THEN N - from ELSE want
  BY <1>5 DEF Cut
<1>7. r = Chars(s, from, n) /\ want = Max({w, 0})
  OBVIOUS
<1> HIDE DEF top, n
<1>8. Clamps(N, w, top, want, from, n)
  BY <1>1, <1>3, <1>6, Zenon DEF Clamps
<1>9. s \in Seq(Char) /\ w \in Int /\ top \in Nat /\ want \in Nat /\ from \in Nat
      /\ Clamps(Len(s), w, top, want, from, n)
  BY <1>0, <1>2, <1>4, <1>8
<1>10. SubstrCut(s, w, top, want, Chars(s, from, n))
  BY <1>9, SubstrCuts, Zenon
<1>11. SubstrCut(s, w, Max({a, 0}), Max({w, 0}), r)
  BY <1>7, <1>10, Zenon DEF top
<1> QED BY <1>11, Zenon DEF SubstrCut, IsSubstr

Trimmed(s, r) ==
    \E before, after \in {w \in Strings : Range(w) \subseteq Space} :
       /\ s = before \o r \o after
       /\ r # <<>> => {r[1], Last(r)} \cap Space = {}

\* Where trim begins and ends: blanks stand outside, and not at either end.
TrimPlaces(s, first, end) ==
    /\ first \in Nat /\ end \in Nat /\ first <= end /\ end <= Len(s)
    /\ \A k \in 1..first : s[k] \in Space
    /\ \A k \in (end + 1)..Len(s) : s[k] \in Space
    /\ end # first => s[first + 1] \notin Space /\ s[end] \notin Space

LEMMA UpTo ==
  ASSUME NEW a \in Nat, NEW b \in Nat, a <= b
  PROVE  a \in a..b /\ \A k \in a..b : k \in Nat /\ k <= b
OBVIOUS

LEMMA TrimFinds ==
  ASSUME NEW s \in Seq(Char), NEW A, NEW B, NEW first, NEW end,
         A = {k \in 0..Len(s) : k = Len(s) \/ s[k + 1] \notin Space}, first = Min(A),
         B = {k \in first..Len(s) : k = first \/ s[k] \notin Space}, end = Max(B)
  PROVE  TrimPlaces(s, first, end)
<1> DEFINE N == Len(s)
<1>0. N \in Nat
  OBVIOUS
<1>a. \A k : k \in A <=> k \in 0..N /\ (k = N \/ s[k + 1] \notin Space)
  OBVIOUS
<1>b. \A k : k \in B <=> k \in first..N /\ (k = first \/ s[k] \notin Space)
  OBVIOUS
<1> HIDE DEF N
<1>1. first \in A /\ \A k \in A : first <= k
  <2>1. N \in A /\ A \in SUBSET Nat
    BY <1>0, <1>a
  <2>2. A # {}
    BY <2>1
  <2>3. Min(A) \in A /\ \A k \in A : Min(A) <= k
    BY <2>1, <2>2, Least
  <2> QED BY <2>3
<1>2. first \in Nat /\ first <= N
  BY <1>0, <1>1, <1>a
<1>3. end \in B /\ \A k \in B : k <= end
  <2>0. first \in first..N /\ \A k \in first..N : k \in Nat /\ k <= N
    BY <1>0, <1>2, UpTo, Zenon
  <2>1. first \in B
    BY <1>b, <2>0
  <2>2. B \in SUBSET Nat /\ B # {}
    BY <1>b, <2>0, <2>1
  <2>3. \A k \in B : k <= N
    BY <1>b, <2>0
  <2>4. Max(B) \in B /\ \A k \in B : k <= Max(B)
    BY <1>0, <2>2, <2>3, Greatest
  <2> QED BY <2>4
<1>4. end \in Nat /\ first <= end /\ end <= N
  BY <1>0, <1>2, <1>3, <1>b
<1>5. ASSUME NEW k \in 1..first
      PROVE  s[k] \in Space
  <2>1. k - 1 \in 0..N /\ (k - 1) + 1 = k /\ ~(first <= k - 1) /\ k - 1 # N
    BY <1>0, <1>2
  <2>2. k - 1 \notin A
    BY <1>1, <2>1
  <2> QED BY <1>a, <2>1, <2>2
<1>6. ASSUME NEW k \in (end + 1)..N
      PROVE  s[k] \in Space
  <2>1. k \in first..N /\ ~(k <= end)
    BY <1>0, <1>2, <1>4
  <2>2. k \notin B
    BY <1>3, <2>1
  <2> QED BY <1>b, <2>1, <2>2
<1>7. end # first => s[first + 1] \notin Space /\ s[end] \notin Space
  <2>1. end # first => first # N
    BY <1>0, <1>2, <1>4
  <2> QED BY <1>1, <1>3, <1>a, <1>b, <2>1
<1> QED BY <1>2, <1>4, <1>5, <1>6, <1>7 DEF TrimPlaces, N

LEMMA TrimExact ==
  ASSUME NEW s \in Strings, NEW first, NEW end, TrimPlaces(s, first, end),
         NEW r, r = Chars(s, first, end - first)
  PROVE  Trimmed(s, r)
<1> DEFINE N == Len(s)
           n == end - first
           none == 0
           before == SubSeq(s, 1, first)
           after == SubSeq(s, end + 1, N)
<1>0. s \in Seq(Char) /\ N \in Nat /\ N <= MaxLen /\ MaxLen \in Nat
  BY StringTyped, BuiltinsAssumption
<1>1. first \in Nat /\ end \in Nat /\ first <= end /\ end <= N
  BY DEF TrimPlaces
<1>2. n \in Nat /\ first + n = end /\ n = end - first /\ first + n <= N
  BY <1>0, <1>1
<1>3. r = Chars(s, first, n)
  OBVIOUS
<1> HIDE DEF n, N
<1>4. r = SubSeq(s, first + 1, first + n) /\ r \in Seq(Char) /\ Len(r) = n
  <2>1. first + n <= Len(s)
    BY <1>2 DEF N
  <2> DEFINE c == Chars(s, first, n)
  <2>2. c = SubSeq(s, first + 1, first + n) /\ c \in Seq(Char) /\ Len(c) = n
    BY <1>0, <1>1, <1>2, <2>1, CharsInside, Zenon
  <2> QED BY <1>3, <2>2
<1>5. r = SubSeq(s, first + 1, end)
  BY <1>2, <1>4
<1>6. before = SubSeq(s, none + 1, first) /\ none \in Nat /\ none <= first /\ none <= end
  BY <1>1
<1>7. before \in Seq(Char) /\ Len(before) = first /\ \A k \in 1..first : before[k] = s[k]
  <2>1. 1 \in Int /\ first \in Int /\ \A k \in 1..first : s[k] \in Char
    BY <1>0, <1>1 DEF N
  <2> QED BY <1>1, <2>1, SubSeqProperties
<1>8. after \in Seq(Char) /\ Len(after) = N - end /\ \A k \in 1..(N - end) : after[k] = s[end + k]
  <2>1. end + 1 \in Int /\ N \in Int /\ \A k \in (end + 1)..N : s[k] \in Char
    BY <1>0, <1>1 DEF N
  <2>2. /\ after \in Seq(Char)
        /\ Len(after) = (IF end + 1 <= N THEN N - (end + 1) + 1 ELSE 0)
        /\ \A k \in 1..(N - (end + 1) + 1) : after[k] = s[(end + 1) + k - 1]
    BY <2>1, SubSeqProperties
  <2> HIDE DEF after
  <2>3. N - (end + 1) + 1 = N - end /\ (~(end + 1 <= N) => N - end = 0)
    BY <1>0, <1>1
  <2>4. \A k \in 1..(N - end) : (end + 1) + k - 1 = end + k
    BY <1>0, <1>1
  <2> QED BY <2>2, <2>3, <2>4
<1>9. \A k \in 1..n : r[k] = s[first + k]
  <2> SUFFICES ASSUME NEW k \in 1..n
               PROVE  r[k] = s[first + k]
    OBVIOUS
  <2>1. first + k <= Len(s)
    BY <1>0, <1>1, <1>2 DEF N
  <2>2. Chars(s, first, n)[k] = IF first + k <= Len(s) THEN s[first + k] ELSE Outside
    BY Zenon DEF Chars
  <2> QED BY <1>3, <2>1, <2>2
<1>10. s = (before \o r) \o after
  <2> HIDE DEF none, before, after
  <2>1. before \o r = SubSeq(s, none + 1, end)
    <3>1. SubSeq(s, none + 1, first) \o SubSeq(s, first + 1, end) = SubSeq(s, none + 1, end)
      BY <1>0, <1>1, <1>6, Adjacent DEF N
    <3> QED BY <1>5, <1>6, <3>1
  <2>2. N <= N /\ none \in Nat
    BY <1>0, <1>6
  <2>3. SubSeq(s, none + 1, end) \o after = SubSeq(s, none + 1, N)
    BY <1>0, <1>1, <1>6, <2>2, Adjacent DEF N, after
  <2>4. SubSeq(s, none + 1, N) = s
    BY <1>0, SubSeqFull DEF N, none
  <2> QED BY <2>1, <2>3, <2>4
<1> HIDE DEF before, after
<1>11. before \in Strings /\ Range(before) \subseteq Space
  <2>1. before \in Strings
    BY <1>0, <1>1, <1>7, StringMade
  <2>2. Range(before) \subseteq Space
    BY <1>7 DEF Range, TrimPlaces
  <2> QED BY <2>1, <2>2
<1>12. after \in Strings /\ Range(after) \subseteq Space
  <2>0. N - end <= MaxLen
    BY <1>0, <1>1
  <2>1. after \in Strings
    BY <1>8, <2>0, StringMade
  <2>2. \A k \in 1..(N - end) : end + k \in (end + 1)..N
    BY <1>0, <1>1
  <2>3. \A k \in 1..(N - end) : after[k] \in Space
    BY <1>8, <2>2 DEF TrimPlaces, N
  <2>4. DOMAIN after = 1..(N - end)
    BY <1>8
  <2> QED BY <2>1, <2>3, <2>4 DEF Range
<1>13. ASSUME r # <<>>
       PROVE  {r[1], Last(r)} \cap Space = {}
  <2>1. n > 0
    BY <1>2, <1>4, <1>13
  <2>2. 1 \in 1..n /\ n \in 1..n /\ end # first
    BY <1>1, <1>2, <2>1
  <2>3. r[1] = s[first + 1] /\ r[n] = s[end]
    BY <1>2, <1>9, <2>2
  <2> QED BY <1>4, <2>2, <2>3 DEF Last, TrimPlaces
<1> QED BY <1>10, <1>11, <1>12, <1>13 DEF Trimmed
-----------------------------------------------------------------------------
(***************************************************************************)
(* The arguments                                                           *)
(***************************************************************************)
Given == \A k \in DOMAIN args : args[k] # Other

LEMMA SignatureDomain ==
  DOMAIN Signature = {"substr", "charAt", "indexOf", "trim", "replace", "split"}
BY DEF Signature

LEMMA OneArgument ==
  ASSUME NEW f, NEW A, Signature[f] = <<A>>, NEW a \in Arguments(f),
         \A k \in DOMAIN a : a[k] # Other
  PROVE  a[1] \in A
<1>1. Len(Signature[f]) = 1 /\ Signature[f][1] = A
  OBVIOUS
<1>2. Arguments(f) = {<<x>> : x \in A \cup {Other}}
  BY <1>1 DEF Arguments
<1>3. PICK x \in A \cup {Other} : a = <<x>>
  BY <1>2
<1> QED BY <1>3

LEMMA TwoArguments ==
  ASSUME NEW f, NEW A, NEW B, Signature[f] = <<A, B>>, NEW a \in Arguments(f),
         \A k \in DOMAIN a : a[k] # Other
  PROVE  a[1] \in A /\ a[2] \in B
<1>1. Len(Signature[f]) = 2 /\ Signature[f][1] = A /\ Signature[f][2] = B
  OBVIOUS
<1>2. Arguments(f) = (A \cup {Other}) \X (B \cup {Other})
  BY <1>1 DEF Arguments
<1>3. PICK x \in A \cup {Other}, y \in B \cup {Other} : a = <<x, y>>
  BY <1>2
<1> QED BY <1>3

LEMMA ThreeArguments ==
  ASSUME NEW f, NEW A, NEW B, NEW C, Signature[f] = <<A, B, C>>, NEW a \in Arguments(f),
         \A k \in DOMAIN a : a[k] # Other
  PROVE  a[1] \in A /\ a[2] \in B /\ a[3] \in C
<1>1. Len(Signature[f]) = 3 /\ Signature[f][1] = A /\ Signature[f][2] = B /\ Signature[f][3] = C
  OBVIOUS
<1>2. Arguments(f) = (A \cup {Other}) \X (B \cup {Other}) \X (C \cup {Other})
  BY <1>1 DEF Arguments
<1>3. PICK x \in A \cup {Other}, y \in B \cup {Other}, z \in C \cup {Other} : a = <<x, y, z>>
  BY <1>2
<1> QED BY <1>3

\* The types the checks of each case leave.
ArgsOf(f, a) ==
    /\ f = "substr"  => a[1] \in Strings /\ a[2] \in Numbers /\ a[3] \in Numbers
    /\ f = "charAt"  => a[1] \in Strings /\ a[2] \in Numbers
    /\ f = "indexOf" => a[1] \in Strings /\ a[2] \in Strings
    /\ f = "trim"    => a[1] \in Strings
    /\ f = "replace" => a[1] \in Strings /\ a[2] \in Strings /\ a[3] \in Strings
    /\ f = "split"   => a[1] \in Strings /\ a[2] \in Strings

LEMMA ArgumentsTyped ==
  ASSUME fn \in DOMAIN Signature, args \in Arguments(fn), Given
  PROVE  ArgsOf(fn, args)
<1>0. \A k \in DOMAIN args : args[k] # Other
  BY DEF Given
<1>1. CASE fn = "substr"
  <2>1. Signature[fn] = <<Strings, Numbers, Numbers>>
    BY <1>1 DEF Signature
  <2>2. args[1] \in Strings /\ args[2] \in Numbers /\ args[3] \in Numbers
    BY <1>0, <2>1, ThreeArguments
  <2> QED BY <1>1, <2>2 DEF ArgsOf
<1>2. CASE fn = "charAt"
  <2>1. Signature[fn] = <<Strings, Numbers>>
    BY <1>2 DEF Signature
  <2>2. args[1] \in Strings /\ args[2] \in Numbers
    BY <1>0, <2>1, TwoArguments
  <2> QED BY <1>2, <2>2 DEF ArgsOf
<1>3. CASE fn = "indexOf"
  <2>1. Signature[fn] = <<Strings, Strings>>
    BY <1>3 DEF Signature
  <2>2. args[1] \in Strings /\ args[2] \in Strings
    BY <1>0, <2>1, TwoArguments
  <2> QED BY <1>3, <2>2 DEF ArgsOf
<1>4. CASE fn = "trim"
  <2>1. Signature[fn] = <<Strings>>
    BY <1>4 DEF Signature
  <2>2. args[1] \in Strings
    BY <1>0, <2>1, OneArgument
  <2> QED BY <1>4, <2>2 DEF ArgsOf
<1>5. CASE fn = "replace"
  <2>1. Signature[fn] = <<Strings, Strings, Strings>>
    BY <1>5 DEF Signature
  <2>2. args[1] \in Strings /\ args[2] \in Strings /\ args[3] \in Strings
    BY <1>0, <2>1, ThreeArguments
  <2> QED BY <1>5, <2>2 DEF ArgsOf
<1>6. CASE fn = "split"
  <2>1. Signature[fn] = <<Strings, Strings>>
    BY <1>6 DEF Signature
  <2>2. args[1] \in Strings /\ args[2] \in Strings
    BY <1>0, <2>1, TwoArguments
  <2> QED BY <1>6, <2>2 DEF ArgsOf
<1> QED BY <1>1, <1>2, <1>3, <1>4, <1>5, <1>6, SignatureDomain
-----------------------------------------------------------------------------
(***************************************************************************)
(* The invariant: where each loop stands, and what each answer is          *)
(***************************************************************************)
Fixed == fn \in DOMAIN Signature /\ args \in Arguments(fn)
Start == phase = "ready" => at = 0 /\ start = 0 /\ matches = 0 /\ out = <<>>
Checked == phase \notin {"ready", "failed"} => Given

CountLoop ==
    phase = "count" =>
        fn = "replace" /\ args[2] # <<>> /\ out = <<>> /\ Counting(args[1], args[2], at, matches)

WriteLoop ==
    phase = "write" =>
        /\ fn = "replace" /\ args[2] # <<>> /\ Writing(args[1], args[2], args[3], at, out)
        /\ matches \in Nat /\ matches + 1 = Len(PiecesOf(args[1], args[2]))

SplitLoop ==
    phase = "split" =>
        fn = "split" /\ args[2] # <<>> /\ Splitting(args[1], args[2], at, start, out)

\* What is right for split and replace.
PiecesRight(f, a, m, r) ==
    /\ f = "split" =>
          /\ Joined(r, a[2]) = a[1]
          /\ IF a[2] = <<>> THEN \A k \in DOMAIN r : Len(r[k]) = 1
             ELSE r = PiecesOf(a[1], a[2])
    /\ f = "replace" /\ a[2] # <<>> =>
          /\ r = Joined(PiecesOf(a[1], a[2]), a[3])
          /\ m \in Nat /\ m + 1 = Len(PiecesOf(a[1], a[2]))

AnswerRight == phase = "done" => CutRight(fn, args, result) /\ PiecesRight(fn, args, matches, result)

StringInv == Fixed /\ Start /\ Checked /\ CountLoop /\ WriteLoop /\ SplitLoop /\ AnswerRight

LEMMA StringStarts ==
  ASSUME Init
  PROVE  StringInv
BY DEF Init, StringInv, Fixed, Start, Checked, CountLoop, WriteLoop, SplitLoop, AnswerRight

\* A call of f with arguments of the right types.
LEMMA CalledTyped ==
  ASSUME StringInv, NEW f, Called(f)
  PROVE  fn = f /\ Given /\ ArgsOf(fn, args)
<1>1. fn = f /\ Given
  BY DEF Called, Given
<1>2. ArgsOf(fn, args)
  BY <1>1, ArgumentsTyped DEF StringInv, Fixed
<1> QED BY <1>1, <1>2

\* A right answer keeps the invariant.
LEMMA AnswerKeeps ==
  ASSUME StringInv, NEW f, Called(f), NEW r, Answer(r),
         CutRight(fn, args, r), PiecesRight(fn, args, matches, r)
  PROVE  StringInv'
<1>1. /\ phase' = "done" /\ result' = r /\ fn' = fn /\ args' = args
      /\ at' = at /\ start' = start /\ matches' = matches /\ out' = out
  BY DEF Answer, inputs
<1>2. Fixed'
  BY <1>1 DEF StringInv, Fixed
<1>3. Checked'
  BY <1>1 DEF Called, Checked, Given
<1>4. Start' /\ CountLoop' /\ WriteLoop' /\ SplitLoop'
  BY <1>1 DEF Start, CountLoop, WriteLoop, SplitLoop
<1>5. AnswerRight'
  BY <1>1 DEF AnswerRight
<1> QED BY <1>2, <1>3, <1>4, <1>5 DEF StringInv

LEMMA CastsTyped ==
  ASSUME NEW x \in Numbers, NEW i \in Casts(x)
  PROVE  i \in Ints
BY DEF Numbers, Casts

LEMMA SubstrKeeps ==
  ASSUME StringInv, Substr
  PROVE  StringInv'
<1> DEFINE s == args[1]
<1>1. Called("substr")
  BY DEF Substr
<1>2. fn = "substr" /\ s \in Strings /\ args[2] \in Numbers /\ args[3] \in Numbers
  BY <1>1, CalledTyped DEF ArgsOf
<1>3. PICK a \in Casts(args[2]), w \in Casts(args[3]) :
         \E sum \in Sums(Min({Max({a, 0}), Len(s)}), Max({w, 0})) :
            Answer(Chars(s, Min({Max({a, 0}), Len(s)}),
                         Cut(s, Min({Max({a, 0}), Len(s)}), Max({w, 0}), sum)))
  BY Zenon DEF Substr
<1> DEFINE from == Min({Max({a, 0}), Len(s)})
           want == Max({w, 0})
<1>a. PICK sum \in Sums(from, want) : Answer(Chars(s, from, Cut(s, from, want, sum)))
  BY <1>3
<1> DEFINE r == Chars(s, from, Cut(s, from, want, sum))
<1>4. a \in Ints /\ w \in Ints
  BY <1>2, CastsTyped
<1>5. a + w <= IntMax => IsSubstr(r, s, a, w)
  BY <1>2, <1>4, SubstrExact
<1>6. Answer(r)
  BY <1>a
<1> HIDE DEF r
<1>7. CutRight(fn, args, r)
  BY <1>2, <1>5 DEF CutRight
<1>8. PiecesRight(fn, args, matches, r)
  BY <1>2 DEF PiecesRight
<1> QED BY <1>1, <1>6, <1>7, <1>8, AnswerKeeps

LEMMA CharAtKeeps ==
  ASSUME StringInv, CharAt
  PROVE  StringInv'
<1> DEFINE s == args[1]
<1>1. Called("charAt")
  BY DEF CharAt
<1>2. fn = "charAt" /\ s \in Strings /\ args[2] \in Numbers
  BY <1>1, CalledTyped DEF ArgsOf
<1>3. s \in Seq(Char) /\ Len(s) \in Nat
  BY <1>2, StringTyped
<1>4. PICK i \in Casts(args[2]) : Answer(IF i \in 0..(Len(s) - 1) THEN Chars(s, i, 1) ELSE <<>>)
  BY DEF CharAt
<1> DEFINE r == IF i \in 0..(Len(s) - 1) THEN Chars(s, i, 1) ELSE <<>>
<1>5. IsCharAt(r, s, i)
  <2>1. CASE i \in 0..(Len(s) - 1)
    <3>1. i \in Nat /\ i + 1 <= Len(s) /\ 1 \in Nat
      BY <1>3, <2>1
    <3>2. IsStretch(Chars(s, i, 1), s, i) /\ Len(Chars(s, i, 1)) = 1
      <4> HIDE DEF s
      <4> QED BY <1>3, <3>1, StretchMade, Zenon
    <3> QED BY <2>1, <3>2 DEF IsCharAt
  <2>2. CASE i \notin 0..(Len(s) - 1)
    BY <2>2 DEF IsCharAt
  <2> QED BY <2>1, <2>2
<1>6. Answer(r)
  BY <1>4
<1> HIDE DEF r
<1>7. CutRight(fn, args, r)
  BY <1>2, <1>5 DEF CutRight
<1>8. PiecesRight(fn, args, matches, r)
  BY <1>2 DEF PiecesRight
<1> QED BY <1>1, <1>6, <1>7, <1>8, AnswerKeeps

LEMMA IndexOfKeeps ==
  ASSUME StringInv, IndexOf
  PROVE  StringInv'
<1> DEFINE s    == args[1]
           w    == args[2]
           hits == {i \in 0..Len(s) : Matches(s, i, w)}
           r    == IF hits = {} THEN -1 ELSE Min(hits)
<1>1. Called("indexOf")
  BY DEF IndexOf
<1>2. fn = "indexOf" /\ s \in Strings
  BY <1>1, CalledTyped DEF ArgsOf
<1>3. Len(s) \in Nat
  BY <1>2, StringTyped
<1>4. \/ FirstAt(s, w, 0, r)
      \/ r = -1 /\ \A i \in 0..Len(s) : ~Matches(s, i, w)
  <2>1. CASE hits = {}
    BY <2>1
  <2>2. CASE hits # {}
    <3> DEFINE m == Min(hits)
    <3>1. hits \in SUBSET Nat
      BY <1>3
    <3>2. m \in hits /\ \A k \in hits : m <= k
      <4> HIDE DEF hits
      <4> QED BY <2>2, <3>1, Least
    <3>3. r = m
      BY <2>2
    <3> HIDE DEF m, r
    <3>4. m \in Nat /\ m <= Len(s) /\ Matches(s, m, w)
      BY <1>3, <3>2
    <3>5. \A j \in 0..(m - 1) : j \in 0..Len(s) /\ ~(m <= j)
      BY <1>3, <3>4
    <3>6. \A j \in 0..(m - 1) : ~Matches(s, j, w)
      BY <3>2, <3>5
    <3> QED BY <3>3, <3>4, <3>6 DEF FirstAt
  <2> QED BY <2>1, <2>2
<1>5. Answer(r)
  BY Zenon DEF IndexOf
<1> HIDE DEF r
<1>6. CutRight(fn, args, r)
  BY <1>2, <1>4 DEF CutRight
<1>7. PiecesRight(fn, args, matches, r)
  BY <1>2 DEF PiecesRight
<1> QED BY <1>1, <1>5, <1>6, <1>7, AnswerKeeps

LEMMA TrimKeeps ==
  ASSUME StringInv, Trim
  PROVE  StringInv'
<1> DEFINE s     == args[1]
           A     == {k \in 0..Len(s) : k = Len(s) \/ s[k + 1] \notin Space}
           first == Min(A)
           B     == {k \in first..Len(s) : k = first \/ s[k] \notin Space}
           end   == Max(B)
           r     == Chars(s, first, end - first)
<1>1. Called("trim")
  BY DEF Trim
<1>2. fn = "trim" /\ s \in Strings
  BY <1>1, CalledTyped DEF ArgsOf
<1>3. s \in Seq(Char)
  BY <1>2, StringTyped
<1>4. Answer(r)
  BY Zenon DEF Trim
<1>5. TrimPlaces(s, first, end)
  BY <1>3, TrimFinds
<1> HIDE DEF first, end
<1>6. Trimmed(s, r)
  BY <1>2, <1>5, TrimExact
<1> HIDE DEF r
<1>7. CutRight(fn, args, r)
  BY <1>2, <1>6 DEF CutRight, Trimmed
<1>8. PiecesRight(fn, args, matches, r)
  BY <1>2 DEF PiecesRight
<1> QED BY <1>1, <1>4, <1>7, <1>8, AnswerKeeps

LEMMA ReplaceKeeps ==
  ASSUME StringInv, Replace
  PROVE  StringInv'
<1> DEFINE s == args[1]
           sep == args[2]
<1>1. Called("replace") /\ phase = "ready"
  BY DEF Replace, Called
<1>2. fn = "replace" /\ Given /\ s \in Strings /\ sep \in Strings /\ args[3] \in Strings
  BY <1>1, CalledTyped DEF ArgsOf
<1>3. CASE sep = <<>>
  <2>1. Answer(s)
    BY <1>3 DEF Replace
  <2>2. CutRight(fn, args, s)
    BY <1>2 DEF CutRight
  <2>3. PiecesRight(fn, args, matches, s)
    BY <1>2, <1>3 DEF PiecesRight
  <2> QED BY <1>1, <2>1, <2>2, <2>3, AnswerKeeps
<1>4. CASE sep # <<>>
  <2>1. /\ phase' = "count" /\ result' = result /\ fn' = fn /\ args' = args
        /\ at' = at /\ start' = start /\ matches' = matches /\ out' = out
    BY <1>4 DEF Replace, Loop, inputs
  <2>2. at = 0 /\ matches = 0 /\ out = <<>>
    BY <1>1 DEF StringInv, Start
  <2>3. Sought(s, sep)
    BY <1>2, <1>4, StringTyped DEF Sought
  <2>4. Counting(s, sep, 0, 0)
    <3>1. sep \in Seq(Char)
      BY <1>2, StringTyped
    <3> HIDE DEF s, sep
    <3> QED BY <2>3, <3>1, LoopsStart
  <2>5. CountLoop'
    BY <1>2, <1>4, <2>1, <2>2, <2>4 DEF CountLoop
  <2>6. Fixed' /\ Checked'
    BY <1>2, <2>1 DEF StringInv, Fixed, Checked, Given
  <2>7. Start' /\ WriteLoop' /\ SplitLoop' /\ AnswerRight'
    BY <2>1 DEF Start, WriteLoop, SplitLoop, AnswerRight
  <2> QED BY <2>5, <2>6, <2>7 DEF StringInv
<1> QED BY <1>3, <1>4

\* What the loops work on.
LEMMA LoopTyped ==
  ASSUME StringInv, phase \in {"count", "write", "split"}
  PROVE  /\ Given /\ Sought(args[1], args[2])
         /\ fn = "replace" => args[3] \in Seq(Char)
<1>1. Given /\ ArgsOf(fn, args)
  BY ArgumentsTyped DEF StringInv, Fixed, Checked
<1>2. args[2] # <<>> /\ fn \in {"replace", "split"}
  BY DEF StringInv, CountLoop, WriteLoop, SplitLoop
<1>3. args[1] \in Strings /\ args[2] \in Strings /\ (fn = "replace" => args[3] \in Strings)
  BY <1>1, <1>2 DEF ArgsOf
<1> QED BY <1>1, <1>2, <1>3, StringTyped DEF Sought

LEMMA CountKeeps ==
  ASSUME StringInv, Count
  PROVE  StringInv'
<1> DEFINE s == args[1]
           sep == args[2]
           hit == Matches(s, at, sep)
<1>1. /\ phase = "count" /\ fn' = fn /\ args' = args
      /\ start' = start /\ out' = out /\ result' = result
  BY DEF Count, inputs
<1>2. fn = "replace" /\ sep # <<>> /\ out = <<>> /\ Counting(s, sep, at, matches)
  BY <1>1 DEF StringInv, CountLoop
<1>3. Given /\ Sought(s, sep) /\ args[3] \in Seq(Char)
  BY <1>1, <1>2, LoopTyped
<1>4. Fixed' /\ Checked'
  BY <1>1, <1>3 DEF StringInv, Fixed, Checked, Given
<1>5. /\ hit => Counting(s, sep, at + Len(sep), matches + 1)
      /\ at <= Len(s) - Len(sep) /\ ~hit => Counting(s, sep, at + 1, matches)
      /\ ~(at <= Len(s) - Len(sep)) => matches + 1 = Len(PiecesOf(s, sep))
  <2> HIDE DEF s, sep
  <2> QED BY <1>2, <1>3, CountTurn
<1>6. CASE at <= Len(s) - Len(sep)
  <2>1. /\ at' = at + (IF hit THEN Len(sep) ELSE 1)
        /\ matches' = matches + (IF hit THEN 1 ELSE 0) /\ phase' = "count"
    BY <1>1, <1>6 DEF Count, Stride
  <2>2. matches + 0 = matches
    BY <1>2 DEF Counting
  <2>3. Counting(s, sep, at', matches')
    BY <1>5, <1>6, <2>1, <2>2
  <2>4. CountLoop'
    BY <1>1, <1>2, <2>3 DEF CountLoop
  <2>5. Start' /\ WriteLoop' /\ SplitLoop' /\ AnswerRight'
    BY <2>1 DEF Start, WriteLoop, SplitLoop, AnswerRight
  <2> QED BY <1>4, <2>4, <2>5 DEF StringInv
<1>7. CASE ~(at <= Len(s) - Len(sep))
  <2>1. phase' = "write" /\ at' = 0 /\ matches' = matches
    BY <1>7 DEF Count
  <2>2. Writing(s, sep, args[3], 0, <<>>)
    <3> HIDE DEF s, sep
    <3> QED BY <1>3, LoopsStart
  <2>3. WriteLoop'
    BY <1>1, <1>2, <1>5, <1>7, <2>1, <2>2 DEF WriteLoop, Counting
  <2>4. Start' /\ CountLoop' /\ SplitLoop' /\ AnswerRight'
    BY <2>1 DEF Start, CountLoop, SplitLoop, AnswerRight
  <2> QED BY <1>4, <2>3, <2>4 DEF StringInv
<1> QED BY <1>6, <1>7

LEMMA WriteKeeps ==
  ASSUME StringInv, Write
  PROVE  StringInv'
<1> DEFINE s == args[1]
           sep == args[2]
           new == args[3]
           hit == Matches(s, at, sep)
<1>1. /\ phase = "write" /\ fn' = fn /\ args' = args
      /\ start' = start /\ matches' = matches
  BY DEF Write, inputs
<1>2. /\ fn = "replace" /\ sep # <<>> /\ Writing(s, sep, new, at, out)
      /\ matches \in Nat /\ matches + 1 = Len(PiecesOf(s, sep))
  BY <1>1 DEF StringInv, WriteLoop
<1>3. Given /\ Sought(s, sep) /\ new \in Seq(Char)
  BY <1>1, <1>2, LoopTyped
<1>4. Fixed' /\ Checked'
  BY <1>1, <1>3 DEF StringInv, Fixed, Checked, Given
<1>5. CASE at < Len(s)
  <2>1. /\ out' = out \o (IF hit THEN new ELSE Chars(s, at, 1))
        /\ at' = at + (IF hit THEN Len(sep) ELSE 1) /\ phase' = "write"
    BY <1>1, <1>5 DEF Write
  <2>2. Writing(s, sep, new, at', out')
    <3>1. CASE hit
      <4>1. Writing(s, sep, new, at + Len(sep), out \o new)
        <5>1. Matches(s, at, sep)
          BY <3>1
        <5> HIDE DEF s, sep, new
        <5> QED BY <1>2, <1>3, <5>1, WriteHit
      <4> QED BY <2>1, <3>1, <4>1
    <3>2. CASE ~hit
      <4>1. Writing(s, sep, new, at + 1, out \o Chars(s, at, 1))
        <5>1. ~Matches(s, at, sep) /\ at < Len(s)
          BY <1>5, <3>2
        <5> HIDE DEF s, sep, new
        <5> QED BY <1>2, <1>3, <5>1, WriteMiss
      <4> QED BY <2>1, <3>2, <4>1
    <3> QED BY <3>1, <3>2
  <2>3. WriteLoop'
    BY <1>1, <1>2, <2>2 DEF WriteLoop
  <2>4. Start' /\ CountLoop' /\ SplitLoop' /\ AnswerRight'
    BY <2>1 DEF Start, CountLoop, SplitLoop, AnswerRight
  <2> QED BY <1>4, <2>3, <2>4 DEF StringInv
<1>6. CASE ~(at < Len(s))
  <2>1. phase' = "done" /\ result' = out
    BY <1>6 DEF Write
  <2>2. out = Joined(PiecesOf(s, sep), new)
    <3>1. ~(at < Len(s))
      BY <1>6
    <3> HIDE DEF s, sep, new
    <3> QED BY <1>2, <1>3, <3>1, WriteEnds
  <2>3. PiecesRight(fn, args, matches, out)
    BY <1>2, <2>2 DEF PiecesRight
  <2>4. CutRight(fn, args, out)
    BY <1>2 DEF CutRight
  <2>5. AnswerRight'
    BY <1>1, <2>1, <2>3, <2>4 DEF AnswerRight
  <2>6. Start' /\ CountLoop' /\ WriteLoop' /\ SplitLoop'
    BY <2>1 DEF Start, CountLoop, WriteLoop, SplitLoop
  <2> QED BY <1>4, <2>5, <2>6 DEF StringInv
<1> QED BY <1>5, <1>6

LEMMA SplitKeeps ==
  ASSUME StringInv, Split
  PROVE  StringInv'
<1> DEFINE s == args[1]
           sep == args[2]
<1>1. Called("split") /\ phase = "ready"
  BY DEF Split, Called
<1>2. fn = "split" /\ Given /\ s \in Strings /\ sep \in Strings
  BY <1>1, CalledTyped DEF ArgsOf
<1>3. CASE sep = <<>>
  <2> DEFINE r == [k \in DOMAIN s |-> <<s[k]>>]
  <2>1. Answer(r)
    BY <1>3 DEF Split
  <2>2. Joined(r, <<>>) = s /\ \A k \in DOMAIN r : Len(r[k]) = 1
    <3>1. s \in Seq(Char)
      BY <1>2, StringTyped
    <3> HIDE DEF s
    <3> QED BY <3>1, JoinedCharacters
  <2> HIDE DEF r
  <2>3. CutRight(fn, args, r)
    BY <1>2 DEF CutRight
  <2>4. PiecesRight(fn, args, matches, r)
    BY <1>2, <1>3, <2>2 DEF PiecesRight
  <2> QED BY <1>1, <2>1, <2>3, <2>4, AnswerKeeps
<1>4. CASE sep # <<>>
  <2>1. /\ phase' = "split" /\ result' = result /\ fn' = fn /\ args' = args
        /\ at' = at /\ start' = start /\ matches' = matches /\ out' = out
    BY <1>4 DEF Split, Loop, inputs
  <2>2. at = 0 /\ start = 0 /\ out = <<>>
    BY <1>1 DEF StringInv, Start
  <2>3. Sought(s, sep)
    BY <1>2, <1>4, StringTyped DEF Sought
  <2>4. Splitting(s, sep, 0, 0, <<>>)
    <3>1. sep \in Seq(Char)
      BY <1>2, StringTyped
    <3> HIDE DEF s, sep
    <3> QED BY <2>3, <3>1, LoopsStart
  <2>5. SplitLoop'
    BY <1>2, <1>4, <2>1, <2>2, <2>4 DEF SplitLoop
  <2>6. Fixed' /\ Checked'
    BY <1>2, <2>1 DEF StringInv, Fixed, Checked, Given
  <2>7. Start' /\ WriteLoop' /\ CountLoop' /\ AnswerRight'
    BY <2>1 DEF Start, WriteLoop, CountLoop, AnswerRight
  <2> QED BY <2>5, <2>6, <2>7 DEF StringInv
<1> QED BY <1>3, <1>4

LEMMA SplitNextKeeps ==
  ASSUME StringInv, SplitNext
  PROVE  StringInv'
<1> DEFINE s == args[1]
           sep == args[2]
           hit == Matches(s, at, sep)
           next == at + (IF hit THEN Len(sep) ELSE 1)
<1>1. phase = "split" /\ fn' = fn /\ args' = args /\ matches' = matches
  BY DEF SplitNext, inputs
<1>2. fn = "split" /\ sep # <<>> /\ Splitting(s, sep, at, start, out)
  BY <1>1 DEF StringInv, SplitLoop
<1>3. Given /\ Sought(s, sep)
  BY <1>1, LoopTyped
<1>4. Fixed' /\ Checked'
  BY <1>1, <1>3 DEF StringInv, Fixed, Checked, Given
<1>5. /\ hit => Splitting(s, sep, at + Len(sep), at + Len(sep), Append(out, Chars(s, start, at - start)))
      /\ at <= Len(s) - Len(sep) /\ ~hit => Splitting(s, sep, at + 1, start, out)
      /\ ~(at <= Len(s) - Len(sep)) => Append(out, Chars(s, start, Len(s) - start)) = PiecesOf(s, sep)
  <2> HIDE DEF s, sep
  <2> QED BY <1>2, <1>3, SplitTurn
<1>6. CASE at <= Len(s) - Len(sep)
  <2>1. /\ at' = next /\ start' = (IF hit THEN next ELSE start) /\ phase' = "split"
        /\ out' = IF hit THEN Append(out, Chars(s, start, at - start)) ELSE out
    BY <1>1, <1>6 DEF SplitNext
  <2>2. Splitting(s, sep, at', start', out')
    BY <1>5, <1>6, <2>1
  <2>3. SplitLoop'
    BY <1>1, <1>2, <2>2 DEF SplitLoop
  <2>4. Start' /\ CountLoop' /\ WriteLoop' /\ AnswerRight'
    BY <2>1 DEF Start, CountLoop, WriteLoop, AnswerRight
  <2> QED BY <1>4, <2>3, <2>4 DEF StringInv
<1>7. CASE ~(at <= Len(s) - Len(sep))
  <2> DEFINE r == Append(out, Chars(s, start, Len(s) - start))
  <2>1. phase' = "done" /\ result' = r
    BY <1>7 DEF SplitNext
  <2>2. r = PiecesOf(s, sep)
    BY <1>5, <1>7
  <2>3. Joined(PiecesOf(s, sep), sep) = s
    <3> HIDE DEF s, sep
    <3>1. s \in Seq(Char) /\ Len(s) \in Nat /\ 0 \in 0..Len(s) /\ 0 + 1 = 1
      BY <1>3 DEF Sought
    <3>2. PiecesOf(s, sep) = Pieces(s, sep)[0]
      BY <1>3, PiecesStep
    <3>3. Joined(Pieces(s, sep)[0], sep) = SubSeq(s, 0 + 1, Len(s))
      BY <1>3, <3>1, JoinedBack
    <3>4. SubSeq(s, 1, Len(s)) = s
      BY <3>1, SubSeqFull
    <3> QED BY <3>1, <3>2, <3>3, <3>4
  <2> HIDE DEF r
  <2>4. PiecesRight(fn, args, matches, r)
    BY <1>2, <2>2, <2>3 DEF PiecesRight
  <2>5. CutRight(fn, args, r)
    BY <1>2 DEF CutRight
  <2>6. AnswerRight'
    BY <1>1, <2>1, <2>4, <2>5 DEF AnswerRight
  <2>7. Start' /\ CountLoop' /\ WriteLoop' /\ SplitLoop'
    BY <2>1 DEF Start, CountLoop, WriteLoop, SplitLoop
  <2> QED BY <1>4, <2>6, <2>7 DEF StringInv
<1> QED BY <1>6, <1>7

LEMMA RefusalKeeps ==
  ASSUME StringInv, WrongArgument
  PROVE  StringInv'
<1>1. /\ phase' = "failed" /\ fn' = fn /\ args' = args
  BY DEF WrongArgument, inputs
<1>2. Fixed'
  BY <1>1 DEF StringInv, Fixed
<1>3. Start' /\ Checked' /\ CountLoop' /\ WriteLoop' /\ SplitLoop' /\ AnswerRight'
  BY <1>1 DEF Start, Checked, CountLoop, WriteLoop, SplitLoop, AnswerRight
<1> QED BY <1>2, <1>3 DEF StringInv

LEMMA IdleStringKeeps ==
  ASSUME StringInv, UNCHANGED vars
  PROVE  StringInv'
<1>1. /\ phase' = phase /\ result' = result /\ fn' = fn /\ args' = args
      /\ at' = at /\ start' = start /\ matches' = matches /\ out' = out
  BY DEF vars
<1>2. Fixed' /\ Start' /\ Checked'
  BY <1>1 DEF StringInv, Fixed, Start, Checked, Given
<1>3. CountLoop' /\ WriteLoop' /\ SplitLoop'
  BY <1>1 DEF StringInv, CountLoop, WriteLoop, SplitLoop
<1>4. AnswerRight'
  BY <1>1 DEF StringInv, AnswerRight
<1> QED BY <1>2, <1>3, <1>4 DEF StringInv

LEMMA StringInvAlways == Spec => []StringInv
<1>1. Init => StringInv
  BY StringStarts
<1>2. StringInv /\ [Next]_vars => StringInv'
  <2> SUFFICES ASSUME StringInv, [Next]_vars
               PROVE  StringInv'
    OBVIOUS
  <2>1. CASE WrongArgument
    BY <2>1, RefusalKeeps
  <2>2. CASE Substr
    BY <2>2, SubstrKeeps
  <2>3. CASE CharAt
    BY <2>3, CharAtKeeps
  <2>4. CASE IndexOf
    BY <2>4, IndexOfKeeps
  <2>5. CASE Trim
    BY <2>5, TrimKeeps
  <2>6. CASE Replace
    BY <2>6, ReplaceKeeps
  <2>7. CASE Count
    BY <2>7, CountKeeps
  <2>8. CASE Write
    BY <2>8, WriteKeeps
  <2>9. CASE Split
    BY <2>9, SplitKeeps
  <2>10. CASE SplitNext
    BY <2>10, SplitNextKeeps
  <2>11. CASE UNCHANGED vars
    BY <2>11, IdleStringKeeps
  <2> QED BY <2>1, <2>2, <2>3, <2>4, <2>5, <2>6, <2>7, <2>8, <2>9, <2>10, <2>11 DEF Next
<1> QED BY <1>1, <1>2, PTL DEF Spec
-----------------------------------------------------------------------------
(* Every function that cuts a string answers with the piece it promises,   *)
(* whatever the string and the numbers: substr clamps both ends, charAt    *)
(* and indexOf stay inside, trim takes all the blanks off and no more      *)
(* (builtins.c:152-216).                                                   *)
THEOREM CutsAlways == Spec => []CutsExact
<1>1. StringInv => CutsExact
  BY DEF StringInv, AnswerRight, CutRight, CutsExact
<1> QED BY <1>1, StringInvAlways, PTL

\* The buffer has the room the pieces joined by the new text need.
RoomFor(s, sep, new, m) == Max({0, Len(s) + m * (Len(new) - Len(sep))})

LEMMA RoomEnough ==
  ASSUME NEW s, NEW sep, Sought(s, sep), NEW new \in Seq(Char), NEW m,
         m + 1 = Len(PiecesOf(s, sep)), m \in Nat
  PROVE  Len(Joined(PiecesOf(s, sep), new)) = RoomFor(s, sep, new, m)
<1> DEFINE zero == 0
           P == PiecesOf(s, sep)
           d == Len(new) - Len(sep)
           room == Len(s) + m * d
<1>1. Len(s) \in Nat /\ 0 \in 0..Len(s) /\ d \in Int
  BY DEF Sought
<1>2. P = Pieces(s, sep)[zero] /\ zero \in 0..Len(s)
  BY <1>1, PiecesStep
<1> HIDE DEF zero
<1>3. Len(Joined(P, new)) = (Len(s) - zero) + (Len(P) - 1) * d
  <2>1. Len(Joined(Pieces(s, sep)[zero], new))
           = (Len(s) - zero) + (Len(Pieces(s, sep)[zero]) - 1) * (Len(new) - Len(sep))
    BY <1>2, JoinedLength, Zenon
  <2> QED BY <1>2, <2>1
<1>4. Joined(P, new) \in Seq(Char)
  BY LoopsStart
<1>5. Len(P) - 1 = m /\ Len(s) - zero = Len(s)
  BY <1>1 DEF zero
<1>6. Len(Joined(P, new)) = room /\ Len(Joined(P, new)) \in Nat
  <2> HIDE DEF P, d
  <2> QED BY <1>3, <1>4, <1>5
<1> HIDE DEF room, P
<1>7. Max({0, room}) = IF 0 >= room THEN 0 ELSE room
  <2>1. room \in Int
    BY <1>6
  <2> QED BY <2>1, OfTwo
<1>8. Len(Joined(P, new)) = Max({0, room})
  BY <1>6, <1>7
<1> QED BY <1>8 DEF room, P, RoomFor

(* split gives the pieces between the occurrences of the separator, first  *)
(* ones first, and joined again they are the string (vm.c:589); replace    *)
(* gives the same pieces joined by the new text, which is as long as its   *)
(* first loop has counted, and its second loop never writes more           *)
(* (builtins.c:233, 246).                                                  *)
THEOREM ReplaceAlways == Spec => []ReplaceIsSplitAndJoin
<1>1. ASSUME StringInv
      PROVE  ReplaceIsSplitAndJoin
  <2> DEFINE s == args[1]
             sep == args[2]
  <2>1. ASSUME fn = "split", phase = "done"
        PROVE  /\ Joined(result, sep) = s
               /\ IF sep = <<>> THEN \A k \in DOMAIN result : Len(result[k]) = 1
                  ELSE result = PiecesOf(s, sep)
    <3>1. PiecesRight(fn, args, matches, result)
      BY <1>1, <2>1 DEF StringInv, AnswerRight
    <3> QED BY <2>1, <3>1 DEF PiecesRight
  <2>2. ASSUME phase = "write"
        PROVE  Len(out) <= Room
    <3>1. Sought(s, sep)
      BY <1>1, <2>2, LoopTyped
    <3>2. /\ fn = "replace" /\ Writing(s, sep, args[3], at, out)
          /\ matches \in Nat /\ matches + 1 = Len(PiecesOf(s, sep))
      BY <1>1, <2>2 DEF StringInv, WriteLoop
    <3>3. args[3] \in Seq(Char)
      BY <1>1, <2>2, <3>2, LoopTyped
    <3>4. Len(out) <= Len(Joined(PiecesOf(s, sep), args[3]))
      <4> HIDE DEF s, sep
      <4> QED BY <3>1, <3>2, <3>3, WriteFits
    <3>5. Len(Joined(PiecesOf(s, sep), args[3])) = Room
      <4>1. Len(Joined(PiecesOf(s, sep), args[3])) = RoomFor(s, sep, args[3], matches)
        <5> HIDE DEF s, sep
        <5> QED BY <3>1, <3>2, <3>3, RoomEnough
      <4> QED BY <4>1 DEF Room, RoomFor
    <3> QED BY <3>4, <3>5
  <2>3. ASSUME fn = "replace", phase = "done", sep # <<>>
        PROVE  result = Joined(PiecesOf(s, sep), args[3]) /\ Len(result) = Room
    <3>1. /\ result = Joined(PiecesOf(s, sep), args[3])
          /\ matches \in Nat /\ matches + 1 = Len(PiecesOf(s, sep))
      BY <1>1, <2>3 DEF StringInv, AnswerRight, PiecesRight
    <3>2. ArgsOf(fn, args)
      BY <1>1, <2>3, ArgumentsTyped DEF StringInv, Fixed, Checked
    <3>3. Sought(s, sep) /\ args[3] \in Seq(Char)
      BY <2>3, <3>2, StringTyped DEF ArgsOf, Sought
    <3>4. Len(Joined(PiecesOf(s, sep), args[3])) = RoomFor(s, sep, args[3], matches)
      <4> HIDE DEF s, sep
      <4> QED BY <3>1, <3>3, RoomEnough
    <3> QED BY <3>1, <3>4 DEF Room, RoomFor
  <2> QED BY <2>1, <2>2, <2>3 DEF ReplaceIsSplitAndJoin
<1> QED BY <1>1, StringInvAlways, PTL
=============================================================================
