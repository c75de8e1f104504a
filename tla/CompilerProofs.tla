--------------------------- MODULE CompilerProofs ---------------------------
(***************************************************************************)
(* Proofs about Compiler, as far as Control needs it: while no operand is  *)
(* cut, each step of the compiler leaves code that can be typed (Typing),  *)
(* with the jumps still to be patched as its only holes, and the program   *)
(* it ends with has none.                                                  *)
(***************************************************************************)
EXTENDS Typing, SequenceTheorems, WellFoundedInduction, TLAPS

\* A prefix of a sequence.
LEMMA PrefixRefl == ASSUME NEW s PROVE Prefix(s, s)
BY DEF Prefix

LEMMA PrefixTrans ==
  ASSUME NEW r \in Seq(Nat), NEW s \in Seq(Nat), NEW t \in Seq(Nat), Prefix(r, s), Prefix(s, t)
  PROVE  Prefix(r, t)
BY DEF Prefix

LEMMA PrefixEmpty == ASSUME NEW s \in Seq(Nat) PROVE Prefix(<<>>, s) /\ (Prefix(s, <<>>) => s = <<>>)
BY DEF Prefix

LEMMA Appended ==
  ASSUME NEW S, NEW s \in Seq(S), NEW x \in S
  PROVE  /\ Append(s, x) \in Seq(S) /\ Len(Append(s, x)) = Len(s) + 1 /\ Append(s, x)[Len(s) + 1] = x
         /\ Append(s, x) # <<>> /\ \A i \in 1..Len(s) : Append(s, x)[i] = s[i]
OBVIOUS

LEMMA PrefixAppend == ASSUME NEW s \in Seq(Nat), NEW x \in Nat PROVE Prefix(s, Append(s, x))
BY DEF Prefix

LEMMA PrefixSame ==
  ASSUME NEW s \in Seq(Nat), NEW t \in Seq(Nat), Prefix(s, t), Len(s) = Len(t)
  PROVE  s = t
<1>1. \A i \in 1..Len(s) : s[i] = t[i]
  BY DEF Prefix
<1> QED BY <1>1, SeqEqual

LEMMA PrefixCut ==
  ASSUME NEW s \in Seq(Nat), NEW t \in Seq(Nat), Prefix(s, t)
  PROVE  SubSeq(t, 1, Len(s)) = s
<1>1. Len(s) \in Nat /\ Len(t) \in Nat /\ Len(s) <= Len(t)
  BY DEF Prefix
<1>2. SubSeq(t, 1, Len(s)) \in Seq(Nat) /\ Len(SubSeq(t, 1, Len(s))) = Len(s)
  BY <1>1
<1>3. \A i \in 1..Len(s) : SubSeq(t, 1, Len(s))[i] = s[i]
  BY <1>1 DEF Prefix
<1> QED BY <1>2, <1>3, SeqEqual
-----------------------------------------------------------------------------
\* Code only grows, and what is typed stays typed.
LEMMA GrownRefl == ASSUME NEW c \in Seq(Instr), NEW A PROVE Grown(c, A, c, A)
BY DEF Grown

LEMMA GrownTrans ==
  ASSUME NEW c \in Seq(Instr), NEW d \in Seq(Instr), NEW e \in Seq(Instr), NEW A, NEW B, NEW C,
         Grown(c, A, d, B), Grown(d, B, e, C)
  PROVE  Grown(c, A, e, C)
BY DEF Grown

LEMMA NestsKept ==
  ASSUME NEW c \in Seq(Instr), NEW d \in Seq(Instr), NEW A, NEW B, NEW s \in Shape,
         Grown(c, A, d, B), Nests(c, A, s)
  PROVE  Nests(d, B, s)
<1>1. ASSUME NEW i \in 1..Len(s.tries), NEW t, t = s.tries[i]
      PROVE  /\ t \in 1..Len(d) /\ d[t].op = "TRY_BEGIN"
             /\ B[t].tries = SubSeq(s.tries, 1, i - 1)
             /\ Prefix(B[t].vars, s.vars)
             /\ B[t].func = s.func
  <2>1. /\ t \in 1..Len(c) /\ c[t].op = "TRY_BEGIN"
        /\ A[t].tries = SubSeq(s.tries, 1, i - 1)
        /\ Prefix(A[t].vars, s.vars)
        /\ A[t].func = s.func
    BY <1>1 DEF Nests
  <2>2. d[t].op = c[t].op /\ B[t] = A[t] /\ t \in 1..Len(d)
    BY <2>1 DEF Grown
  <2> QED BY <2>1, <2>2
<1> QED BY <1>1 DEF Nests

\* The same try blocks, and no fewer variables.
LEMMA NestsMore ==
  ASSUME NEW c \in Seq(Instr), NEW A \in [Nat -> Shape], NEW s \in Shape, NEW t \in Shape,
         Nests(c, A, s), t.func = s.func, t.tries = s.tries, Prefix(s.vars, t.vars), t.func \/ t.vars = <<>>
  PROVE  Nests(c, A, t)
<1>1. ASSUME NEW i \in 1..Len(t.tries) PROVE Prefix(A[t.tries[i]].vars, t.vars)
  <2>1. t.tries[i] \in Nat /\ Prefix(A[t.tries[i]].vars, s.vars)
    <3>1. i \in 1..Len(s.tries) /\ t.tries[i] = s.tries[i]
      OBVIOUS
    <3> QED BY <3>1 DEF Nests
  <2>2. A[t.tries[i]].vars \in Seq(Nat) /\ s.vars \in Seq(Nat) /\ t.vars \in Seq(Nat)
    BY <2>1 DEF Shape
  <2> QED BY <2>1, <2>2, PrefixTrans
<1> QED BY <1>1 DEF Nests

\* The outer ones of its try blocks.
LEMMA NestsFewer ==
  ASSUME NEW c \in Seq(Instr), NEW A \in [Nat -> Shape], NEW s \in Shape, NEW t \in Shape,
         Nests(c, A, s), NEW m \in 0..Len(s.tries),
         t.func = s.func, t.tries = SubSeq(s.tries, 1, m), t.vars = s.vars
  PROVE  Nests(c, A, t)
<1>1. Len(t.tries) = m /\ s.tries \in Seq(Nat)
  BY DEF Shape
<1>2. ASSUME NEW i \in 1..m PROVE t.tries[i] = s.tries[i] /\ SubSeq(t.tries, 1, i - 1) = SubSeq(s.tries, 1, i - 1)
  <2>1. t.tries[i] = s.tries[i]
    BY <1>1
  <2>2. SubSeq(t.tries, 1, i - 1) = SubSeq(s.tries, 1, i - 1)
    BY <1>1
  <2> QED BY <2>1, <2>2
<1>3. ASSUME NEW i \in 1..Len(t.tries)
      PROVE  /\ t.tries[i] \in 1..Len(c) /\ c[t.tries[i]].op = "TRY_BEGIN"
             /\ A[t.tries[i]].tries = SubSeq(t.tries, 1, i - 1)
             /\ Prefix(A[t.tries[i]].vars, t.vars)
             /\ A[t.tries[i]].func = t.func
  <2>1. i \in 1..m /\ i \in 1..Len(s.tries)
    BY <1>1
  <2> QED BY <1>2, <2>1 DEF Nests
<1>4. t.func \/ t.vars = <<>>
  BY DEF Nests
<1> QED BY <1>3, <1>4 DEF Nests

\* One more instruction.
LEMMA EmitGrows ==
  ASSUME NEW c \in Seq(Instr), NEW A \in [Nat -> Shape], NEW i \in Instr, NEW s \in Shape
  PROVE  /\ Append(c, i) \in Seq(Instr) /\ Known(A, Len(c) + 2, s) \in [Nat -> Shape]
         /\ Len(Append(c, i)) = Len(c) + 1
         /\ Grown(c, A, Append(c, i), Known(A, Len(c) + 2, s))
         /\ Known(A, Len(c) + 2, s)[Len(c) + 2] = s
         /\ \A p \in 1..(Len(c) + 1) : Known(A, Len(c) + 2, s)[p] = A[p]
BY DEF Grown, Known

LEMMA EmitKeepsWorks ==
  ASSUME NEW c \in Seq(Instr), NEW A \in [Nat -> Shape], NEW i \in Instr, NEW s \in Shape, NEW holes,
         Emittable(c, A, holes, i, s), NEW p \in 1..(Len(c) + 1), p <= Len(c) => Works(c, A, p)
  PROVE  Works(Append(c, i), Known(A, Len(c) + 2, s), p)
<1>1. CASE p <= Len(c)
  <2>1. Append(c, i)[p] = c[p] /\ (p > 1 => Append(c, i)[p - 1] = c[p - 1])
    BY <1>1
  <2>2. Known(A, Len(c) + 2, s)[p] = A[p] /\ Known(A, Len(c) + 2, s)[p + 1] = A[p + 1]
    BY <1>1 DEF Known
  <2> QED BY <1>1, <2>1, <2>2 DEF Works
<1>2. CASE p = Len(c) + 1
  <2>1. Append(c, i)[p] = i /\ (p > 1 => Append(c, i)[p - 1] = c[p - 1])
    BY <1>2
  <2>2. Known(A, Len(c) + 2, s)[p] = A[p] /\ Known(A, Len(c) + 2, s)[p + 1] = s
    BY <1>2 DEF Known
  <2> QED BY <1>2, <2>1, <2>2 DEF Works, Emittable
<1> QED BY <1>1, <1>2

LEMMA EmitKeepsLands ==
  ASSUME NEW c \in Seq(Instr), NEW A \in [Nat -> Shape], NEW i \in Instr, NEW s \in Shape, NEW holes,
         Emittable(c, A, holes, i, s), NEW p \in 1..(Len(c) + 1),
         p <= Len(c) => p \in holes \/ Lands(c, A, p, Len(c) + 1)
  PROVE  p \in holes \/ Lands(Append(c, i), Known(A, Len(c) + 2, s), p, Len(c) + 2)
<1>1. CASE p <= Len(c)
  <2>1. Append(c, i)[p] = c[p] /\ c[p] \in Instr
    BY <1>1
  <2>2. \A q \in 1..(Len(c) + 1) : Known(A, Len(c) + 2, s)[q] = A[q]
    BY DEF Known
  <2>3. PICK x \in Instr, n \in Int : x = c[p] /\ n = p + 1 + x.n
    <3>1. c[p].n \in Int /\ p \in Int
      BY <2>1 DEF Instr
    <3> QED BY <2>1, <3>1
  <2>4. CASE p \in holes
    BY <2>4
  <2>5. CASE Lands(c, A, p, Len(c) + 1)
    <3>1. x.op \in Branching => n \in 1..(Len(c) + 1) /\ Taken(x.op, A[p], A[n])
      BY <2>3, <2>5 DEF Lands
    <3>2. x.op = "CALL" => x.n \in 1..Len(c) /\ A[x.n] = EntryShape
      BY <2>3, <2>5 DEF Lands
    <3>3. PICK d, K : d = Append(c, i) /\ K = Known(A, Len(c) + 2, s)
      OBVIOUS
    <3>4. d[p] = x /\ Len(d) = Len(c) + 1 /\ K[p] = A[p]
      BY <2>1, <2>2, <2>3, <3>3
    <3>5. x.op \in Branching => n \in 1..(Len(c) + 2) /\ Taken(x.op, K[p], K[n])
      BY <2>2, <3>1, <3>3, <3>4
    <3>6. x.op = "CALL" => x.n \in 1..Len(d) /\ K[x.n] = EntryShape
      BY <2>2, <3>2, <3>3, <3>4
    <3>7. Lands(d, K, p, Len(c) + 2)
      BY ONLY <2>3, <3>4, <3>5, <3>6 DEF Lands
    <3> QED BY <3>3, <3>7
  <2> QED BY <1>1, <2>4, <2>5
<1>2. CASE p = Len(c) + 1
  <2>1. Append(c, i)[p] = i /\ i.n \in Int
    BY <1>2 DEF Instr
  <2>2. \A q \in 1..(Len(c) + 1) : Known(A, Len(c) + 2, s)[q] = A[q]
    BY DEF Known
  <2> QED BY <1>2, <2>1, <2>2 DEF Lands, Emittable
<1> QED BY <1>1, <1>2

\* Sound code stays sound with an instruction that may come next.
LEMMA EmitSound ==
  ASSUME NEW c, NEW A, NEW holes, NEW more, NEW i \in Instr, NEW s \in Shape,
         Sound(c, A, holes, Len(c) + 1), holes \subseteq more, Emittable(c, A, more, i, s),
         Nests(Append(c, i), Known(A, Len(c) + 2, s), s)
  PROVE  Sound(Append(c, i), Known(A, Len(c) + 2, s), more, Len(c) + 2)
<1> DEFINE d == Append(c, i)
           B == Known(A, Len(c) + 2, s)
<1>1. c \in Seq(Instr) /\ A \in [Nat -> Shape]
  BY DEF Sound
<1>2. d \in Seq(Instr) /\ B \in [Nat -> Shape] /\ Len(d) = Len(c) + 1 /\ Grown(c, A, d, B)
  BY <1>1, EmitGrows
<1>3. \A p \in 1..(Len(c) + 1) : Works(d, B, p)
  BY <1>1, EmitKeepsWorks DEF Sound
<1>4. \A p \in 1..(Len(c) + 1) : p \in more \/ Lands(d, B, p, Len(c) + 2)
  BY <1>1, EmitKeepsLands DEF Sound
<1>7. /\ B[Len(c) + 2] = s /\ Nests(d, B, s)
      /\ \A p \in 1..(Len(c) + 1) : B[p] = A[p]
  BY <1>1, EmitGrows
<1> HIDE DEF d, B
<1>5. ASSUME NEW p \in 1..(Len(c) + 2) PROVE Nests(d, B, B[p])
  <2>1. CASE p <= Len(c) + 1
    <3>1. B[p] = A[p] /\ A[p] \in Shape
      BY <1>1, <1>7, <2>1
    <3>2. Nests(c, A, A[p])
      BY <2>1 DEF Sound
    <3> QED BY <1>1, <1>2, <3>1, <3>2, NestsKept
  <2>2. CASE p = Len(c) + 2
    BY <1>7, <2>2
  <2> QED BY <1>1, <2>1, <2>2
<1>6. Sound(d, B, more, Len(c) + 2)
  BY <1>1, <1>2, <1>3, <1>4, <1>5 DEF Sound
<1> QED BY <1>6 DEF d, B

\* The usual case: no new try block.
LEMMA EmitNext ==
  ASSUME NEW c, NEW A, NEW holes, NEW more, NEW i \in Instr, NEW s \in Shape,
         Sound(c, A, holes, Len(c) + 1), holes \subseteq more, Emittable(c, A, more, i, s), Nests(c, A, s)
  PROVE  Sound(Append(c, i), Known(A, Len(c) + 2, s), more, Len(c) + 2)
<1> DEFINE d == Append(c, i)
           B == Known(A, Len(c) + 2, s)
<1>1. c \in Seq(Instr) /\ A \in [Nat -> Shape]
  BY DEF Sound
<1>2. d \in Seq(Instr) /\ Grown(c, A, d, B)
  BY <1>1, EmitGrows
<1> HIDE DEF d, B
<1>4. Nests(d, B, s)
  BY <1>1, <1>2, NestsKept
<1>3. Nests(Append(c, i), Known(A, Len(c) + 2, s), s)
  BY <1>4 DEF d, B
<1> QED BY <1>3, EmitSound

\* Operands that fit are not cut.
LEMMA SignedFits ==
  ASSUME NEW x \in Int, x < JumpMod \div 2, -x < JumpMod \div 2
  PROVE  Signed(x) = x
<1>1. JumpMod \in Nat /\ JumpMod > 1
  BY CompilerAssumption
<1>2. JumpMod \div 2 \in Nat /\ 2 * (JumpMod \div 2) <= JumpMod /\ JumpMod <= 2 * (JumpMod \div 2) + 1
  BY <1>1
<1>3. \A m \in Nat : \A y \in 0..(m - 1) : y % m = y
  OBVIOUS
<1>4. x + JumpMod \div 2 \in 0..(JumpMod - 1)
  BY <1>1, <1>2
<1> QED BY <1>1, <1>2, <1>3, <1>4 DEF Signed

LEMMA PatchShape ==
  ASSUME NEW c \in Seq(Instr), NEW A, NEW S, Len(c) < JumpMod \div 2
  PROVE  Filled(c, S, Patch(c, S)) /\ Grown(c, A, Patch(c, S), A)
<1> DEFINE d == Patch(c, S)
<1>1. JumpMod \div 2 \in Nat
  BY CompilerAssumption
<1>2. \A p \in 1..Len(c) : Signed(Len(c) - p) = Len(c) - p
  BY <1>1, SignedFits
<1>3. \A p \in 1..Len(c) : d[p] = IF p \in S THEN [c[p] EXCEPT !.n = Len(c) - p] ELSE c[p]
  BY <1>2 DEF Patch
<1>4. d = [p \in 1..Len(c) |-> d[p]] /\ DOMAIN d = 1..Len(c)
  BY DEF Patch
<1> HIDE DEF d
<1>5. ASSUME NEW p \in 1..Len(c)
      PROVE  /\ d[p] \in Instr /\ d[p].op = c[p].op /\ d[p].var = c[p].var /\ d[p].stmt = c[p].stmt
             /\ d[p].n = IF p \in S THEN Len(c) - p ELSE c[p].n
             /\ p \notin S => d[p] = c[p]
  <2>1. c[p] \in Instr /\ Len(c) - p \in Int
    OBVIOUS
  <2> QED BY <1>3, <2>1 DEF Instr
<1>6. d \in Seq(Instr) /\ Len(d) = Len(c)
  BY <1>4, <1>5
<1>7. Grown(c, A, d, A)
  BY <1>5, <1>6 DEF Grown
<1>8. Filled(c, S, d)
  BY <1>5, <1>6 DEF Filled
<1> QED BY <1>7, <1>8 DEF d

\* The holes S are filled: they lead behind the code.
LEMMA PatchSound ==
  ASSUME NEW c, NEW A, NEW holes, NEW more, NEW S, Len(c) < JumpMod \div 2,
         Sound(c, A, holes, Len(c) + 1), holes \subseteq more \cup S,
         \A p \in 1..Len(c) : p \in S => c[p].op \in Branching /\ Taken(c[p].op, A[p], A[Len(c) + 1])
  PROVE  Sound(Patch(c, S), A, more, Len(c) + 1)
<1> DEFINE d == Patch(c, S)
<1>1. c \in Seq(Instr) /\ A \in [Nat -> Shape]
  BY DEF Sound
<1>6. Filled(c, S, d) /\ Grown(c, A, d, A)
  BY <1>1, PatchShape
<1> HIDE DEF d
<1>2. /\ d \in Seq(Instr) /\ Len(d) = Len(c)
      /\ \A p \in 1..Len(c) : /\ d[p].op = c[p].op /\ d[p].var = c[p].var /\ d[p].stmt = c[p].stmt
                              /\ d[p].n = IF p \in S THEN Len(c) - p ELSE c[p].n
                              /\ p \notin S => d[p] = c[p]
  BY <1>6 DEF Filled
<1>3. ASSUME NEW p \in 1..Len(c) PROVE Works(d, A, p)
  <2>1. Works(c, A, p) /\ d[p].op = c[p].op /\ d[p].stmt = c[p].stmt
    BY <1>2 DEF Sound
  <2>2. p > 1 => d[p - 1].stmt = c[p - 1].stmt
    BY <1>2
  <2>3. CASE p \notin S
    BY <1>2, <2>1, <2>2, <2>3 DEF Works
  <2>4. CASE p \in S
    <3>1. c[p].op \in Branching /\ d[p].var = c[p].var
      BY <1>2, <2>4
    <3>2. Legal(d[p], A[p])
      BY <2>1, <3>1 DEF Works, Legal, Branching
    <3>3. Steps(c[p], p, A[p], A[p + 1]) => Steps(d[p], p, A[p], A[p + 1])
      BY <2>1, <3>1 DEF Steps, Branching, TriesAfter, VarsAfter, TempsAfter
    <3> QED BY <2>1, <2>2, <3>1, <3>2, <3>3 DEF Works
  <2> QED BY <2>3, <2>4
<1>4. ASSUME NEW p \in 1..Len(c) PROVE p \in more \/ Lands(d, A, p, Len(c) + 1)
  <2>1. CASE p \in S
    <3>1. c[p].op \in Branching /\ d[p].op = c[p].op /\ p + 1 + d[p].n = Len(c) + 1
      BY <1>1, <1>2, <2>1
    <3> QED BY <1>1, <2>1, <3>1 DEF Lands, Branching
  <2>2. CASE p \notin S
    <3>1. d[p] = c[p] /\ (p \in more \/ Lands(c, A, p, Len(c) + 1))
      BY <1>2, <2>2 DEF Sound
    <3> QED BY <1>2, <3>1 DEF Lands
  <2> QED BY <2>1, <2>2
<1>5. ASSUME NEW p \in 1..(Len(c) + 1) PROVE Nests(d, A, A[p])
  <2>1. Nests(c, A, A[p]) /\ A[p] \in Shape
    BY <1>1 DEF Sound
  <2> QED BY <1>1, <1>2, <1>6, <2>1, NestsKept
<1>7. Sound(d, A, more, Len(c) + 1)
  BY <1>1, <1>2, <1>3, <1>4, <1>5 DEF Sound
<1> QED BY <1>7 DEF d

\* Less may be known of the place behind the code.
LEMMA TakenWeaker ==
  ASSUME NEW op, NEW s \in Shape, NEW d \in Shape, NEW e \in Shape, Taken(op, s, d), Weaker(d, e)
  PROVE  Taken(op, s, e)
<1>1. Prefix(e.vars, s.vars)
  BY PrefixTrans DEF Shape, Taken, Weaker
<1> QED BY <1>1 DEF Shape, Taken, Weaker

LEMMA StepsWeaker ==
  ASSUME NEW i \in Instr, NEW p \in Nat, NEW s \in Shape, NEW d \in Shape, NEW e \in Shape, Legal(i, s),
         Steps(i, p, s, d), Weaker(d, e)
  PROVE  Steps(i, p, s, e)
<1>1. VarsAfter(i, s) \in Seq(Nat)
  BY DEF Shape, VarsAfter, Legal
<1>2. Prefix(e.vars, VarsAfter(i, s))
  BY <1>1, PrefixTrans DEF Shape, Steps, Weaker
<1> QED BY <1>2 DEF Shape, Steps, Weaker

LEMMA WeakenSound ==
  ASSUME NEW c, NEW A, NEW holes, NEW s \in Shape, Sound(c, A, holes, Len(c) + 1),
         Weaker(A[Len(c) + 1], s), Nests(c, A, s)
  PROVE  Sound(c, Known(A, Len(c) + 1, s), holes, Len(c) + 1)
<1> DEFINE B == Known(A, Len(c) + 1, s)
<1>1. c \in Seq(Instr) /\ A \in [Nat -> Shape]
  BY DEF Sound
<1>2. B \in [Nat -> Shape] /\ B[Len(c) + 1] = s /\ \A p \in Nat : p # Len(c) + 1 => B[p] = A[p]
  BY <1>1 DEF Known
<1>3. Grown(c, A, c, B)
  BY <1>1, <1>2 DEF Grown
<1> HIDE DEF B
<1>4. ASSUME NEW p \in 1..Len(c) PROVE Works(c, B, p)
  <2>1. Works(c, A, p) /\ c[p] \in Instr /\ B[p] = A[p] /\ A[p] \in Shape /\ p \in Nat
    BY <1>1, <1>2 DEF Sound
  <2>2. Falls(c[p].op) => Steps(c[p], p, B[p], B[p + 1])
    <3>1. CASE p + 1 = Len(c) + 1
      <4>1. Falls(c[p].op) => Steps(c[p], p, A[p], A[p + 1])
        BY <2>1 DEF Works
      <4>2. A[p + 1] \in Shape /\ Weaker(A[p + 1], s) /\ B[p + 1] = s
        BY <1>1, <1>2, <3>1
      <4>3. Legal(c[p], A[p])
        BY <2>1 DEF Works
      <4> QED BY <2>1, <4>1, <4>2, <4>3, StepsWeaker
    <3>2. CASE p + 1 # Len(c) + 1
      BY <1>1, <1>2, <2>1, <3>2 DEF Works
    <3> QED BY <3>1, <3>2
  <2> QED BY <2>1, <2>2 DEF Works
<1>5. ASSUME NEW p \in 1..Len(c) PROVE p \in holes \/ Lands(c, B, p, Len(c) + 1)
  <2>1. /\ p \in holes \/ Lands(c, A, p, Len(c) + 1)
        /\ c[p] \in Instr /\ B[p] = A[p] /\ A[p] \in Shape
    BY <1>1, <1>2 DEF Sound
  <2>2. c[p].n \in Int
    BY <2>1 DEF Instr
  <2>3. ASSUME c[p].op \in Branching, Lands(c, A, p, Len(c) + 1)
        PROVE  p + 1 + c[p].n \in 1..(Len(c) + 1) /\ Taken(c[p].op, B[p], B[p + 1 + c[p].n])
    <3>1. p + 1 + c[p].n \in 1..(Len(c) + 1) /\ Taken(c[p].op, A[p], A[p + 1 + c[p].n])
      BY <2>3 DEF Lands
    <3>2. CASE p + 1 + c[p].n = Len(c) + 1
      <4>1. A[Len(c) + 1] \in Shape
        BY <1>1
      <4> QED BY <1>2, <2>1, <3>1, <3>2, <4>1, TakenWeaker
    <3>3. CASE p + 1 + c[p].n # Len(c) + 1
      BY <1>2, <2>1, <3>1, <3>3
    <3> QED BY <3>2, <3>3
  <2>4. ASSUME c[p].op = "CALL", Lands(c, A, p, Len(c) + 1)
        PROVE  c[p].n \in 1..Len(c) /\ B[c[p].n] = EntryShape
    BY <1>1, <1>2, <2>2, <2>4 DEF Lands
  <2> QED BY <2>1, <2>3, <2>4 DEF Lands
<1>6. ASSUME NEW p \in 1..(Len(c) + 1) PROVE Nests(c, B, B[p])
  <2>1. CASE p = Len(c) + 1
    BY <1>1, <1>2, <1>3, <2>1, NestsKept
  <2>2. CASE p # Len(c) + 1
    <3>1. Nests(c, A, A[p]) /\ A[p] \in Shape /\ B[p] = A[p]
      BY <1>1, <1>2, <2>2 DEF Sound
    <3> QED BY <1>1, <1>3, <3>1, NestsKept
  <2> QED BY <2>1, <2>2
<1>7. Sound(c, B, holes, Len(c) + 1)
  BY <1>1, <1>2, <1>4, <1>5, <1>6 DEF Sound
<1> QED BY <1>7 DEF B
-----------------------------------------------------------------------------
\* What the open constructs remember holds of longer code, too.
StartKept(A, B, o) == IsLoop(o) => B[o.start] = A[o.start]

LEMMA AttachedKept ==
  ASSUME NEW c \in Seq(Instr), NEW d \in Seq(Instr), NEW A \in [Nat -> Shape], NEW B \in [Nat -> Shape],
         NEW o \in Constructs, NEW func \in BOOLEAN, Grown(c, A, d, B), Attached(c, A, o, func),
         StartKept(A, B, o)
  PROVE  Attached(d, B, o, func) /\ Body(B, o) = Body(A, o)
<1> USE DEF StartKept
<1> DEFINE at(variables, temps) == Ctx(o.tries, variables, temps, func)
<1>1. Body(B, o) = Body(A, o)
  BY DEF Body
<1>2. at(o.saved, 0) \in Shape
  BY DEF Ctx, Shape, Constructs
<1>3. Nests(d, B, at(o.saved, 0))
  BY <1>2, NestsKept DEF Attached
<1>4. \A p, op, e : JumpsFrom(c, A, p, op, e) => JumpsFrom(d, B, p, op, e)
  BY DEF JumpsFrom, Grown
<1>5. IsLoop(o) => o.start \in 1..(Len(d) + 1) /\ B[o.start] = at(Body(B, o), 0)
  BY <1>1 DEF Attached, Grown
<1>6. o.kind = "try" => o.try \in 1..Len(d) /\ d[o.try].op = "TRY_BEGIN" /\ B[o.try] = at(o.saved, 0)
  BY DEF Attached, Grown
<1>7. o.depth = Len(o.tries) /\ Prefix(o.saved, Body(B, o)) /\ (o.try # None <=> o.kind = "try")
      /\ (o.kind = "while" => o.jump > 0 /\ Body(B, o) = o.saved)
  BY <1>1 DEF Attached
<1>8. /\ o.kind = "then" => JumpsFrom(d, B, o.jump, "JUMP_IF_FALSE", at(o.saved, 1))
      /\ o.kind \in {"else", "catch"} => JumpsFrom(d, B, o.jump, "JUMP", at(o.saved, 0))
      /\ IsLoop(o) /\ o.jump # 0 => JumpsFrom(d, B, o.jump, "JUMP_IF_FALSE", at(Body(B, o), 1))
  BY <1>1, <1>4 DEF Attached
<1>9. /\ \A p \in o.breaks : IsLoop(o) /\ JumpsFrom(d, B, p, "JUMP", at(o.saved, 0))
      /\ \A p \in o.continues : o.kind = "for" /\ JumpsFrom(d, B, p, "JUMP", at(Body(B, o), 0))
  BY <1>1, <1>4 DEF Attached
<1> QED BY <1>1, <1>3, <1>5, <1>6, <1>7, <1>8, <1>9 DEF Attached

LEMMA SettledKept ==
  ASSUME NEW c, NEW d, NEW o, NEW p \in Nat, Settled(p, c, o), Len(c) \in Nat, Len(d) \in Nat, Len(c) <= Len(d)
  PROVE  Settled(p, d, o)
BY DEF Settled

LEMMA StackedKept ==
  ASSUME NEW c \in Seq(Instr), NEW d \in Seq(Instr), NEW A \in [Nat -> Shape], NEW B \in [Nat -> Shape],
         NEW os, NEW func \in BOOLEAN, Grown(c, A, d, B), Stacked(c, A, os, func),
         StartsKept(A, B, os)
  PROVE  Stacked(d, B, os, func)
<1>1. os \in Seq(Constructs)
  BY DEF Stacked
<1>2. ASSUME NEW i \in 1..Len(os) PROVE Attached(d, B, os[i], func) /\ Body(B, os[i]) = Body(A, os[i])
  <2>1. os[i] \in Constructs /\ Attached(c, A, os[i], func)
    BY <1>1 DEF Stacked
  <2>2. IsLoop(os[i]) => B[os[i].start] = A[os[i].start]
    BY DEF StartsKept
  <2>3. PICK o \in Constructs : o = os[i]
    BY <2>1
  <2>4. Attached(c, A, o, func) /\ StartKept(A, B, o)
    BY <2>1, <2>2, <2>3 DEF StartKept
  <2>5. Attached(d, B, o, func) /\ Body(B, o) = Body(A, o)
    <3>1. /\ c \in Seq(Instr) /\ d \in Seq(Instr) /\ A \in [Nat -> Shape] /\ B \in [Nat -> Shape]
          /\ o \in Constructs /\ func \in BOOLEAN /\ Grown(c, A, d, B)
      OBVIOUS
    <3> QED BY ONLY <2>4, <3>1, AttachedKept
  <2> QED BY <2>3, <2>5
<1>3. \A i \in 1..Len(os) : os[i].tries = IF i = 1 THEN <<>> ELSE TriesIn(os[i - 1])
  BY DEF Stacked
<1>5. ASSUME NEW i \in 1..Len(os), NEW j \in 1..Len(os), i < j, IsLoop(os[i])
      PROVE  Settled(os[i].start, d, os[j])
  <2>1. os[i] \in Constructs
    BY <1>1
  <2>2. os[i].start \in Nat
    BY <2>1 DEF Constructs
  <2>3. Settled(os[i].start, c, os[j])
    BY <1>5 DEF Stacked
  <2>4. Len(c) \in Nat /\ Len(d) \in Nat /\ Len(c) <= Len(d)
    BY DEF Grown
  <2> QED BY <2>2, <2>3, <2>4, SettledKept
<1>4. \A i, j \in 1..Len(os) : i < j => /\ Prefix(Body(B, os[i]), os[j].saved)
                                        /\ Prefix(os[i].tries, os[j].tries)
                                        /\ IsLoop(os[i]) => Settled(os[i].start, d, os[j])
  <2>1. \A i, j \in 1..Len(os) : i < j => /\ Prefix(Body(B, os[i]), os[j].saved)
                                          /\ Prefix(os[i].tries, os[j].tries)
    BY <1>2 DEF Stacked
  <2> QED BY <1>5, <2>1
<1> QED BY <1>1, <1>2, <1>3, <1>4 DEF Stacked

LEMMA TriesTyped ==
  ASSUME NEW os \in Seq(Constructs)
  PROVE  /\ TriesAround(os) \in Seq(Nat)
         /\ \A o \in Constructs : TriesIn(o) \in Seq(Nat) /\ Prefix(o.tries, TriesIn(o))
<1>1. ASSUME NEW o \in Constructs PROVE TriesIn(o) \in Seq(Nat) /\ Prefix(o.tries, TriesIn(o))
  <2>1. o.tries \in Seq(Nat) /\ o.try \in Nat \cup {None}
    BY DEF Constructs
  <2> QED BY <2>1, PrefixRefl, PrefixAppend DEF TriesIn
<1>2. os # <<>> => os[Len(os)] \in Constructs
  OBVIOUS
<1> QED BY <1>1, <1>2 DEF TriesAround

LEMMA InitialPart ==
  ASSUME NEW S, NEW s \in Seq(S), NEW m \in 0..Len(s)
  PROVE  /\ SubSeq(s, 1, m) \in Seq(S) /\ Len(SubSeq(s, 1, m)) = m
         /\ \A i \in 1..m : SubSeq(s, 1, m)[i] = s[i]
<1>1. m \in Int /\ 1 \in Int /\ \A i \in 1..m : s[i] \in S
  OBVIOUS
<1>2. /\ SubSeq(s, 1, m) \in Seq(S)
      /\ Len(SubSeq(s, 1, m)) = IF 1 <= m THEN m - 1 + 1 ELSE 0
      /\ \A i \in 1..(m - 1 + 1) : SubSeq(s, 1, m)[i] = s[1 + i - 1]
  BY <1>1, SubSeqProperties
<1> QED BY <1>2

LEMMA FrontFacts ==
  ASSUME NEW S, NEW s \in Seq(S), s # <<>>
  PROVE  /\ Front(s) \in Seq(S) /\ Len(Front(s)) = Len(s) - 1 /\ Len(s) \in Nat \ {0}
         /\ \A i \in 1..(Len(s) - 1) : Front(s)[i] = s[i]
         /\ Last(s) = s[Len(s)] /\ Last(s) \in S
<1>1. Len(s) \in Nat /\ Len(s) > 0
  OBVIOUS
<1>2. Front(s) = SubSeq(s, 1, Len(s) - 1)
  BY DEF Front
<1>3. /\ SubSeq(s, 1, Len(s) - 1) \in Seq(S) /\ Len(SubSeq(s, 1, Len(s) - 1)) = Len(s) - 1
      /\ \A i \in 1..(Len(s) - 1) : SubSeq(s, 1, Len(s) - 1)[i] = s[i]
  <2>1. Len(s) - 1 \in 0..Len(s)
    BY <1>1
  <2> QED BY <2>1, InitialPart
<1> QED BY <1>1, <1>2, <1>3 DEF Last

\* The innermost construct is closed.
LEMMA StackedPop ==
  ASSUME NEW c, NEW A, NEW os, NEW func, Stacked(c, A, os, func), os # <<>>
  PROVE  /\ Stacked(c, A, Front(os), func)
         /\ Front(os) \in Seq(Constructs) /\ Len(Front(os)) = Len(os) - 1
         /\ \A i \in 1..Len(Front(os)) : Front(os)[i] = os[i]
         /\ TriesAround(Front(os)) = Last(os).tries
         /\ Scoped(A, Front(os), Last(os).saved)
         /\ Last(os) \in Constructs /\ Attached(c, A, Last(os), func)
         /\ \A i \in 1..Len(Front(os)) : IsLoop(Front(os)[i]) => Settled(Front(os)[i].start, c, Last(os))
<1> DEFINE fs == Front(os)
           n == Len(os)
<1>1. os \in Seq(Constructs) /\ n \in Nat /\ n > 0
  BY DEF Stacked
<1>2. fs \in Seq(Constructs) /\ Len(fs) = n - 1 /\ \A i \in 1..(n - 1) : fs[i] = os[i]
  BY <1>1, FrontFacts
<1>3. Last(os) = os[n] /\ n \in 1..n
  BY <1>1 DEF Last
<1> HIDE DEF fs
<1>4. Stacked(c, A, fs, func)
  <2>1. ASSUME NEW i \in 1..(n - 1)
        PROVE  /\ Attached(c, A, fs[i], func)
               /\ fs[i].tries = IF i = 1 THEN <<>> ELSE TriesIn(fs[i - 1])
    <3>1. i \in 1..n /\ i < n /\ fs[i] = os[i] /\ (i # 1 => fs[i - 1] = os[i - 1])
      BY <1>1, <1>2
    <3> QED BY <1>1, <3>1 DEF Stacked
  <2>2. ASSUME NEW i \in 1..(n - 1), NEW j \in 1..(n - 1), i < j
        PROVE  /\ Prefix(Body(A, fs[i]), fs[j].saved) /\ Prefix(fs[i].tries, fs[j].tries)
               /\ IsLoop(fs[i]) => Settled(fs[i].start, c, fs[j])
    <3>1. i \in 1..n /\ fs[i] = os[i] /\ j \in 1..n /\ fs[j] = os[j]
      BY <1>1, <1>2
    <3> QED BY <2>2, <3>1 DEF Stacked
  <2> QED BY <1>2, <2>1, <2>2 DEF Stacked
<1>5. TriesAround(fs) = Last(os).tries
  <2>1. n = 1 => fs = <<>>
    BY <1>2
  <2>2. n > 1 => fs # <<>> /\ fs[Len(fs)] = os[n - 1]
    BY <1>1, <1>2
  <2> QED BY <1>1, <1>2, <1>3, <2>1, <2>2 DEF Stacked, TriesAround
<1>6. Scoped(A, fs, Last(os).saved)
  <2>1. \A i \in 1..(n - 1) : i \in 1..n /\ i < n
    BY <1>1
  <2>2. \A i \in 1..(n - 1) : Prefix(Body(A, os[i]), os[n].saved) /\ Prefix(os[i].tries, os[n].tries)
    BY <1>3, <2>1 DEF Stacked
  <2> QED BY <1>2, <1>3, <1>5, <2>2 DEF Scoped
<1>7. \A i \in 1..Len(fs) : IsLoop(fs[i]) => Settled(fs[i].start, c, Last(os))
  <2>1. \A i \in 1..(n - 1) : i \in 1..n /\ i < n
    BY <1>1
  <2> QED BY <1>2, <1>3, <2>1 DEF Stacked
<1>8. Last(os) \in Constructs /\ Attached(c, A, Last(os), func)
  BY <1>1, <1>3 DEF Stacked
<1> QED BY <1>2, <1>4, <1>5, <1>6, <1>7, <1>8 DEF fs

\* A construct is opened inside the others.
LEMMA StackedPush ==
  ASSUME NEW c, NEW A \in [Nat -> Shape], NEW os, NEW func, NEW o \in Constructs, NEW vs \in Seq(Nat),
         Stacked(c, A, os, func), Attached(c, A, o, func), o.tries = TriesAround(os), Scoped(A, os, o.saved),
         \A i \in 1..Len(os) : IsLoop(os[i]) => Settled(os[i].start, c, o),
         Prefix(Body(A, o), vs)
  PROVE  /\ Stacked(c, A, Append(os, o), func) /\ Scoped(A, Append(os, o), vs)
         /\ TriesAround(Append(os, o)) = TriesIn(o)
<1> DEFINE ps == Append(os, o)
           n == Len(os)
<1>1. os \in Seq(Constructs) /\ n \in Nat
  BY DEF Stacked
<1>2. /\ ps \in Seq(Constructs) /\ Len(ps) = n + 1 /\ ps[n + 1] = o /\ ps # <<>>
      /\ \A i \in 1..n : ps[i] = os[i]
  BY <1>1, Appended
<1>0. \A i \in 1..(n + 1) : (i \in 1..n /\ ps[i] = os[i]) \/ (i = n + 1 /\ ps[i] = o)
  <2>1. \A i \in 1..(n + 1) : i \in 1..n \/ i = n + 1
    BY ONLY <1>1
  <2> QED BY ONLY <1>2, <2>1
<1> HIDE DEF ps
<1>3. TriesAround(ps) = TriesIn(o)
  BY <1>2 DEF TriesAround
<1>4. \A i \in 1..n : Prefix(Body(A, ps[i]), o.saved) /\ Prefix(ps[i].tries, o.tries)
  BY <1>2 DEF Scoped
<1>5. \A i \in 1..(n + 1) : Attached(c, A, ps[i], func)
  BY <1>0 DEF Stacked
<1>6. ASSUME NEW i \in 1..(n + 1) PROVE ps[i].tries = IF i = 1 THEN <<>> ELSE TriesIn(ps[i - 1])
  <2>1. CASE i <= n
    <3>1. i \in 1..n /\ (i # 1 => i - 1 \in 1..n)
      BY <1>1, <2>1
    <3> QED BY <1>2, <3>1 DEF Stacked
  <2>2. CASE i = n + 1
    <3>1. n = 0 => os = <<>>
      BY <1>1
    <3>2. n # 0 => os # <<>> /\ i - 1 \in 1..n /\ i - 1 = n /\ i # 1
      BY <1>1, <2>2
    <3> QED BY <1>1, <1>2, <2>2, <3>1, <3>2 DEF TriesAround
  <2> QED BY <1>1, <2>1, <2>2
<1>8. ASSUME NEW i \in 1..(n + 1), NEW j \in 1..(n + 1), i < j
      PROVE  /\ Prefix(Body(A, ps[i]), ps[j].saved) /\ Prefix(ps[i].tries, ps[j].tries)
             /\ IsLoop(ps[i]) => Settled(ps[i].start, c, ps[j])
  <2>1. i \in 1..n
    BY <1>1, <1>8
  <2>2. CASE j \in 1..n
    BY <1>2, <1>8, <2>1, <2>2 DEF Stacked
  <2>3. CASE j = n + 1
    BY <1>2, <1>4, <2>1, <2>3
  <2> QED BY <1>1, <2>2, <2>3
<1>9. Stacked(c, A, ps, func)
  BY <1>2, <1>5, <1>6, <1>8 DEF Stacked
<1>10. ASSUME NEW i \in 1..(n + 1) PROVE Prefix(Body(A, ps[i]), vs) /\ Prefix(ps[i].tries, TriesIn(o))
  <2>0. o.tries \in Seq(Nat) /\ o.saved \in Seq(Nat) /\ TriesIn(o) \in Seq(Nat) /\ Prefix(o.tries, TriesIn(o))
    BY <1>1, TriesTyped DEF Constructs
  <2>1. CASE i = n + 1
    BY <1>2, <2>0, <2>1
  <2>2. CASE i \in 1..n
    <3>1. ps[i] \in Constructs
      BY <1>2
    <3>2. ps[i].tries \in Seq(Nat) /\ ps[i].saved \in Seq(Nat) /\ ps[i].start \in Nat
      BY <3>1 DEF Constructs
    <3>3. Body(A, ps[i]) \in Seq(Nat)
      BY <3>2 DEF Body, Shape
    <3>4. Body(A, o) \in Seq(Nat)
      <4>1. o.start \in Nat /\ A[o.start] \in Shape
        BY DEF Constructs
      <4> QED BY <2>0, <4>1 DEF Body, Shape
    <3>5. Prefix(o.saved, Body(A, o))
      BY DEF Attached
    <3>6. Prefix(o.saved, vs)
      BY <2>0, <3>4, <3>5, PrefixTrans
    <3> QED BY <1>4, <2>0, <2>2, <3>2, <3>3, <3>6, PrefixTrans
  <2> QED BY <1>1, <2>1, <2>2
<1>11. Scoped(A, ps, vs)
  BY <1>2, <1>3, <1>10 DEF Scoped
<1> QED BY <1>3, <1>9, <1>11 DEF ps
-----------------------------------------------------------------------------
\* Emitting, one instruction after the other.
LEMMA CompiledTyped ==
  ASSUME NEW c, NEW A, NEW d, NEW B, NEW holes, Compiled(c, A, d, B, holes)
  PROVE  /\ c \in Seq(Instr) /\ A \in [Nat -> Shape] /\ d \in Seq(Instr) /\ B \in [Nat -> Shape]
         /\ B[Len(d) + 1] \in Shape /\ Nests(d, B, B[Len(d) + 1])
<1>1. d \in Seq(Instr) /\ B \in [Nat -> Shape] /\ Len(d) + 1 \in 1..(Len(d) + 1)
  BY DEF Compiled, Sound
<1> QED BY <1>1 DEF Compiled, Sound

LEMMA CompiledRefl ==
  ASSUME NEW c, NEW A, NEW holes, Sound(c, A, holes, Len(c) + 1)
  PROVE  Compiled(c, A, c, A, holes)
<1>1. c \in Seq(Instr) /\ A \in [Nat -> Shape]
  BY DEF Sound
<1> QED BY <1>1, GrownRefl DEF Compiled

LEMMA Emit ==
  ASSUME NEW c, NEW A, NEW d, NEW B, NEW holes, NEW more, NEW i \in Instr, NEW s \in Shape,
         Compiled(c, A, d, B, holes), holes \subseteq more, Emittable(d, B, more, i, s), Nests(d, B, s)
  PROVE  \E C : Emitted(c, A, d, B, i, s, more, C)
<1>1. c \in Seq(Instr) /\ A \in [Nat -> Shape] /\ d \in Seq(Instr) /\ B \in [Nat -> Shape]
  BY CompiledTyped
<1>2. PICK C : C = Known(B, Len(d) + 2, s)
  OBVIOUS
<1>3. PICK e : e = Append(d, i)
  OBVIOUS
<1>4. /\ e \in Seq(Instr) /\ C \in [Nat -> Shape] /\ Len(e) = Len(d) + 1 /\ Grown(d, B, e, C) /\ C[Len(d) + 2] = s
      /\ \A p \in 1..(Len(d) + 1) : C[p] = B[p]
  <2> DEFINE K == Known(B, Len(d) + 2, s)
  <2>1. Append(d, i) \in Seq(Instr) /\ Len(Append(d, i)) = Len(d) + 1
    BY <1>1
  <2>2. K \in [Nat -> Shape] /\ K[Len(d) + 2] = s /\ \A p \in 1..(Len(d) + 1) : K[p] = B[p]
    BY <1>1 DEF Known
  <2>3. Grown(d, B, Append(d, i), K)
    BY <1>1, <2>1, <2>2 DEF Grown
  <2> QED BY <1>2, <1>3, <2>1, <2>2, <2>3
<1>5. Grown(c, A, e, C)
  BY <1>1, <1>4, GrownTrans DEF Compiled
<1>6. Sound(e, C, more, Len(d) + 2)
  BY <1>2, <1>3, EmitNext DEF Compiled
<1>7. Sound(e, C, more, Len(e) + 1)
  BY <1>1, <1>4, <1>6
<1>8. C[Len(c) + 1] = A[Len(c) + 1]
  <2>1. Len(c) \in Nat /\ Len(d) \in Nat /\ Len(c) <= Len(d)
    BY <1>1 DEF Compiled, Grown
  <2>2. B[Len(c) + 1] = A[Len(c) + 1] /\ Len(c) + 1 \in 1..(Len(d) + 1)
    BY <2>1 DEF Compiled
  <2> QED BY <1>4, <2>2
<1>9. C[Len(d) + 1] = B[Len(d) + 1] /\ e[Len(d) + 1] = i
  BY <1>1, <1>3, <1>4
<1>10. Compiled(c, A, e, C, more)
  BY <1>1, <1>5, <1>7, <1>8 DEF Compiled
<1> QED BY <1>3, <1>4, <1>9, <1>10 DEF Emitted

\* Only the temporaries change.
LEMMA EmitHere ==
  ASSUME NEW c, NEW A, NEW d, NEW B, NEW holes, NEW more, NEW i \in Instr, NEW s \in Shape,
         Compiled(c, A, d, B, holes), holes \subseteq more, Emittable(d, B, more, i, s),
         Marks(s) = Marks(B[Len(d) + 1]), s.func = B[Len(d) + 1].func
  PROVE  \E C : Emitted(c, A, d, B, i, s, more, C)
<1>1. d \in Seq(Instr) /\ B \in [Nat -> Shape] /\ B[Len(d) + 1] \in Shape /\ Nests(d, B, B[Len(d) + 1])
  BY CompiledTyped
<1>2. s.tries = B[Len(d) + 1].tries /\ s.vars = B[Len(d) + 1].vars
  BY DEF Marks
<1>3. Nests(d, B, s)
  BY <1>1, <1>2 DEF Nests
<1> QED BY <1>3, Emit

\* A block of instructions is its instructions, one by one.
LEMMA ConcatAppend ==
  ASSUME NEW S, NEW c \in Seq(S), NEW s \in Seq(S), NEW x \in S
  PROVE  c \o Append(s, x) = Append(c \o s, x) /\ c \o <<x>> = Append(c, x)
<1>1. c \o Append(s, x) = Append(c \o s, x)
  OBVIOUS
<1>2. c \o <<x>> = Append(c, x)
  OBVIOUS
<1> QED BY <1>1, <1>2

LEMMA FirstTyped ==
  ASSUME Context \in [tries : Seq(Nat), vars : Seq(Nat)], NEW i \in Instr
  PROVE  AsFirst(i) \in Instr
BY DEF AsFirst, Instr

LEMMA Block1 ==
  ASSUME Context \in [tries : Seq(Nat), vars : Seq(Nat)], NEW c \in Seq(Instr),
         NEW i \in Instr
  PROVE  c \o First(<<i>>) = Append(c, AsFirst(i))
<1>1. PICK a \in Instr : a = AsFirst(i)
  BY FirstTyped
<1>2. First(<<i>>) = <<a>>
  BY <1>1 DEF First, AsFirst
<1>3. c \o <<a>> = Append(c, a)
  BY ConcatAppend
<1> QED BY <1>1, <1>2, <1>3

LEMMA Block2 ==
  ASSUME Context \in [tries : Seq(Nat), vars : Seq(Nat)], NEW c \in Seq(Instr),
         NEW i \in Instr, NEW j \in Instr
  PROVE  c \o First(<<i, j>>) = Append(Append(c, AsFirst(i)), j)
<1>1. PICK a \in Instr : a = AsFirst(i)
  BY FirstTyped
<1>2. First(<<i, j>>) = <<a, j>>
  BY <1>1 DEF First, AsFirst
<1>3. c \o <<a>> = Append(c, a)
  BY ConcatAppend
<1>4. c \o <<a, j>> = Append(c \o <<a>>, j)
  <2>1. <<a, j>> = Append(<<a>>, j) /\ <<a>> \in Seq(Instr)
    OBVIOUS
  <2> QED BY <2>1, ConcatAppend
<1> QED BY <1>1, <1>2, <1>3, <1>4

LEMMA Block3 ==
  ASSUME Context \in [tries : Seq(Nat), vars : Seq(Nat)], NEW c \in Seq(Instr),
         NEW i \in Instr, NEW j \in Instr, NEW k \in Instr
  PROVE  c \o First(<<i, j, k>>) = Append(Append(Append(c, AsFirst(i)), j), k)
<1>1. PICK a \in Instr : a = AsFirst(i)
  BY FirstTyped
<1>2. First(<<i, j, k>>) = <<a, j, k>>
  BY <1>1 DEF First, AsFirst
<1>3. c \o <<a>> = Append(c, a)
  BY ConcatAppend
<1>4. c \o <<a, j>> = Append(c \o <<a>>, j)
  <2>1. <<a, j>> = Append(<<a>>, j) /\ <<a>> \in Seq(Instr)
    OBVIOUS
  <2> QED BY <2>1, ConcatAppend
<1>5. c \o <<a, j, k>> = Append(c \o <<a, j>>, k)
  <2>1. <<a, j, k>> = Append(<<a, j>>, k) /\ <<a, j>> \in Seq(Instr)
    OBVIOUS
  <2> QED BY <2>1, ConcatAppend
<1> QED BY <1>1, <1>2, <1>3, <1>4, <1>5

LEMMA Block5 ==
  ASSUME Context \in [tries : Seq(Nat), vars : Seq(Nat)], NEW c \in Seq(Instr),
         NEW i \in Instr, NEW j \in Instr, NEW k \in Instr, NEW l \in Instr, NEW m \in Instr
  PROVE  c \o First(<<i, j, k, l, m>>) = Append(Append(Append(Append(Append(c, AsFirst(i)), j), k), l), m)
<1>1. PICK a \in Instr : a = AsFirst(i)
  BY FirstTyped
<1>2. First(<<i, j, k, l, m>>) = <<a, j, k, l, m>>
  <2>1. First(<<i, j, k, l, m>>) = [<<i, j, k, l, m>> EXCEPT ![1] = [i EXCEPT !.stmt = Context]]
    BY DEF First
  <2>2. [<<i, j, k, l, m>> EXCEPT ![1] = a] = <<a, j, k, l, m>>
    OBVIOUS
  <2> QED BY <1>1, <2>1, <2>2 DEF AsFirst
<1>3. c \o <<a>> = Append(c, a)
  BY ConcatAppend
<1>4. c \o <<a, j>> = Append(c \o <<a>>, j)
  <2>1. <<a, j>> = Append(<<a>>, j) /\ <<a>> \in Seq(Instr)
    OBVIOUS
  <2> QED BY <2>1, ConcatAppend
<1>5. c \o <<a, j, k>> = Append(c \o <<a, j>>, k)
  <2>1. <<a, j, k>> = Append(<<a, j>>, k) /\ <<a, j>> \in Seq(Instr)
    OBVIOUS
  <2> QED BY <2>1, ConcatAppend
<1>6. c \o <<a, j, k, l>> = Append(c \o <<a, j, k>>, l)
  <2>1. <<a, j, k, l>> = Append(<<a, j, k>>, l) /\ <<a, j, k>> \in Seq(Instr)
    OBVIOUS
  <2> QED BY <2>1, ConcatAppend
<1>7. c \o <<a, j, k, l, m>> = Append(c \o <<a, j, k, l>>, m)
  <2>4. <<a, j, k, l>> \in Seq(Instr)
    OBVIOUS
  <2>1. PICK s \in Seq(Instr) : s = <<a, j, k, l>>
    BY <2>4
  <2>2. <<a, j, k, l, m>> = Append(s, m)
    BY <2>1
  <2>3. c \o Append(s, m) = Append(c \o s, m)
    BY ConcatAppend
  <2> QED BY <2>1, <2>2, <2>3
<1> QED BY <1>1, <1>2, <1>3, <1>4, <1>5, <1>6, <1>7
-----------------------------------------------------------------------------
\* What the invariant says of the place behind the code.
LEMMA ContextFacts ==
  ASSUME NEW A, Kept, CompilerInv(A)
  PROVE  /\ code \in Seq(Instr) /\ A \in [Nat -> Shape] /\ open \in Seq(Constructs)
         /\ Here = Len(code) + 1 /\ Len(code) \in Nat
         /\ TriesAround(open) \in Seq(Nat) /\ locals \in Seq(Nat)
         /\ Context = [tries |-> TriesAround(open), vars |-> locals]
         /\ Context \in [tries : Seq(Nat), vars : Seq(Nat)]
         /\ A[Here] = Ctx(TriesAround(open), locals, 0, InFunction) /\ A[Here] \in Shape
         /\ Nests(code, A, A[Here])
         /\ (InFunction \/ locals = <<>>) /\ InFunction \in BOOLEAN
         /\ Compiled(code, A, code, A, HolesIn(open) \cup pending)
<1>1. /\ code \in Seq(Instr) /\ A \in [Nat -> Shape] /\ open \in Seq(Constructs)
      /\ Sound(code, A, HolesIn(open) \cup pending, Here)
      /\ A[Here] = Ctx(TriesAround(open), locals, 0, InFunction)
  BY DEF CompilerInv, Sound, Stacked
<1>2. Here = Len(code) + 1 /\ Len(code) \in Nat /\ Here \in Nat /\ Here \in 1..(Len(code) + 1)
  BY <1>1 DEF Here
<1>3. TriesAround(open) \in Seq(Nat) /\ locals \in Seq(Nat)
  BY <1>1, TriesTyped DEF Kept
<1>4. Context = [tries |-> TriesAround(open), vars |-> locals]
  BY DEF Context, TriesAround, TriesIn, Inner, Last
<1>5. A[Here] \in Shape
  BY <1>1, <1>2
<1>6. Nests(code, A, A[Here])
  BY <1>1, <1>2 DEF Sound
<1>7. InFunction \/ locals = <<>>
  BY <1>1, <1>6 DEF Nests, Ctx
<1>8. Compiled(code, A, code, A, HolesIn(open) \cup pending)
  BY <1>1, <1>2, CompiledRefl
<1>9. Context \in [tries : Seq(Nat), vars : Seq(Nat)]
  BY <1>3, <1>4
<1> QED BY <1>1, <1>2, <1>3, <1>4, <1>5, <1>6, <1>7, <1>8, <1>9 DEF InFunction

\* What a step of the compiler has to establish.
LEMMA CompilerNext ==
  ASSUME NEW A, NEW B, Kept, CompilerInv(A), phase' = phase, entry' = entry, UNCHANGED vmVars,
         Compiled(code, A, code', B, HolesIn(open') \cup pending') \/
            (/\ open # <<>> /\ code \in Seq(Instr) /\ Grown(code, A, code', B)
             /\ Sound(code', B, HolesIn(open') \cup pending', Len(code') + 1)
             /\ StartKept(A, B, Inner)),
         Stacked(code', B, open', InFunction), Scoped(B, open', locals'),
         B[Len(code') + 1] = Ctx(TriesAround(open'), locals', 0, InFunction),
         tryDepth' = Len(TriesAround(open')),
         \A i \in 1..Len(open') : \/ Len(code) < Len(code')
                                  \/ i \in 1..Len(open) /\ open'[i] = open[i]
                                  \/ IsLoop(open'[i]) /\ open'[i].start = Here,
         CallsAt(code', pending')
  PROVE  CompilerInv(B)'
<1>1. code \in Seq(Instr) /\ code' \in Seq(Instr) /\ Len(code) \in Nat /\ Len(code') \in Nat /\ Here = Len(code) + 1
  BY ContextFacts, CompiledTyped DEF Sound
<1>2. Grown(code, A, code', B) /\ Sound(code', B, HolesIn(open') \cup pending', Len(code') + 1)
  BY DEF Compiled
<1>3. Len(code) <= Len(code') /\ Here' = Len(code') + 1
  BY <1>2 DEF Grown, Here
<1>4. InFunction' = InFunction
  BY DEF InFunction
<1>5. ASSUME NEW p \in 1..Here, \A i \in 1..Len(open) : Settled(p, code, open[i])
      PROVE  B[p] = A[p]
  <2>1. \A q \in 1..Len(code) : B[q] = A[q]
    BY <1>2 DEF Grown
  <2>2. CASE p \in 1..Len(code)
    BY <2>1, <2>2
  <2>3. CASE p = Len(code) + 1
    <3>1. CASE Compiled(code, A, code', B, HolesIn(open') \cup pending')
      BY <2>3, <3>1 DEF Compiled
    <3>2. CASE open # <<>> /\ StartKept(A, B, Inner)
      <4>1. Inner = open[Len(open)] /\ Len(open) \in 1..Len(open)
        BY <3>2, ContextFacts DEF Inner, Last
      <4>2. Settled(p, code, Inner)
        BY <1>5, <4>1
      <4>3. IsLoop(Inner) /\ Inner.start = p
        BY <1>1, <2>3, <4>2 DEF Settled
      <4> QED BY <3>2, <4>3 DEF StartKept
    <3> QED BY <3>1, <3>2
  <2> QED BY <1>1, <2>2, <2>3
<1>6. B[1] = Ctx(<<>>, <<>>, 0, FALSE)
  <2>1. 1 \in 1..Here /\ (\A i \in 1..Len(open) : Settled(1, code, open[i])) /\ A[1] = Ctx(<<>>, <<>>, 0, FALSE)
    BY <1>1 DEF CompilerInv
  <2> QED BY <1>5, <2>1
<1>7. IF InFunction THEN entry \in 1..Here' /\ B[entry] = EntryShape ELSE entry = 0
  <2>1. /\ InFunction => entry \in 1..Here /\ A[entry] = EntryShape
        /\ \A i \in 1..Len(open) : Settled(entry, code, open[i])
    BY DEF CompilerInv
  <2>2. ~InFunction => entry = 0
    BY DEF CompilerInv
  <2>3. InFunction => B[entry] = A[entry]
    BY <1>5, <2>1
  <2> QED BY <1>1, <1>3, <2>1, <2>2, <2>3
<1>8. ASSUME NEW i \in 1..Len(open'), NEW p \in 0..Here, \A j \in 1..Len(open) : Settled(p, code, open[j])
      PROVE  Settled(p, code', open'[i])
  <2>1. CASE Len(code) < Len(code')
    BY <1>1, <1>3, <2>1 DEF Settled
  <2>2. CASE i \in 1..Len(open) /\ open'[i] = open[i]
    <3>1. Settled(p, code, open'[i])
      BY <1>8, <2>2
    <3> QED BY <1>1, <1>3, <3>1, SettledKept
  <2>3. CASE IsLoop(open'[i]) /\ open'[i].start = Here
    BY <1>1, <1>3, <2>3 DEF Settled
  <2> QED BY <2>1, <2>2, <2>3
<1>10. \A i \in 1..Len(open') : Settled(1, code', open'[i]) /\ Settled(entry, code', open'[i])
  <2>1. 1 \in 0..Here /\ entry \in 0..Here
    BY <1>1 DEF CompilerInv
  <2>2. \A j \in 1..Len(open) : Settled(1, code, open[j]) /\ Settled(entry, code, open[j])
    BY DEF CompilerInv
  <2> QED BY <1>8, <2>1, <2>2
<1>9. (vmVars = <<1, <<>>, <<>>, <<>>>>)'
  BY DEF CompilerInv, vmVars
<1> QED BY <1>1, <1>2, <1>3, <1>4, <1>6, <1>7, <1>9, <1>10 DEF CompilerInv

\* What is open stays well remembered, and the variables in scope only grow.
LEMMA CompiledKeeps ==
  ASSUME NEW c, NEW A, NEW d, NEW B, NEW holes, NEW os, NEW func \in BOOLEAN,
         Compiled(c, A, d, B, holes), Stacked(c, A, os, func)
  PROVE  Stacked(d, B, os, func) /\ StartsKept(A, B, os)
<1>1. /\ c \in Seq(Instr) /\ d \in Seq(Instr) /\ Len(c) \in Nat
      /\ A \in [Nat -> Shape] /\ B \in [Nat -> Shape]
  BY CompiledTyped
<1>2. Grown(c, A, d, B)
  BY DEF Compiled
<1>3. \A p \in 1..(Len(c) + 1) : B[p] = A[p]
  <2>1. \A p \in 1..Len(c) : B[p] = A[p]
    BY <1>2 DEF Grown
  <2>2. B[Len(c) + 1] = A[Len(c) + 1]
    BY DEF Compiled
  <2> QED BY <1>1, <2>1, <2>2
<1>4. StartsKept(A, B, os)
  BY <1>3 DEF Stacked, Attached, StartsKept
<1>5. c \in Seq(Instr) /\ d \in Seq(Instr) /\ A \in [Nat -> Shape] /\ B \in [Nat -> Shape]
  BY <1>1
<1>6. Stacked(d, B, os, func)
  BY SMTT(20), <1>2, <1>4, <1>5, StackedKept
<1> QED BY <1>4, <1>6

LEMMA CallsKept ==
  ASSUME NEW c, NEW A, NEW d, NEW B, NEW holes, NEW S, Compiled(c, A, d, B, holes), CallsAt(c, S)
  PROVE  CallsAt(d, S)
<1>1. c \in Seq(Instr) /\ d \in Seq(Instr) /\ Len(c) \in Nat /\ Len(d) \in Nat
  BY CompiledTyped
<1>2. Len(c) <= Len(d) /\ \A p \in 1..Len(c) : d[p].op = c[p].op
  BY DEF Compiled, Grown
<1> QED BY <1>1, <1>2 DEF CallsAt

LEMMA ScopedKept ==
  ASSUME NEW A \in [Nat -> Shape], NEW B, NEW os \in Seq(Constructs), NEW vs \in Seq(Nat), NEW ws \in Seq(Nat),
         Scoped(A, os, vs), StartsKept(A, B, os), Prefix(vs, ws)
  PROVE  Scoped(B, os, ws)
<1>1. ASSUME NEW i \in 1..Len(os) PROVE Prefix(Body(B, os[i]), ws)
  <2>1. os[i] \in Constructs
    OBVIOUS
  <2>2. os[i].start \in Nat /\ os[i].saved \in Seq(Nat)
    BY <2>1 DEF Constructs
  <2>3. Body(A, os[i]) \in Seq(Nat)
    BY <2>2 DEF Body, Shape
  <2>4. Body(B, os[i]) = Body(A, os[i])
    BY DEF Body, StartsKept
  <2> QED BY <2>3, <2>4, PrefixTrans DEF Scoped
<1> QED BY <1>1 DEF Scoped

\* A statement without parts: nothing is opened or closed.
LEMMA PlainNext ==
  ASSUME NEW A, NEW B, Kept, CompilerInv(A), UNCHANGED <<phase, open, tryDepth, entry, vmVars>>,
         Compiled(code, A, code', B, HolesIn(open) \cup pending'),
         B[Len(code') + 1] = Ctx(TriesAround(open), locals', 0, InFunction),
         Prefix(locals, locals'), locals' \in Seq(Nat), Len(code) < Len(code'),
         CallsAt(code', pending')
  PROVE  CompilerInv(B)'
<1>1. A \in [Nat -> Shape] /\ open \in Seq(Constructs) /\ locals \in Seq(Nat) /\ InFunction \in BOOLEAN
  BY ContextFacts
<1>2. Stacked(code, A, open, InFunction) /\ Scoped(A, open, locals)
  BY DEF CompilerInv
<1>3. Stacked(code', B, open, InFunction) /\ StartsKept(A, B, open)
  BY <1>1, <1>2, CompiledKeeps
<1>4. Scoped(B, open, locals')
  BY <1>1, <1>2, <1>3, ScopedKept
<1>5. tryDepth = Len(TriesAround(open))
  BY DEF CompilerInv
<1> QED BY <1>3, <1>4, <1>5, CompilerNext
-----------------------------------------------------------------------------
\* The shapes of the places between the instructions.
LEMMA CtxTyped ==
  ASSUME NEW t \in Seq(Nat), NEW vs \in Seq(Nat), NEW k \in Nat, NEW func \in BOOLEAN
  PROVE  Ctx(t, vs, k, func) \in Shape
BY DEF Ctx, Shape

\* A statement that begins with a constant.
LEMMA FirstPush ==
  ASSUME NEW A, Kept, CompilerInv(A)
  PROVE  \E B : LET d == Append(code, AsFirst(I("PUSH", 0)))
                IN  /\ Compiled(code, A, d, B, HolesIn(open) \cup pending)
                    /\ Len(d) = Len(code) + 1 /\ d[Len(d)].stmt = Context
                    /\ B[Len(d)] = A[Len(code) + 1]
                    /\ B[Len(d) + 1] = Ctx(TriesAround(open), locals, 1, InFunction)
<1> DEFINE i == AsFirst(I("PUSH", 0))
           d == Append(code, i)
           H == HolesIn(open) \cup pending
<1>1. PICK T, vs, f : T = TriesAround(open) /\ vs = locals /\ f = InFunction
  OBVIOUS
<1>2. PICK s : s = Ctx(T, vs, 1, f)
  OBVIOUS
<1>3. /\ code \in Seq(Instr) /\ Len(code) \in Nat /\ T \in Seq(Nat) /\ vs \in Seq(Nat) /\ f \in BOOLEAN
      /\ Context = [tries |-> T, vars |-> vs] /\ Context \in [tries : Seq(Nat), vars : Seq(Nat)]
      /\ A[Len(code) + 1] = Ctx(T, vs, 0, f)
      /\ Compiled(code, A, code, A, H)
  BY <1>1, ContextFacts
<1>4. I("PUSH", 0) \in Instr /\ i \in Instr /\ i.op = "PUSH" /\ i.var = None /\ i.stmt = Context
  <2>1. I("PUSH", 0) \in Instr
    BY DEF I, Instr, Opcode
  <2> QED BY <1>3, <2>1, FirstTyped DEF AsFirst, I
<1>5. s \in Shape /\ s.tries = T /\ s.vars = vs /\ s.temps = 1 /\ ~s.arg /\ s.func = f
  BY <1>2, <1>3, CtxTyped DEF Ctx
<1>6. PICK r : r = A[Len(code) + 1]
  OBVIOUS
<1>7. r.tries = T /\ r.vars = vs /\ r.temps = 0 /\ ~r.arg /\ r.func = f
  BY <1>3, <1>6 DEF Ctx
<1> HIDE DEF i, H
<1>8. Emittable(code, A, H, i, s)
  <2>1. Legal(i, r)
    BY <1>4 DEF Legal
  <2>2. i.stmt = Marks(r) /\ r.temps = 0
    BY <1>3, <1>4, <1>7 DEF Marks
  <2>3. Steps(i, Len(code) + 1, r, s)
    BY <1>4, <1>5, <1>7, PrefixRefl DEF Steps, TriesAfter, VarsAfter, TempsAfter
  <2> QED BY <1>4, <1>6, <2>1, <2>2, <2>3 DEF Emittable, Branching
<1>9. Marks(s) = Marks(A[Len(code) + 1]) /\ s.func = A[Len(code) + 1].func
  BY <1>5, <1>6, <1>7 DEF Marks
<1>10. PICK B : Emitted(code, A, code, A, i, s, H, B)
  BY <1>3, <1>4, <1>5, <1>8, <1>9, EmitHere
<1>12. /\ Compiled(code, A, d, B, H) /\ Len(d) = Len(code) + 1 /\ d[Len(d)].stmt = Context
       /\ B[Len(d)] = A[Len(code) + 1] /\ B[Len(d) + 1] = s
  BY <1>3, <1>4, <1>10 DEF Emitted
<1> QED BY <1>1, <1>2, <1>12 DEF i, H

\* Instructions that only move temporaries.
LEMMA EmitStack ==
  ASSUME NEW c, NEW A, NEW d, NEW B, NEW H, NEW T \in Seq(Nat), NEW vs \in Seq(Nat), NEW k \in Nat, NEW k2 \in Nat,
         NEW f \in BOOLEAN, NEW i \in Instr, Compiled(c, A, d, B, H), B[Len(d) + 1] = Ctx(T, vs, k, f),
         i.stmt = None, i.op \in {"PUSH", "POP", "BINARY", "GET_LOCAL", "SET_LOCAL", "DEFINE_GLOBAL"},
         i.var # Param \/ i.op # "PUSH",
         Legal(i, Ctx(T, vs, k, f)), k2 = TempsAfter(i, Ctx(T, vs, k, f))
  PROVE  \E C : Emitted(c, A, d, B, i, Ctx(T, vs, k2, f), H, C)
<1>1. d \in Seq(Instr) /\ Len(d) \in Nat
  BY CompiledTyped
<1>2. PICK r, s : r = Ctx(T, vs, k, f) /\ s = Ctx(T, vs, k2, f)
  OBVIOUS
<1>3. s \in Shape /\ s.tries = T /\ s.vars = vs /\ s.temps = k2 /\ ~s.arg /\ s.func = f
  BY <1>2, CtxTyped DEF Ctx
<1>4. r.tries = T /\ r.vars = vs /\ r.temps = k /\ ~r.arg /\ r.func = f
  BY <1>2 DEF Ctx
<1>5. Steps(i, Len(d) + 1, r, s)
  BY <1>2, <1>3, <1>4, PrefixRefl DEF Steps, TriesAfter, VarsAfter
<1>6. Emittable(d, B, H, i, s)
  BY <1>2, <1>5 DEF Emittable, Branching
<1>7. Marks(s) = Marks(B[Len(d) + 1]) /\ s.func = B[Len(d) + 1].func
  BY <1>2, <1>3, <1>4 DEF Marks
<1>8. \E C : Emitted(c, A, d, B, i, s, H, C)
  BY <1>3, <1>6, <1>7, EmitHere
<1> QED BY <1>2, <1>8

\* The value on the stack becomes a variable.
LEMMA EmitDefine ==
  ASSUME NEW c, NEW A, NEW d, NEW B, NEW H, NEW T \in Seq(Nat), NEW vs \in Seq(Nat), NEW v \in Nat,
         NEW f \in BOOLEAN, NEW i \in Instr, Compiled(c, A, d, B, H), B[Len(d) + 1] = Ctx(T, vs, 1, f),
         i = IF f THEN Slot("DEFINE_LOCAL", Len(vs), v) ELSE I("DEFINE_GLOBAL", 0),
         NEW ws, ws = IF f THEN Append(vs, v) ELSE vs
  PROVE  \E C : Emitted(c, A, d, B, i, Ctx(T, ws, 0, f), H, C)
<1>1. d \in Seq(Instr) /\ Len(d) \in Nat /\ B[Len(d) + 1] \in Shape /\ Nests(d, B, B[Len(d) + 1])
      /\ B \in [Nat -> Shape]
  BY CompiledTyped
<1>15. Append(vs, v) \in Seq(Nat)
  OBVIOUS
<1>2. ws \in Seq(Nat) /\ ws = IF f THEN Append(vs, v) ELSE vs
  <2>1. CASE f
    BY <1>15, <2>1
  <2>2. CASE ~f
    BY <2>2
  <2> QED BY <2>1, <2>2
<1>3. PICK r, s : r = Ctx(T, vs, 1, f) /\ s = Ctx(T, ws, 0, f)
  OBVIOUS
<1>4. s \in Shape /\ s.tries = T /\ s.vars = ws /\ s.temps = 0 /\ ~s.arg /\ s.func = f
  <2>1. ws \in Seq(Nat) /\ s = Ctx(T, ws, 0, f)
    BY <1>2, <1>3
  <2> QED BY ONLY <2>1, T \in Seq(Nat), f \in BOOLEAN DEF Ctx, Shape
<1>5. r \in Shape /\ r.tries = T /\ r.vars = vs /\ r.temps = 1 /\ ~r.arg /\ r.func = f
  <2>1. r = Ctx(T, vs, 1, f)
    BY <1>3
  <2> QED BY ONLY <2>1, T \in Seq(Nat), vs \in Seq(Nat), f \in BOOLEAN DEF Ctx, Shape
<1>6. i.stmt = None /\ i.op = IF f THEN "DEFINE_LOCAL" ELSE "DEFINE_GLOBAL"
  BY DEF I, Slot
<1>7. f => i.var = v /\ i.n = Len(vs)
  BY DEF Slot
<1>8. Prefix(vs, ws) /\ Prefix(ws, ws)
  <2>1. Prefix(vs, Append(vs, v))
    BY ONLY vs \in Seq(Nat), v \in Nat, PrefixAppend
  <2>2. Prefix(vs, vs) /\ Prefix(ws, ws)
    BY ONLY vs \in Seq(Nat), ws \in Seq(Nat), PrefixRefl
  <2>3. ws = IF f THEN Append(vs, v) ELSE vs
    BY <1>2
  <2> QED BY ONLY <2>1, <2>2, <2>3
<1>9. Legal(i, r)
  BY <1>5, <1>6, <1>7 DEF Legal
<1>10. Steps(i, Len(d) + 1, r, s)
  <2>1. TriesAfter(i, Len(d) + 1, r) = s.tries /\ TempsAfter(i, r) = s.temps
    BY <1>4, <1>5, <1>6 DEF TriesAfter, TempsAfter
  <2>2. VarsAfter(i, r) = s.vars
    BY <1>2, <1>4, <1>5, <1>6, <1>7 DEF VarsAfter
  <2> QED BY <1>4, <1>5, <1>8, <2>1, <2>2 DEF Steps
<1>11. Emittable(d, B, H, i, s)
  BY <1>3, <1>6, <1>9, <1>10 DEF Emittable, Branching
<1>12. Nests(d, B, s)
  <2>1. Nests(d, B, r)
    BY <1>1, <1>3
  <2>2. f \/ ws = <<>>
    BY <1>2, <1>5, <2>1 DEF Nests
  <2> QED BY <1>1, <1>4, <1>5, <1>8, <2>1, <2>2, NestsMore
<1>13. \E C : Emitted(c, A, d, B, i, s, H, C)
  BY <1>4, <1>11, <1>12, Emit
<1> QED BY <1>2, <1>3, <1>13
-----------------------------------------------------------------------------
\* Statements without parts.

\* A value, and the variable made of it.
LEMMA EmitVariable ==
  ASSUME NEW A, Kept, CompilerInv(A), NEW e, e = code \o First(<<I("PUSH", 0), Define(Here + 1)>>),
         NEW ws, ws = WithVar(Here + 1)
  PROVE  \E B : /\ Compiled(code, A, e, B, HolesIn(open) \cup pending) /\ Len(e) = Len(code) + 2
                /\ B[Len(e) + 1] = Ctx(TriesAround(open), ws, 0, InFunction)
                /\ ws \in Seq(Nat) /\ Prefix(locals, ws)
<1> DEFINE i == I("PUSH", 0)
           j == Define(Here + 1)
           d == Append(code, AsFirst(i))
<1>1. PICK T, vs, f, H : T = TriesAround(open) /\ vs = locals /\ f = InFunction /\ H = HolesIn(open) \cup pending
  OBVIOUS
<1>2. /\ code \in Seq(Instr) /\ Len(code) \in Nat /\ T \in Seq(Nat) /\ vs \in Seq(Nat) /\ f \in BOOLEAN
      /\ Context \in [tries : Seq(Nat), vars : Seq(Nat)] /\ Here = Len(code) + 1
  BY <1>1, ContextFacts
<1>3. PICK B : Compiled(code, A, d, B, H) /\ Len(d) = Len(code) + 1 /\ B[Len(d) + 1] = Ctx(T, vs, 1, f)
  BY <1>1, FirstPush
<1>4. e = code \o First(<<i, j>>)
  OBVIOUS
<1>5. j = (IF f THEN Slot("DEFINE_LOCAL", Len(vs), Here + 1) ELSE I("DEFINE_GLOBAL", 0))
  BY <1>1 DEF Define
<1>6. ws = IF f THEN Append(vs, Here + 1) ELSE vs
  BY <1>1 DEF WithVar
<1>7. i \in Instr /\ j \in Instr /\ Here + 1 \in Nat
  <2>1. Len(vs) \in Int /\ 0 \in Int /\ Here + 1 \in Nat
    BY <1>2
  <2>2. i \in Instr /\ I("DEFINE_GLOBAL", 0) \in Instr
    BY DEF I, Instr, Opcode
  <2>3. Slot("DEFINE_LOCAL", Len(vs), Here + 1) \in Instr
    BY <2>1 DEF Slot, Instr, Opcode
  <2> QED BY <1>5, <2>1, <2>2, <2>3
<1> HIDE DEF i, j
<1>8. e = Append(d, j)
  <2>1. code \in Seq(Instr) /\ Context \in [tries : Seq(Nat), vars : Seq(Nat)] /\ i \in Instr /\ j \in Instr
    BY <1>2, <1>7
  <2>2. code \o First(<<i, j>>) = Append(Append(code, AsFirst(i)), j)
    BY ONLY <2>1, Block2, ZenonT(30)
  <2> QED BY ONLY <1>4, <2>2
<1> HIDE DEF d
<1>9. PICK C : Emitted(code, A, d, B, j, Ctx(T, ws, 0, f), H, C)
  BY <1>2, <1>3, <1>5, <1>6, <1>7, EmitDefine
<1>10. Compiled(code, A, e, C, H) /\ Len(e) = Len(code) + 2 /\ C[Len(e) + 1] = Ctx(T, ws, 0, f)
  <2>1. PICK e2 : e2 = Append(d, j)
    OBVIOUS
  <2>2. Compiled(code, A, e2, C, H) /\ Len(e2) = Len(d) + 1 /\ C[Len(d) + 2] = Ctx(T, ws, 0, f)
    BY <1>9, <2>1 DEF Emitted
  <2>3. e = e2
    BY <1>8, <2>1
  <2>4. Len(e2) = Len(code) + 2 /\ Len(e2) + 1 = Len(d) + 2
    BY <1>2, <1>3, <2>2
  <2> QED BY ONLY <2>2, <2>3, <2>4
<1>11. ws \in Seq(Nat) /\ Prefix(locals, ws)
  <2>1. CASE f
    <3>1. PICK v \in Nat : v = Here + 1
      BY <1>7
    <3>2. ws = Append(vs, v)
      BY <1>6, <2>1, <3>1
    <3>3. Append(vs, v) \in Seq(Nat) /\ Prefix(vs, Append(vs, v))
      BY <1>2, PrefixAppend
    <3> QED BY <1>1, <3>2, <3>3
  <2>2. CASE ~f
    BY <1>1, <1>2, <1>6, <2>2, PrefixRefl
  <2> QED BY <2>1, <2>2
<1> QED BY <1>1, <1>10, <1>11

LEMMA LetTyped ==
  ASSUME NEW A, Kept, CompilerInv(A), Let, UNCHANGED vmVars, phase' # "rejected"
  PROVE  \E B : CompilerInv(B)'
<1>1. /\ code' = code \o First(<<I("PUSH", 0), Define(Here + 1)>>) /\ locals' = WithVar(Here + 1)
      /\ UNCHANGED <<phase, open, tryDepth, entry, pending>>
  BY DEF Let, Reject
<1>2. PICK B : /\ Compiled(code, A, code', B, HolesIn(open) \cup pending) /\ Len(code') = Len(code) + 2
               /\ B[Len(code') + 1] = Ctx(TriesAround(open), locals', 0, InFunction)
               /\ locals' \in Seq(Nat) /\ Prefix(locals, locals')
  BY <1>1, EmitVariable
<1>3. CallsAt(code', pending')
  BY <1>1, <1>2, CallsKept DEF CompilerInv
<1>4. Len(code) < Len(code')
  BY <1>2, ContextFacts
<1>5. CompilerInv(B)'
  BY <1>1, <1>2, <1>3, <1>4, PlainNext
<1> QED BY <1>5

\* A value, and the instruction that leaves with it.
LEMMA EmitLeaving ==
  ASSUME NEW A, Kept, CompilerInv(A), NEW op \in {"THROW", "RETURN"}, op = "RETURN" => InFunction,
         NEW e, e = code \o First(<<I("PUSH", 0), I(op, 0)>>)
  PROVE  \E B : /\ Compiled(code, A, e, B, HolesIn(open) \cup pending) /\ Len(code) < Len(e)
                /\ B[Len(e) + 1] = Ctx(TriesAround(open), locals, 0, InFunction)
<1> DEFINE i == I("PUSH", 0)
           j == I(op, 0)
           d == Append(code, AsFirst(i))
<1>1. PICK T, vs, f, H : T = TriesAround(open) /\ vs = locals /\ f = InFunction /\ H = HolesIn(open) \cup pending
  OBVIOUS
<1>2. /\ code \in Seq(Instr) /\ Len(code) \in Nat /\ T \in Seq(Nat) /\ vs \in Seq(Nat) /\ f \in BOOLEAN
      /\ Context \in [tries : Seq(Nat), vars : Seq(Nat)] /\ Context = [tries |-> T, vars |-> vs]
  BY <1>1, ContextFacts
<1>3. PICK B : /\ Compiled(code, A, d, B, H) /\ Len(d) = Len(code) + 1
               /\ d[Len(d)].stmt = Context /\ B[Len(d) + 1] = Ctx(T, vs, 1, f)
  BY <1>1, FirstPush
<1>4. i \in Instr /\ j \in Instr /\ j.op = op /\ j.stmt = None
  BY DEF I, Instr, Opcode
<1> HIDE DEF i, j
<1>5. e = Append(d, j)
  BY <1>2, <1>4, Block2 DEF i, j
<1> HIDE DEF d
<1>6. PICK r, s : r = Ctx(T, vs, 1, f) /\ s = Ctx(T, vs, 0, f)
  OBVIOUS
<1>7. s \in Shape /\ s.tries = T /\ s.vars = vs /\ s.func = f
  BY <1>2, <1>6, CtxTyped DEF Ctx
<1>8. r.tries = T /\ r.vars = vs /\ r.temps = 1 /\ ~r.arg /\ r.func = f
  BY <1>6 DEF Ctx
<1>9. Emittable(d, B, H, j, s)
  <2>1. Legal(j, r)
    BY <1>1, <1>4, <1>8 DEF Legal
  <2>2. ~Falls(j.op) /\ j.op \notin Branching /\ j.op # "CALL"
    BY <1>4 DEF Falls, Branching
  <2>3. Len(d) + 1 > 1 /\ d[Len(d) + 1 - 1].stmt = Marks(r)
    BY <1>2, <1>3, <1>8 DEF Marks
  <2> QED BY <1>3, <1>4, <1>6, <2>1, <2>2, <2>3 DEF Emittable
<1>10. Marks(s) = Marks(B[Len(d) + 1]) /\ s.func = B[Len(d) + 1].func
  BY <1>3, <1>6, <1>7, <1>8 DEF Marks
<1>11. PICK C : Emitted(code, A, d, B, j, s, H, C)
  BY <1>3, <1>4, <1>7, <1>9, <1>10, EmitHere
<1>12. Compiled(code, A, e, C, H) /\ Len(e) = Len(d) + 1 /\ C[Len(d) + 2] = s
  BY <1>5, <1>11 DEF Emitted
<1>13. Len(code) < Len(e) /\ C[Len(e) + 1] = s
  BY <1>2, <1>3, <1>12
<1> QED BY <1>1, <1>6, <1>12, <1>13

LEMMA LeavingTyped ==
  ASSUME NEW A, Kept, CompilerInv(A), Throw \/ (Return /\ "top return" \notin Kinds), UNCHANGED vmVars
  PROVE  \E B : CompilerInv(B)'
<1>1. PICK op \in {"THROW", "RETURN"} :
        /\ op = "RETURN" => InFunction
        /\ code' = code \o First(<<I("PUSH", 0), I(op, 0)>>)
        /\ UNCHANGED <<phase, open, locals, tryDepth, entry, pending>>
  <2>1. CASE Throw
    BY <2>1 DEF Throw, Emits
  <2>2. CASE Return /\ "top return" \notin Kinds
    BY <2>2 DEF Return, Emits, Statement
  <2> QED BY <2>1, <2>2
<1>2. PICK B : /\ Compiled(code, A, code', B, HolesIn(open) \cup pending) /\ Len(code) < Len(code')
               /\ B[Len(code') + 1] = Ctx(TriesAround(open), locals, 0, InFunction)
  BY <1>1, EmitLeaving
<1>3. locals' \in Seq(Nat) /\ Prefix(locals, locals') /\ Len(code) \in Nat
  BY <1>1, ContextFacts, PrefixRefl
<1>4. CallsAt(code', pending')
  BY <1>1, <1>2, CallsKept DEF CompilerInv
<1>5. CompilerInv(B)'
  BY <1>1, <1>2, <1>3, <1>4, PlainNext
<1> QED BY <1>5

LEMMA AssignTyped ==
  ASSUME NEW A, Kept, CompilerInv(A), NEW slot \in 0..(Len(locals) - 1), Assign(slot), UNCHANGED vmVars
  PROVE  \E B : CompilerInv(B)'
<1>1. PICK T, vs, f, H : T = TriesAround(open) /\ vs = locals /\ f = InFunction /\ H = HolesIn(open) \cup pending
  OBVIOUS
<1>2. /\ code \in Seq(Instr) /\ Len(code) \in Nat /\ T \in Seq(Nat) /\ vs \in Seq(Nat) /\ f \in BOOLEAN
      /\ Context \in [tries : Seq(Nat), vars : Seq(Nat)] /\ Context = [tries |-> T, vars |-> vs]
      /\ A[Len(code) + 1] = Ctx(T, vs, 0, f) /\ Compiled(code, A, code, A, H)
  BY <1>1, ContextFacts
<1> DEFINE x == vs[slot + 1]
           i == Slot("GET_LOCAL", slot, x)
           j == Slot("SET_LOCAL", slot, x)
           l == I("POP", 0)
           d1 == Append(code, AsFirst(i))
           d2 == Append(d1, j)
<1>3. slot + 1 \in 1..Len(vs) /\ x \in Nat /\ slot \in Int
  BY <1>1, <1>2
<1>4. i \in Instr /\ j \in Instr /\ l \in Instr
  <2> HIDE DEF x
  <2> QED BY <1>3 DEF Slot, I, Instr, Opcode
<1>5. /\ code' = code \o First(<<i, j, l>>)
      /\ UNCHANGED <<phase, open, locals, tryDepth, entry, pending>>
  BY <1>1 DEF Assign, Emits
<1>6. /\ i.op = "GET_LOCAL" /\ i.n = slot /\ i.var = x
      /\ j.op = "SET_LOCAL" /\ j.n = slot /\ j.var = x /\ j.stmt = None
      /\ l.op = "POP" /\ l.stmt = None
  BY DEF Slot, I
<1> HIDE DEF i, j, l
<1>7. code' = Append(d2, l) /\ AsFirst(i) \in Instr
  <2>1. code \o First(<<i, j, l>>) = Append(Append(Append(code, AsFirst(i)), j), l)
    BY SMTT(20), <1>2, <1>4, Block3
  <2>2. AsFirst(i) \in Instr
    BY <1>2, <1>4, FirstTyped
  <2> QED BY <1>5, <2>1, <2>2
<1>8. PICK s0, s1 : s0 = Ctx(T, vs, 0, f) /\ s1 = Ctx(T, vs, 1, f)
  OBVIOUS
<1>9. /\ s1 \in Shape /\ s1.tries = T /\ s1.vars = vs /\ s1.func = f /\ s1.temps = 1 /\ ~s1.arg
      /\ s0.tries = T /\ s0.vars = vs /\ s0.func = f /\ s0.temps = 0 /\ ~s0.arg
  BY <1>2, <1>8, CtxTyped DEF Ctx
<1>10. PICK B1 : Emitted(code, A, code, A, AsFirst(i), s1, H, B1)
  <2>1. PICK g \in Instr : g = AsFirst(i)
    BY <1>7
  <2>2. g.op = "GET_LOCAL" /\ g.n = slot /\ g.var = x /\ g.stmt = Context
    BY <1>2, <1>4, <1>6, <2>1 DEF AsFirst, Instr
  <2>3. Legal(g, s0)
    BY <1>3, <1>9, <2>2 DEF Legal
  <2>4. g.stmt = Marks(s0)
    BY <1>2, <1>9, <2>2 DEF Marks
  <2>5. Steps(g, Len(code) + 1, s0, s1)
    BY <1>9, <2>2, PrefixRefl DEF Steps, TriesAfter, VarsAfter, TempsAfter
  <2>6. Emittable(code, A, H, g, s1)
    BY <1>2, <1>8, <1>9, <2>2, <2>3, <2>4, <2>5 DEF Emittable, Branching
  <2>7. Marks(s1) = Marks(A[Len(code) + 1]) /\ s1.func = A[Len(code) + 1].func
    BY <1>2, <1>8, <1>9 DEF Marks
  <2> QED BY <1>2, <1>9, <2>1, <2>6, <2>7, EmitHere
<1>11. Compiled(code, A, d1, B1, H) /\ Len(d1) = Len(code) + 1 /\ B1[Len(d1) + 1] = s1
  BY <1>2, <1>10 DEF Emitted
<1> HIDE DEF d1
<1>12. PICK B2 : Emitted(code, A, d1, B1, j, s1, H, B2)
  <2>1. Legal(j, s1) /\ TempsAfter(j, s1) = 1
    BY <1>3, <1>6, <1>9 DEF Legal, TempsAfter
  <2>2. \E C : Emitted(code, A, d1, B1, j, Ctx(T, vs, 1, f), H, C)
    <3>1. Legal(j, Ctx(T, vs, 1, f)) /\ 1 = TempsAfter(j, Ctx(T, vs, 1, f)) /\ B1[Len(d1) + 1] = Ctx(T, vs, 1, f)
      BY <1>8, <1>11, <2>1
    <3> QED BY <1>2, <1>4, <1>6, <1>11, <3>1, EmitStack
  <2> QED BY <1>8, <2>2
<1>13. Compiled(code, A, d2, B2, H) /\ Len(d2) = Len(code) + 2 /\ B2[Len(d2) + 1] = s1
  BY <1>2, <1>11, <1>12 DEF Emitted
<1> HIDE DEF d2
<1>14. PICK B : Emitted(code, A, d2, B2, l, s0, H, B)
  <2>1. Legal(l, s1) /\ TempsAfter(l, s1) = 0
    BY <1>6, <1>9 DEF Legal, TempsAfter
  <2>2. \E C : Emitted(code, A, d2, B2, l, Ctx(T, vs, 0, f), H, C)
    <3>1. Legal(l, Ctx(T, vs, 1, f)) /\ 0 = TempsAfter(l, Ctx(T, vs, 1, f)) /\ B2[Len(d2) + 1] = Ctx(T, vs, 1, f)
      BY <1>8, <1>13, <2>1
    <3> QED BY <1>2, <1>4, <1>6, <1>13, <3>1, EmitStack
  <2> QED BY <1>8, <2>2
<1>15. Compiled(code, A, code', B, H) /\ Len(code') = Len(code) + 3 /\ B[Len(code') + 1] = s0
  BY <1>2, <1>7, <1>13, <1>14 DEF Emitted
<1>16. locals' \in Seq(Nat) /\ Prefix(locals, locals') /\ Len(code) < Len(code')
  <2>1. Len(code) < Len(code')
    BY <1>2, <1>15
  <2> QED BY <1>1, <1>2, <1>5, <2>1, PrefixRefl
<1>17. CallsAt(code', pending')
  BY <1>5, <1>15, CallsKept DEF CompilerInv
<1>18. CompilerInv(B)'
  BY <1>1, <1>5, <1>8, <1>15, <1>16, <1>17, PlainNext
<1> QED BY <1>18

\* What was typed before is still typed so.
LEMMA CompiledSame ==
  ASSUME NEW c, NEW A, NEW d, NEW B, NEW holes, Compiled(c, A, d, B, holes), NEW q \in 1..(Len(c) + 1)
  PROVE  B[q] = A[q]
<1>1. c \in Seq(Instr) /\ Len(c) \in Nat
  BY DEF Compiled
<1>2. CASE q <= Len(c)
  BY <1>1, <1>2 DEF Compiled, Grown
<1>3. CASE q = Len(c) + 1
  BY <1>3 DEF Compiled
<1> QED BY <1>1, <1>2, <1>3

LEMMA CallTyped ==
  ASSUME NEW A, Kept, CompilerInv(A), Call, UNCHANGED vmVars
  PROVE  \E B : CompilerInv(B)'
<1>1. PICK T, vs, f, H, K : /\ T = TriesAround(open) /\ vs = locals /\ f = InFunction
                            /\ H = HolesIn(open) \cup pending /\ K = HolesIn(open) \cup pending'
  OBVIOUS
<1>2. /\ code \in Seq(Instr) /\ Len(code) \in Nat /\ T \in Seq(Nat) /\ vs \in Seq(Nat) /\ f \in BOOLEAN
      /\ Context \in [tries : Seq(Nat), vars : Seq(Nat)] /\ Here = Len(code) + 1 /\ entry \in Nat
  BY <1>1, ContextFacts DEF Kept
<1> DEFINE a == I("PUSH", 0)
           b == Slot("PUSH", 0, Param)
           g == I("CALL", entry)
           k == I("BINARY", 0)
           l == I("POP", 0)
           d1 == Append(code, AsFirst(a))
           d2 == Append(d1, b)
           d3 == Append(d2, g)
           d4 == Append(d3, k)
<1>3. PICK B1 : Compiled(code, A, d1, B1, H) /\ Len(d1) = Len(code) + 1 /\ B1[Len(d1) + 1] = Ctx(T, vs, 1, f)
  BY <1>1, FirstPush
<1>4. a \in Instr /\ b \in Instr /\ g \in Instr /\ k \in Instr /\ l \in Instr
  BY <1>2 DEF I, Slot, Instr, Opcode, Param
<1>5. /\ code' = code \o First(<<a, b, g, k, l>>)
      /\ pending' = IF entry = 0 THEN pending \cup {Here + 2} ELSE pending
      /\ UNCHANGED <<phase, open, locals, tryDepth, entry>>
  BY DEF Call
<1>6. /\ b.op = "PUSH" /\ b.var = Param /\ b.stmt = None
      /\ g.op = "CALL" /\ g.n = entry /\ g.stmt = None
      /\ k.op = "BINARY" /\ k.stmt = None /\ l.op = "POP" /\ l.stmt = None
  BY DEF Slot, I
<1> HIDE DEF a, b, g, k, l
<1>7. code' = Append(d4, l)
  <2>1. code \o First(<<a, b, g, k, l>>) = Append(Append(Append(Append(Append(code, AsFirst(a)), b), g), k), l)
    <3>1. Context \in [tries : Seq(Nat), vars : Seq(Nat)] /\ code \in Seq(Instr)
      BY <1>2
    <3>2. \A c \in Seq(Instr) : \A i1 \in Instr : \A i2 \in Instr : \A i3 \in Instr : \A i4 \in Instr : \A i5 \in Instr :
             c \o First(<<i1, i2, i3, i4, i5>>)
                 = Append(Append(Append(Append(Append(c, AsFirst(i1)), i2), i3), i4), i5)
      BY <3>1, Block5
    <3>3. PICK c1 \in Seq(Instr), a1 \in Instr, b1 \in Instr, g1 \in Instr, k1 \in Instr, l1 \in Instr :
             c1 = code /\ a1 = a /\ b1 = b /\ g1 = g /\ k1 = k /\ l1 = l
      BY <1>4, <3>1
    <3>4. c1 \o First(<<a1, b1, g1, k1, l1>>)
                 = Append(Append(Append(Append(Append(c1, AsFirst(a1)), b1), g1), k1), l1)
      BY ONLY <3>2, Z3T(20)
    <3> QED BY <3>3, <3>4
  <2> QED BY <1>5, <2>1
<1>8. H \subseteq K /\ (entry = 0 => Here + 2 \in K)
  BY <1>1, <1>5
<1>9. PICK s1, s2, s3 : /\ s1 = Ctx(T, vs, 1, f) /\ s2 = [Ctx(T, vs, 2, f) EXCEPT !.arg = TRUE]
                        /\ s3 = Ctx(T, vs, 2, f)
  OBVIOUS
<1>10. /\ s2 \in Shape /\ s2.tries = T /\ s2.vars = vs /\ s2.func = f /\ s2.temps = 2 /\ s2.arg
       /\ s3 \in Shape /\ s3.tries = T /\ s3.vars = vs /\ s3.func = f /\ s3.temps = 2 /\ ~s3.arg
       /\ s1.tries = T /\ s1.vars = vs /\ s1.func = f /\ s1.temps = 1 /\ ~s1.arg
  BY <1>2, <1>9 DEF Ctx, Shape
<1> HIDE DEF d1
<1>11. PICK B2 : Emitted(code, A, d1, B1, b, s2, H, B2)
  <2>1. Emittable(d1, B1, H, b, s2)
    <3>1. Legal(b, s1)
      BY <1>6 DEF Legal
    <3>2. Steps(b, Len(d1) + 1, s1, s2)
      BY <1>6, <1>10, PrefixRefl DEF Steps, TriesAfter, VarsAfter, TempsAfter
    <3> QED BY <1>3, <1>6, <1>9, <3>1, <3>2 DEF Emittable, Branching
  <2>2. Marks(s2) = Marks(B1[Len(d1) + 1]) /\ s2.func = B1[Len(d1) + 1].func
    BY <1>3, <1>9, <1>10 DEF Marks
  <2> QED BY <1>3, <1>4, <1>10, <2>1, <2>2, EmitHere
<1>12. Compiled(code, A, d2, B2, H) /\ Len(d2) = Len(code) + 2 /\ B2[Len(d2) + 1] = s2
  BY <1>2, <1>3, <1>11 DEF Emitted
<1> HIDE DEF d2
<1>13. PICK B3 : Emitted(code, A, d2, B2, g, s3, K, B3)
  <2>1. Emittable(d2, B2, K, g, s3)
    <3>1. Legal(g, s2)
      BY <1>6, <1>10 DEF Legal
    <3>2. Steps(g, Len(d2) + 1, s2, s3)
      BY <1>6, <1>10, PrefixRefl DEF Steps, TriesAfter, VarsAfter, TempsAfter
    <3>3. Len(d2) + 1 \in K \/ (g.n \in 1..(Len(d2) + 1) /\ B2[g.n] = EntryShape)
      <4>1. CASE entry = 0
        BY <1>2, <1>8, <1>12, <4>1
      <4>2. CASE entry # 0
        <5>1. entry \in 1..(Len(code) + 1) /\ A[entry] = EntryShape
          BY <1>2, <4>2 DEF CompilerInv
        <5>2. B2[entry] = A[entry]
          BY <1>12, <5>1, CompiledSame
        <5> QED BY <1>2, <1>6, <1>12, <5>1, <5>2
      <4> QED BY <4>1, <4>2
    <3> QED BY <1>6, <1>12, <3>1, <3>2, <3>3 DEF Emittable, Branching
  <2>2. Marks(s3) = Marks(B2[Len(d2) + 1]) /\ s3.func = B2[Len(d2) + 1].func
    BY <1>10, <1>12 DEF Marks
  <2> QED BY <1>4, <1>8, <1>10, <1>12, <2>1, <2>2, EmitHere
<1>14. Compiled(code, A, d3, B3, K) /\ Len(d3) = Len(code) + 3 /\ B3[Len(d3) + 1] = s3
  BY <1>2, <1>12, <1>13 DEF Emitted
<1>15. d2 \in Seq(Instr)
  BY <1>12, CompiledTyped
<1>16. d3 \in Seq(Instr) /\ d3[Len(code) + 3] = g
  BY <1>2, <1>4, <1>12, <1>15
<1> HIDE DEF d3
<1>17. PICK B4 : Emitted(code, A, d3, B3, k, s1, K, B4)
  <2>1. Legal(k, s3) /\ TempsAfter(k, s3) = 1
    BY <1>6, <1>10 DEF Legal, TempsAfter
  <2>2. Legal(k, Ctx(T, vs, 2, f)) /\ 1 = TempsAfter(k, Ctx(T, vs, 2, f)) /\ B3[Len(d3) + 1] = Ctx(T, vs, 2, f)
    BY <1>9, <1>14, <2>1
  <2>3. \E C : Emitted(code, A, d3, B3, k, Ctx(T, vs, 1, f), K, C)
    BY <1>2, <1>4, <1>6, <1>14, <2>2, EmitStack
  <2> QED BY <1>9, <2>3
<1>18. Compiled(code, A, d4, B4, K) /\ Len(d4) = Len(code) + 4 /\ B4[Len(d4) + 1] = s1
  BY <1>2, <1>14, <1>17 DEF Emitted
<1>19. d4 \in Seq(Instr) /\ d4[Len(code) + 3] = g
  BY <1>2, <1>4, <1>14, <1>16
<1> HIDE DEF d4
<1>20. PICK B : Emitted(code, A, d4, B4, l, Ctx(T, vs, 0, f), K, B)
  <2>1. Legal(l, s1) /\ TempsAfter(l, s1) = 0
    BY <1>6, <1>10 DEF Legal, TempsAfter
  <2>2. Legal(l, Ctx(T, vs, 1, f)) /\ 0 = TempsAfter(l, Ctx(T, vs, 1, f)) /\ B4[Len(d4) + 1] = Ctx(T, vs, 1, f)
    BY <1>9, <1>18, <2>1
  <2> QED BY <1>2, <1>4, <1>6, <1>18, <2>2, EmitStack
<1>21. /\ Compiled(code, A, code', B, K) /\ Len(code') = Len(code) + 5
       /\ B[Len(code') + 1] = Ctx(T, vs, 0, f)
  BY <1>2, <1>7, <1>18, <1>20 DEF Emitted
<1>22. code'[Len(code) + 3] = g
  BY <1>2, <1>4, <1>7, <1>18, <1>19
<1>23. CallsAt(code', pending')
  <2>1. CallsAt(code', pending)
    BY <1>21, CallsKept DEF CompilerInv
  <2>2. Here + 2 = Len(code) + 3 /\ Here + 2 \in 1..Len(code')
    BY <1>2, <1>21
  <2> QED BY <1>5, <1>6, <1>22, <2>1, <2>2 DEF CallsAt
<1>24. locals' \in Seq(Nat) /\ Prefix(locals, locals') /\ Len(code) < Len(code')
  <2>1. Len(code) < Len(code')
    BY <1>2, <1>21
  <2> QED BY <1>1, <1>2, <1>5, <2>1, PrefixRefl
<1>25. CompilerInv(B)'
  BY <1>1, <1>5, <1>21, <1>23, <1>24, PlainNext
<1> QED BY <1>25
-----------------------------------------------------------------------------
\* Leaving loops.
LEMMA NatLeast ==
  ASSUME NEW T, T \subseteq Nat, T # {}
  PROVE  \E x \in T : \A y \in T : x <= y
<1>1. PICK x \in T : \A y \in T : ~(<<y, x>> \in OpToRel(<, Nat))
  BY NatLessThanWellFounded, WFMin
<1>2. \A y \in T : y \in Nat /\ x \in Nat
  OBVIOUS
<1>3. \A y \in T : ~(y < x)
  BY <1>1, <1>2, Zenon DEF OpToRel
<1> QED BY <1>2, <1>3

LEMMA LoopExists ==
  ASSUME open \in Seq(Constructs), InLoop
  PROVE  LoopAt \in 1..Len(open) /\ IsLoop(open[LoopAt])
<1> DEFINE T == {m \in 0..(Len(open) - 1) : IsLoop(open[Len(open) - m])}
<1>1. Len(open) \in Nat
  OBVIOUS
<1>2. PICK i \in 1..Len(open) : IsLoop(open[i])
  BY DEF InLoop
<1>3. Len(open) - i \in T
  <2>1. Len(open) - (Len(open) - i) = i /\ Len(open) - i \in 0..(Len(open) - 1)
    BY <1>1
  <2> QED BY <1>2, <2>1
<1>4. PICK m \in T : \A y \in T : m <= y
  <2>1. T # {}
    BY <1>3
  <2>2. T \subseteq Nat
    BY <1>1
  <2> HIDE DEF T
  <2> QED BY <2>1, <2>2, NatLeast
<1>5. Len(open) - m \in 1..Len(open) /\ IsLoop(open[Len(open) - m])
  BY <1>1, <1>4
<1>6. ASSUME NEW j \in (Len(open) - m + 1)..Len(open), IsLoop(open[j]) PROVE FALSE
  <2>1. Len(open) - j \in 0..(Len(open) - 1) /\ Len(open) - (Len(open) - j) = j /\ Len(open) - j < m
    BY <1>1, <1>4, <1>6
  <2>2. Len(open) - j \in T
    BY <1>6, <2>1
  <2> QED BY <1>4, <2>1, <2>2
<1> QED BY <1>5, <1>6 DEF LoopAt

\* What is known of the loop that is left.
LEMMA LoopFacts ==
  ASSUME NEW A, Kept, CompilerInv(A), InLoop, NEW o, o = open[LoopAt]
  PROVE  /\ LoopAt \in 1..Len(open) /\ o \in Constructs /\ IsLoop(o)
         /\ Attached(code, A, o, InFunction)
         /\ o.tries \in Seq(Nat) /\ o.saved \in Seq(Nat) /\ Body(A, o) \in Seq(Nat) /\ o.start \in 1..(Len(code) + 1)
         /\ Prefix(o.saved, Body(A, o)) /\ Prefix(Body(A, o), locals) /\ Prefix(o.saved, locals)
         /\ Prefix(o.tries, TriesAround(open))
         /\ tryDepth = Len(TriesAround(open)) /\ o.depth = Len(o.tries)
         /\ A[o.start] = Ctx(o.tries, Body(A, o), 0, InFunction)
<1>1. /\ A \in [Nat -> Shape] /\ open \in Seq(Constructs) /\ locals \in Seq(Nat)
  BY ContextFacts
<1>2. PICK L : L = LoopAt
  OBVIOUS
<1>3. L \in 1..Len(open) /\ IsLoop(o) /\ o = open[L]
  BY <1>1, <1>2, LoopExists
<1>4. o \in Constructs
  BY <1>1, <1>3
<1>5. o.tries \in Seq(Nat) /\ o.saved \in Seq(Nat) /\ o.start \in Nat
  BY <1>4 DEF Constructs
<1>6. Attached(code, A, o, InFunction)
  BY <1>3 DEF CompilerInv, Stacked
<1>7. Body(A, o) \in Seq(Nat)
  BY <1>1, <1>5 DEF Body, Shape
<1>8. Prefix(Body(A, o), locals) /\ Prefix(o.tries, TriesAround(open))
  BY <1>3 DEF CompilerInv, Scoped
<1>9. /\ Prefix(o.saved, Body(A, o)) /\ o.depth = Len(o.tries) /\ o.start \in 1..(Len(code) + 1)
      /\ A[o.start] = Ctx(o.tries, Body(A, o), 0, InFunction)
  BY <1>3, <1>6 DEF Attached
<1>10. Prefix(o.saved, locals)
  BY <1>1, <1>5, <1>7, <1>8, <1>9, PrefixTrans
<1>11. tryDepth = Len(TriesAround(open))
  BY DEF CompilerInv
<1> QED BY <1>2, <1>3, <1>4, <1>5, <1>6, <1>7, <1>8, <1>9, <1>10, <1>11

\* An open loop learns of one more jump to patch.
Wider(o, o2) == /\ o2.kind = o.kind /\ o2.try = o.try /\ o2.tries = o.tries /\ o2.saved = o.saved
                /\ o2.start = o.start /\ HolesOf(o) \subseteq HolesOf(o2)
Updated(os, m, o) == [os EXCEPT ![m] = o]

LEMMA StackedChange ==
  ASSUME NEW c, NEW A, NEW os, NEW func, Stacked(c, A, os, func), NEW m \in 1..Len(os), NEW o \in Constructs,
         Attached(c, A, o, func),
         Wider(os[m], o),
         NEW os2, os2 = Updated(os, m, o), NEW vs, Scoped(A, os, vs)
  PROVE  /\ Stacked(c, A, os2, func) /\ Scoped(A, os2, vs) /\ TriesAround(os2) = TriesAround(os)
         /\ HolesIn(os) \subseteq HolesIn(os2) /\ (HolesOf(o) \cap Nat) \subseteq HolesIn(os2)
<1>1. os \in Seq(Constructs) /\ Len(os) \in Nat
  BY DEF Stacked
<1>2. /\ os2 \in Seq(Constructs) /\ Len(os2) = Len(os) /\ os2[m] = o
      /\ \A i \in 1..Len(os) : i # m => os2[i] = os[i]
  BY <1>1 DEF Updated
<1>3. Body(A, o) = Body(A, os[m]) /\ TriesIn(o) = TriesIn(os[m]) /\ (IsLoop(o) <=> IsLoop(os[m]))
  BY DEF Wider, Body, TriesIn, IsLoop
<1>4. \A i \in 1..Len(os) : /\ Body(A, os2[i]) = Body(A, os[i]) /\ TriesIn(os2[i]) = TriesIn(os[i])
                            /\ IsLoop(os2[i]) <=> IsLoop(os[i])
                            /\ os2[i].tries = os[i].tries /\ os2[i].saved = os[i].saved
                            /\ os2[i].start = os[i].start
                            /\ HolesOf(os[i]) \subseteq HolesOf(os2[i])
  BY <1>2, <1>3 DEF Wider
<1>5. \A i \in 1..Len(os) : Attached(c, A, os2[i], func)
  BY <1>2 DEF Stacked
<1>6. \A i \in 1..Len(os) : os2[i].tries = IF i = 1 THEN <<>> ELSE TriesIn(os2[i - 1])
  <2> SUFFICES ASSUME NEW i \in 1..Len(os)
               PROVE  os2[i].tries = IF i = 1 THEN <<>> ELSE TriesIn(os2[i - 1])
    OBVIOUS
  <2>1. i = 1 \/ i - 1 \in 1..Len(os)
    BY <1>1
  <2>2. os[i].tries = IF i = 1 THEN <<>> ELSE TriesIn(os[i - 1])
    BY DEF Stacked
  <2> QED BY <1>4, <2>1, <2>2
<1>7. \A i, j \in 1..Len(os) : i < j => /\ Prefix(Body(A, os2[i]), os2[j].saved)
                                        /\ Prefix(os2[i].tries, os2[j].tries)
                                        /\ IsLoop(os2[i]) => Settled(os2[i].start, c, os2[j])
  <2>1. \A i, j \in 1..Len(os) : i < j => /\ Prefix(Body(A, os[i]), os[j].saved)
                                          /\ Prefix(os[i].tries, os[j].tries)
                                          /\ IsLoop(os[i]) => Settled(os[i].start, c, os[j])
    BY DEF Stacked
  <2>2. \A p \in Nat, j \in 1..Len(os) : Settled(p, c, os[j]) => Settled(p, c, os2[j])
    BY Zenon, <1>4 DEF Settled
  <2>3. \A i \in 1..Len(os) : os[i].start \in Nat
    <3>1. \A i \in 1..Len(os) : os[i] \in Constructs
      BY <1>1
    <3> QED BY <3>1 DEF Constructs
  <2> QED BY <1>4, <2>1, <2>2, <2>3
<1>8. Stacked(c, A, os2, func)
  BY <1>2, <1>5, <1>6, <1>7 DEF Stacked
<1>9. TriesAround(os2) = TriesAround(os)
  <2>1. os # <<>> /\ os2 # <<>> /\ Len(os) \in 1..Len(os)
    BY <1>1, <1>2
  <2> QED BY <1>2, <1>4, <2>1 DEF TriesAround
<1>10. Scoped(A, os2, vs)
  BY <1>2, <1>4, <1>9 DEF Scoped
<1>11. HolesIn(os) \subseteq HolesIn(os2)
  BY <1>2, <1>4 DEF HolesIn
<1>12. (HolesOf(o) \cap Nat) \subseteq HolesIn(os2)
  BY <1>2 DEF HolesIn
<1> QED BY <1>8, <1>9, <1>10, <1>11, <1>12

LEMMA SmallModulo == ASSUME NEW m \in Nat, NEW x \in Nat, x < m PROVE x % m = x
OBVIOUS

LEMMA PairConcat ==
  ASSUME NEW a \in Instr, NEW b \in Instr PROVE <<>> \o <<b>> = <<b>> /\ <<a>> \o <<b>> = <<a, b>>
<1>1. Append(<<>>, b) = <<b>> /\ <<a, b>> = Append(<<a>>, b)
  OBVIOUS
<1>2. <<>> \in Seq(Instr) /\ <<a>> \in Seq(Instr)
  OBVIOUS
<1> QED BY <1>1, <1>2, ConcatAppend

\* The handlers of the try blocks left are popped, and then comes the jump.
Away(n) == code \o First(Leave \o <<I("JUMP", n)>>)

\* The branch is yet to be filled in, or leads back to the test of loop o.
Aims(K, o, n) == JumpPos \in K \/ JumpPos + 1 + n = o.start

LEMMA EmitBranchAway ==
  ASSUME NEW A, Kept, CompilerInv(A), OperandsFit, InLoop, NEW o, o = open[LoopAt], NEW n \in Int, NEW K,
         HolesIn(open) \cup pending \subseteq K, NEW e, e = Away(n), Aims(K, o, n)
  PROVE  \E B : /\ Compiled(code, A, e, B, K) /\ Len(code) < Len(e)
                /\ B[Len(e) + 1] = Ctx(TriesAround(open), locals, 0, InFunction)
                /\ JumpPos \in 1..Len(e) /\ e[JumpPos].op = "JUMP"
                /\ B[JumpPos] = Ctx(o.tries, locals, 0, InFunction)
<1>0. JumpPos \in K \/ JumpPos + 1 + n = o.start
  BY DEF Aims
<1>1. PICK T, vs, f, H : T = TriesAround(open) /\ vs = locals /\ f = InFunction /\ H = HolesIn(open) \cup pending
  OBVIOUS
<1>2. /\ code \in Seq(Instr) /\ Len(code) \in Nat /\ T \in Seq(Nat) /\ vs \in Seq(Nat) /\ f \in BOOLEAN
      /\ Context \in [tries : Seq(Nat), vars : Seq(Nat)] /\ Context = [tries |-> T, vars |-> vs]
      /\ A \in [Nat -> Shape] /\ Here = Len(code) + 1
      /\ A[Len(code) + 1] = Ctx(T, vs, 0, f) /\ Compiled(code, A, code, A, H)
      /\ Nests(code, A, A[Len(code) + 1])
  BY <1>1, ContextFacts
<1>3. /\ o.tries \in Seq(Nat) /\ Body(A, o) \in Seq(Nat) /\ o.start \in 1..(Len(code) + 1)
      /\ Prefix(Body(A, o), vs) /\ Prefix(o.tries, T) /\ tryDepth = Len(T) /\ o.depth = Len(o.tries)
      /\ A[o.start] = Ctx(o.tries, Body(A, o), 0, f)
  BY <1>1, LoopFacts
<1>4. PICK s0, s1, s2 : /\ s0 = Ctx(T, vs, 0, f) /\ s1 = Ctx(o.tries, vs, 0, f)
                        /\ s2 = Ctx(o.tries, Body(A, o), 0, f)
  OBVIOUS
<1>5. /\ s0 \in Shape /\ s0.tries = T /\ s0.vars = vs /\ s0.temps = 0 /\ ~s0.arg /\ s0.func = f
      /\ s1 \in Shape /\ s1.tries = o.tries /\ s1.vars = vs /\ s1.temps = 0 /\ ~s1.arg /\ s1.func = f
      /\ s2.tries = o.tries /\ s2.vars = Body(A, o) /\ s2.temps = 0 /\ ~s2.arg /\ s2.func = f
  BY <1>2, <1>3, <1>4, CtxTyped DEF Ctx
<1> DEFINE j == I("JUMP", n)
<1>6. j \in Instr /\ j.op = "JUMP" /\ j.n = n /\ j.stmt = None
  BY DEF I, Instr, Opcode
<1> HIDE DEF j
<1>7. ExtraHandlers = Len(T) - Len(o.tries) /\ ExtraHandlers \in Nat
  BY <1>2, <1>3 DEF ExtraHandlers, Prefix
<1>8. Taken("JUMP", s1, s2)
  BY <1>3, <1>5 DEF Taken
<1> DEFINE Reached == \E B : /\ Compiled(code, A, e, B, K) /\ Len(code) < Len(e) /\ B[Len(e) + 1] = s0
                             /\ JumpPos \in 1..Len(e) /\ e[JumpPos].op = "JUMP" /\ B[JumpPos] = s1
<1>9. ASSUME ExtraHandlers = 0 PROVE Reached
  <2>1. o.tries = T
    BY <1>2, <1>3, <1>7, <1>9, PrefixSame
  <2>2. Leave = <<>> /\ JumpPos = Len(code) + 1
    BY <1>2, <1>9 DEF Leave, JumpPos
  <2>3. e = Append(code, AsFirst(j))
    <3>1. Leave \o <<j>> = <<j>>
      BY <1>6, <2>2
    <3> QED BY <1>2, <1>6, <3>1, Block1 DEF j, Away
  <2>4. PICK g \in Instr : g = AsFirst(j)
    BY <1>2, <1>6, FirstTyped
  <2>5. g.op = "JUMP" /\ g.n = n /\ g.stmt = Context
    BY <1>2, <1>6, <2>4 DEF AsFirst, Instr
  <2>6. Emittable(code, A, K, g, s0)
    <3>1. Legal(g, s0)
      BY <2>5 DEF Legal
    <3>2. g.stmt = Marks(s0)
      BY <1>2, <1>5, <2>5 DEF Marks
    <3>3. Taken("JUMP", s0, s2) /\ A[o.start] = s2
      BY <1>3, <1>4, <1>8, <2>1
    <3> QED BY <1>0, <1>2, <1>3, <1>4, <1>5, <2>2, <2>5, <3>1, <3>2, <3>3 DEF Emittable, Branching, Falls
  <2>7. PICK B : Emitted(code, A, code, A, g, s0, K, B)
    BY <1>1, <1>2, <1>4, <1>5, <2>4, <2>6, EmitHere
  <2>8. Compiled(code, A, e, B, K) /\ Len(e) = Len(code) + 1 /\ e[Len(code) + 1] = g
        /\ B[Len(code) + 1] = A[Len(code) + 1] /\ B[Len(code) + 2] = s0
    BY <2>3, <2>4, <2>7 DEF Emitted
  <2>9. JumpPos \in 1..Len(e) /\ e[JumpPos].op = "JUMP" /\ B[JumpPos] = s1 /\ Len(code) < Len(e) /\ B[Len(e) + 1] = s0
    <3>1. s1 = s0 /\ A[Len(code) + 1] = s0
      BY <1>2, <1>4, <2>1
    <3>2. Len(code) < Len(e) /\ JumpPos \in 1..Len(e) /\ B[Len(e) + 1] = s0
      BY ONLY <1>2, <2>2, <2>8
    <3> QED BY <2>2, <2>5, <2>8, <3>1, <3>2
  <2> QED BY <2>8, <2>9
<1>10. ASSUME ExtraHandlers > 0 PROVE Reached
  <2> DEFINE i == I("POP_HANDLERS", ExtraHandlers)
             d == Append(code, AsFirst(i))
  <2>1. ExtraHandlers % ByteMod = ExtraHandlers
    <3>1. ByteMod \in Nat
      BY CompilerAssumption
    <3>2. Len(T) \in Nat /\ Len(o.tries) \in Nat /\ Len(T) < ByteMod
      BY <1>2, <1>3 DEF OperandsFit
    <3>3. ExtraHandlers \in Nat /\ ExtraHandlers < ByteMod
      BY <1>7, <3>1, <3>2
    <3> QED BY <3>1, <3>3, SmallModulo
  <2>2. Leave = <<i>> /\ JumpPos = Len(code) + 2
    BY <1>2, <1>10, <2>1 DEF Leave, JumpPos
  <2>3. i \in Instr /\ i.op = "POP_HANDLERS" /\ i.n = ExtraHandlers
    BY <1>7 DEF I, Instr, Opcode
  <2> HIDE DEF i
  <2>4. e = Append(d, j)
    <3>1. Leave \o <<j>> = <<i, j>>
      <4>1. <<i>> \o <<j>> = <<i, j>>
        BY <1>6, <2>3, PairConcat
      <4> QED BY <2>2, <4>1
    <3>2. code \o First(<<i, j>>) = Append(Append(code, AsFirst(i)), j)
      BY <1>2, <1>6, <2>3, Block2
    <3> QED BY <3>1, <3>2 DEF j, Away
  <2>5. PICK g \in Instr : g = AsFirst(i)
    BY <1>2, <2>3, FirstTyped
  <2>6. g.op = "POP_HANDLERS" /\ g.n = ExtraHandlers /\ g.stmt = Context
    BY <1>2, <2>3, <2>5 DEF AsFirst, Instr
  <2>7. Emittable(code, A, K, g, s1)
    <3>1. Legal(g, s0)
      BY <1>2, <1>3, <1>5, <1>7, <2>6 DEF Legal
    <3>2. g.stmt = Marks(s0)
      BY <1>2, <1>5, <2>6 DEF Marks
    <3>3. SubSeq(T, 1, Len(T) - ExtraHandlers) = o.tries
      <4>1. Len(T) - ExtraHandlers = Len(o.tries)
        BY <1>2, <1>3, <1>7
      <4> QED BY <1>2, <1>3, <4>1, PrefixCut
    <3>4. Steps(g, Len(code) + 1, s0, s1)
      BY <1>5, <2>6, <3>3, PrefixRefl DEF Steps, TriesAfter, VarsAfter, TempsAfter
    <3> QED BY <1>2, <1>4, <1>5, <2>6, <3>1, <3>2, <3>4 DEF Emittable, Branching
  <2>8. Nests(code, A, s1)
    <3>1. Len(o.tries) \in 0..Len(T)
      <4>1. Len(o.tries) \in Nat /\ Len(T) \in Nat /\ Len(o.tries) <= Len(T)
        BY <1>2, <1>3 DEF Prefix
      <4> QED BY ONLY <4>1
    <3>2. SubSeq(T, 1, Len(o.tries)) = o.tries
      BY <1>2, <1>3, PrefixCut
    <3> QED BY <1>2, <1>4, <1>5, <3>1, <3>2, NestsFewer
  <2>9. PICK B1 : Emitted(code, A, code, A, g, s1, K, B1)
    BY <1>1, <1>2, <1>4, <1>5, <2>5, <2>7, <2>8, Emit
  <2>10. Compiled(code, A, d, B1, K) /\ Len(d) = Len(code) + 1 /\ B1[Len(d) + 1] = s1
    BY <1>2, <2>5, <2>9 DEF Emitted
  <2>11. d \in Seq(Instr) /\ Nests(d, B1, s0)
    <3>1. d \in Seq(Instr) /\ Grown(code, A, d, B1)
      BY <2>10, CompiledTyped DEF Compiled
    <3>2. Nests(code, A, s0)
      BY <1>2, <1>4
    <3> QED BY <1>2, <1>5, <3>1, <3>2, NestsKept
  <2> HIDE DEF d
  <2>12. PICK B : Emitted(code, A, d, B1, j, s0, K, B)
    <3>1. Emittable(d, B1, K, j, s0)
      <4>1. Legal(j, s1)
        BY <1>6 DEF Legal
      <4>2. B1[o.start] = s2
        BY <1>3, <1>4, <2>10, CompiledSame
      <4> QED BY <1>0, <1>2, <1>3, <1>6, <1>8, <2>2, <2>10, <4>1, <4>2 DEF Emittable, Branching, Falls
    <3> QED BY <1>5, <1>6, <2>10, <2>11, <3>1, Emit
  <2>13. Compiled(code, A, e, B, K) /\ Len(e) = Len(d) + 1 /\ e[Len(d) + 1] = j
         /\ B[Len(d) + 1] = s1 /\ B[Len(d) + 2] = s0
    BY <2>4, <2>10, <2>12 DEF Emitted
  <2>14. JumpPos \in 1..Len(e) /\ e[JumpPos].op = "JUMP" /\ B[JumpPos] = s1 /\ Len(code) < Len(e) /\ B[Len(e) + 1] = s0
    <3>1. Len(code) < Len(e) /\ JumpPos = Len(d) + 1 /\ JumpPos \in 1..Len(e) /\ B[Len(e) + 1] = s0
      BY ONLY <1>2, <2>2, <2>10, <2>13
    <3> QED BY <1>6, <2>13, <3>1
  <2> QED BY <2>13, <2>14
<1>11. Reached
  <2>1. ExtraHandlers = 0 \/ ExtraHandlers > 0
    BY <1>7
  <2> HIDE DEF Reached
  <2> QED BY <1>9, <1>10, <2>1
<1> QED BY <1>1, <1>4, <1>11

\* stop_riding, and keep_riding in a loop with a step.
Noted(o, p, o2) == \/ o2 = [o EXCEPT !.breaks = o.breaks \cup {p}]
                   \/ o.kind = "for" /\ o2 = [o EXCEPT !.continues = o.continues \cup {p}]

LEMMA JumpTyped ==
  ASSUME NEW A, Kept, CompilerInv(A), OperandsFit, InLoop, UNCHANGED vmVars,
         code' = Away(0), UNCHANGED <<phase, locals, tryDepth, entry, pending>>,
         NEW o, o = open[LoopAt], NEW o2 \in Constructs, Noted(o, JumpPos, o2),
         open' = Updated(open, LoopAt, o2)
  PROVE  \E B : CompilerInv(B)'
<1>1. PICK T, vs, f, L, K : /\ T = TriesAround(open) /\ vs = locals /\ f = InFunction /\ L = LoopAt
                            /\ K = HolesIn(open') \cup pending
  OBVIOUS
<1>2. /\ code \in Seq(Instr) /\ Len(code) \in Nat /\ vs \in Seq(Nat) /\ f \in BOOLEAN
      /\ A \in [Nat -> Shape] /\ open \in Seq(Constructs)
  BY <1>1, ContextFacts
<1>3. /\ L \in 1..Len(open) /\ o \in Constructs /\ IsLoop(o) /\ o.tries \in Seq(Nat) /\ o.saved \in Seq(Nat)
      /\ Prefix(Body(A, o), vs) /\ Prefix(o.saved, vs)
  BY <1>1, LoopFacts
<1>4. /\ o2.kind = o.kind /\ o2.try = o.try /\ o2.tries = o.tries /\ o2.saved = o.saved /\ o2.start = o.start
      /\ o2.jump = o.jump /\ o2.depth = o.depth
      /\ \/ o2.breaks = o.breaks \cup {JumpPos} /\ o2.continues = o.continues
         \/ o2.breaks = o.breaks /\ o2.continues = o.continues \cup {JumpPos} /\ o.kind = "for"
  BY <1>3 DEF Constructs, Noted
<1>5. HolesOf(o) \subseteq HolesOf(o2) /\ JumpPos \in HolesOf(o2)
  BY <1>4 DEF HolesOf
<1>6. JumpPos \in Nat
  BY <1>2 DEF JumpPos, Here, Leave
<1>7. HolesIn(open) \cup pending \subseteq K /\ JumpPos \in K
  <2>1. /\ open' \in Seq(Constructs) /\ Len(open') = Len(open) /\ open'[L] = o2
        /\ \A i \in 1..Len(open) : i # L => open'[i] = open[i]
    BY <1>1, <1>2, <1>3 DEF Updated
  <2>2. \A i \in 1..Len(open) : HolesOf(open[i]) \subseteq HolesOf(open'[i])
    BY <1>1, <1>5, <2>1
  <2>3. HolesIn(open) \subseteq HolesIn(open')
    BY <2>1, <2>2 DEF HolesIn
  <2>4. JumpPos \in HolesIn(open')
    BY <1>3, <1>5, <1>6, <2>1 DEF HolesIn
  <2> QED BY <1>1, <2>3, <2>4
<1>8. PICK B : /\ Compiled(code, A, code', B, K) /\ Len(code) < Len(code')
               /\ B[Len(code') + 1] = Ctx(T, vs, 0, f)
               /\ JumpPos \in 1..Len(code') /\ code'[JumpPos].op = "JUMP"
               /\ B[JumpPos] = Ctx(o.tries, vs, 0, f)
  <2>0. PICK z \in Int : z = 0
    OBVIOUS
  <2>1. PICK e : e = Away(z)
    OBVIOUS
  <2>2. HolesIn(open) \cup pending \subseteq K /\ Aims(K, o, z)
    BY <1>7 DEF Aims
  <2>3. \E B : /\ Compiled(code, A, e, B, K) /\ Len(code) < Len(e)
               /\ B[Len(e) + 1] = Ctx(TriesAround(open), locals, 0, InFunction)
               /\ JumpPos \in 1..Len(e) /\ e[JumpPos].op = "JUMP"
               /\ B[JumpPos] = Ctx(o.tries, locals, 0, InFunction)
    BY <2>1, <2>2, EmitBranchAway
  <2>4. e = code'
    BY <2>0, <2>1
  <2> QED BY <1>1, <2>3, <2>4
<1>9. Stacked(code', B, open, f) /\ StartsKept(A, B, open)
  <2>1. Stacked(code, A, open, f)
    BY <1>1 DEF CompilerInv
  <2> QED BY <1>2, <1>8, <2>1, CompiledKeeps
<1>10. Scoped(B, open, vs)
  <2>1. Scoped(A, open, vs)
    BY <1>1 DEF CompilerInv
  <2> QED BY <1>2, <1>9, <2>1, PrefixRefl, ScopedKept
<1>11. Attached(code', B, o2, f)
  <2>1. Attached(code', B, o, f)
    BY <1>1, <1>3, <1>9 DEF Stacked
  <2>2. Body(B, o2) = Body(B, o) /\ Body(B, o) = Body(A, o) /\ (IsLoop(o2) <=> IsLoop(o))
    BY <1>1, <1>3, <1>4, <1>9 DEF Body, IsLoop, StartsKept
  <2>3. Taken("JUMP", B[JumpPos], Ctx(o.tries, o.saved, 0, f)) /\ Taken("JUMP", B[JumpPos], Ctx(o.tries, Body(B, o), 0, f))
    BY <1>3, <1>8, <2>2 DEF Taken, Ctx
  <2>4. \A p \in o2.breaks : IsLoop(o2) /\ JumpsFrom(code', B, p, "JUMP", Ctx(o.tries, o.saved, 0, f))
    <3>1. \A p \in o.breaks : JumpsFrom(code', B, p, "JUMP", Ctx(o.tries, o.saved, 0, f))
      BY <2>1 DEF Attached
    <3>2. JumpsFrom(code', B, JumpPos, "JUMP", Ctx(o.tries, o.saved, 0, f))
      BY <1>8, <2>3 DEF JumpsFrom
    <3> QED BY <1>3, <1>4, <2>2, <3>1, <3>2
  <2>5. \A p \in o2.continues : o.kind = "for" /\ JumpsFrom(code', B, p, "JUMP", Ctx(o.tries, Body(B, o), 0, f))
    <3>1. \A p \in o.continues : o.kind = "for" /\ JumpsFrom(code', B, p, "JUMP", Ctx(o.tries, Body(B, o), 0, f))
      BY <2>1 DEF Attached
    <3>2. JumpsFrom(code', B, JumpPos, "JUMP", Ctx(o.tries, Body(B, o), 0, f))
      BY <1>8, <2>3 DEF JumpsFrom
    <3> QED BY <1>4, <3>1, <3>2
  <2> QED BY <1>4, <2>1, <2>2, <2>4, <2>5 DEF Attached
<1>12. /\ Stacked(code', B, open', f) /\ Scoped(B, open', vs) /\ TriesAround(open') = TriesAround(open)
  <2>2. Wider(open[L], o2)
    BY <1>1, <1>4, <1>5 DEF Wider
  <2>3. open' = Updated(open, L, o2)
    BY <1>1
  <2> QED BY <1>3, <1>9, <1>10, <1>11, <2>2, <2>3, StackedChange
<1>13. CallsAt(code', pending')
  BY <1>8, CallsKept DEF CompilerInv
<1>14. open # <<>> /\ tryDepth = Len(TriesAround(open))
  BY <1>2, <1>3 DEF CompilerInv
<1>15. CompilerInv(B)'
  BY <1>1, <1>8, <1>12, <1>13, <1>14, CompilerNext
<1> QED BY <1>15

LEMMA BreakTyped ==
  ASSUME NEW A, Kept, CompilerInv(A), OperandsFit, Break, phase' # "rejected", UNCHANGED vmVars
  PROVE  \E B : CompilerInv(B)'
<1>1. /\ InLoop /\ code' = Away(0) /\ UNCHANGED <<phase, locals, tryDepth, entry, pending>>
      /\ open' = [open EXCEPT ![LoopAt].breaks = @ \cup {JumpPos}]
  BY DEF Break, Reject, Away
<1>2. PICK o : o = open[LoopAt]
  OBVIOUS
<1>3. o \in Constructs /\ LoopAt \in 1..Len(open) /\ open \in Seq(Constructs) /\ Len(code) \in Nat
  BY <1>1, <1>2, ContextFacts, LoopFacts
<1>4. JumpPos \in Nat
  BY <1>3 DEF JumpPos, Here, Leave
<1>5. PICK o2 : o2 = [o EXCEPT !.breaks = o.breaks \cup {JumpPos}]
  OBVIOUS
<1>6. o2 \in Constructs
  BY <1>3, <1>4, <1>5 DEF Constructs
<1>7. open' = Updated(open, LoopAt, o2)
  BY <1>1, <1>2, <1>3, <1>5 DEF Updated
<1>8. Noted(o, JumpPos, o2)
  BY <1>5 DEF Noted
<1> QED BY <1>1, <1>2, <1>6, <1>7, <1>8, JumpTyped

\* keep_riding in a loop that goes straight back to its test.
LEMMA BackTyped ==
  ASSUME NEW A, Kept, CompilerInv(A), OperandsFit, OperandsFit', InLoop, UNCHANGED vmVars,
         NEW o, o = open[LoopAt], NEW n, n = Signed(o.start - JumpPos - 1), code' = Away(n),
         UNCHANGED <<phase, open, locals, tryDepth, entry, pending>>
  PROVE  \E B : CompilerInv(B)'
<1>1. /\ code \in Seq(Instr) /\ Len(code) \in Nat /\ locals \in Seq(Nat) /\ JumpMod \div 2 \in Nat
      /\ o.start \in 1..(Len(code) + 1)
  <2>1. code \in Seq(Instr) /\ Len(code) \in Nat /\ locals \in Seq(Nat)
    BY ContextFacts
  <2>2. o.start \in 1..(Len(code) + 1)
    BY LoopFacts
  <2>3. JumpMod \div 2 \in Nat
    BY CompilerAssumption
  <2> QED BY <2>1, <2>2, <2>3
<1>2. n \in Int
  <2>1. JumpMod \in Nat \ {0, 1} /\ JumpPos \in Nat
    BY <1>1, CompilerAssumption DEF JumpPos, Leave, Here
  <2> QED BY <1>1, <2>1 DEF Signed
<1>3. JumpPos \in Nat /\ JumpPos > Len(code) /\ JumpPos < JumpMod \div 2
  <2>1. PICK K : K = (HolesIn(open) \cup pending) \cup {JumpPos}
    OBVIOUS
  <2>2. PICK e : e = Away(n)
    OBVIOUS
  <2>3. HolesIn(open) \cup pending \subseteq K /\ Aims(K, o, n)
    BY <2>1 DEF Aims
  <2>4. \E B : /\ Compiled(code, A, e, B, K) /\ Len(code) < Len(e)
               /\ B[Len(e) + 1] = Ctx(TriesAround(open), locals, 0, InFunction)
               /\ JumpPos \in 1..Len(e) /\ e[JumpPos].op = "JUMP"
               /\ B[JumpPos] = Ctx(o.tries, locals, 0, InFunction)
    BY <1>2, <2>2, <2>3, EmitBranchAway
  <2>5. JumpPos \in 1..Len(code')
    BY <2>2, <2>4
  <2>6. JumpPos = Len(code) + 1 \/ JumpPos = Len(code) + 2
    BY <1>1 DEF JumpPos, Leave, Here
  <2>7. Len(code') < JumpMod \div 2
    BY DEF OperandsFit
  <2> QED BY <1>1, <2>5, <2>6, <2>7
<1>4. JumpPos + 1 + n = o.start
  <2>1. PICK x \in Int : x = o.start - JumpPos - 1
    BY <1>1, <1>3
  <2>2. x < JumpMod \div 2 /\ -x < JumpMod \div 2
    <3>1. PICK M, j, a, l \in Int : M = JumpMod \div 2 /\ j = JumpPos /\ a = o.start /\ l = Len(code)
      BY <1>1, <1>3
    <3>2. x = a - j - 1 /\ 0 < a /\ a <= l + 1 /\ l < j /\ j < M
      BY <1>1, <1>3, <2>1, <3>1
    <3>3. x < M /\ -x < M
      BY ONLY <3>2, x \in Int, M \in Int, j \in Int, a \in Int, l \in Int
    <3> QED BY <3>1, <3>3
  <2>3. Signed(x) = x
    BY <2>2, SignedFits
  <2>4. n = x
    BY <2>1, <2>3
  <2>5. JumpPos \in Int /\ o.start \in Int
    BY <1>1, <1>3
  <2> QED BY ONLY <2>1, <2>4, <2>5
<1>5. PICK K : K = HolesIn(open) \cup pending
  OBVIOUS
<1>6. PICK B : /\ Compiled(code, A, code', B, K) /\ Len(code) < Len(code')
               /\ B[Len(code') + 1] = Ctx(TriesAround(open), locals, 0, InFunction)
  <2>1. PICK e : e = Away(n)
    OBVIOUS
  <2>2. HolesIn(open) \cup pending \subseteq K /\ Aims(K, o, n)
    BY <1>4, <1>5 DEF Aims
  <2>3. \E B : /\ Compiled(code, A, e, B, K) /\ Len(code) < Len(e)
               /\ B[Len(e) + 1] = Ctx(TriesAround(open), locals, 0, InFunction)
               /\ JumpPos \in 1..Len(e) /\ e[JumpPos].op = "JUMP"
               /\ B[JumpPos] = Ctx(o.tries, locals, 0, InFunction)
    BY <1>2, <2>1, <2>2, EmitBranchAway
  <2> QED BY <2>1, <2>3
<1>7. CallsAt(code', pending')
  BY <1>6, CallsKept DEF CompilerInv
<1>8. Prefix(locals, locals') /\ locals' \in Seq(Nat)
  BY <1>1, PrefixRefl
<1>9. CompilerInv(B)'
  BY <1>5, <1>6, <1>7, <1>8, PlainNext
<1> QED BY <1>9

LEMMA ContinueTyped ==
  ASSUME NEW A, Kept, CompilerInv(A), OperandsFit, OperandsFit', Continue, phase' # "rejected", UNCHANGED vmVars
  PROVE  \E B : CompilerInv(B)'
<1>1. PICK o : o = open[LoopAt]
  OBVIOUS
<1>2. InLoop /\ UNCHANGED <<phase, locals, tryDepth, entry, pending>>
  BY DEF Continue, Reject
<1>3. /\ o \in Constructs /\ LoopAt \in 1..Len(open) /\ open \in Seq(Constructs) /\ Len(code) \in Nat
      /\ IsLoop(o)
  BY <1>1, <1>2, ContextFacts, LoopFacts
<1>4. CASE o.kind = "while"
  <2>1. PICK n : n = Signed(o.start - JumpPos - 1)
    OBVIOUS
  <2>2. code' = Away(n) /\ open' = open
    BY <1>1, <1>2, <1>4, <2>1 DEF Continue, Away, Jump
  <2> QED BY <1>1, <1>2, <2>1, <2>2, BackTyped
<1>5. CASE o.kind # "while"
  <2>1. /\ code' = Away(0)
        /\ open' = [open EXCEPT ![LoopAt].continues = @ \cup {JumpPos}]
    BY <1>1, <1>2, <1>5 DEF Continue, Away
  <2>2. o.kind = "for"
    BY <1>3, <1>5 DEF IsLoop
  <2>3. JumpPos \in Nat
    BY <1>3 DEF JumpPos, Here, Leave
  <2>4. PICK o2 : o2 = [o EXCEPT !.continues = o.continues \cup {JumpPos}]
    OBVIOUS
  <2>5. o2 \in Constructs
    BY <1>3, <2>3, <2>4 DEF Constructs
  <2>6. open' = Updated(open, LoopAt, o2)
    BY <1>1, <1>3, <2>1, <2>4 DEF Updated
  <2>7. Noted(o, JumpPos, o2)
    BY <2>2, <2>4 DEF Noted
  <2> QED BY <1>1, <1>2, <2>1, <2>5, <2>6, <2>7, JumpTyped
<1> QED BY <1>4, <1>5
-----------------------------------------------------------------------------
\* Opening constructs.
Opened(kind, try, start, jump) ==
    [kind |-> kind, try |-> try, tries |-> TriesAround(open), saved |-> locals, start |-> start,
     jump |-> jump, breaks |-> {}, continues |-> {}, depth |-> tryDepth]

LEMMA OpenedPlain ==
  ASSUME NEW A, Kept, CompilerInv(A), NEW kind, NEW try
  PROVE  Construct(kind, try) = Opened(kind, try, 0, 0)
<1>1. Context = [tries |-> TriesAround(open), vars |-> locals]
  BY ContextFacts
<1>2. Context.tries = TriesAround(open)
  BY <1>1
<1> QED BY <1>2 DEF Construct, Opened

LEMMA OpenedJump ==
  ASSUME NEW A, Kept, CompilerInv(A), NEW kind, NEW try, NEW jump
  PROVE  [Construct(kind, try) EXCEPT !.jump = jump] = Opened(kind, try, 0, jump)
<1>1. [Opened(kind, try, 0, 0) EXCEPT !.jump = jump] = Opened(kind, try, 0, jump)
  BY DEF Opened
<1>2. Construct(kind, try) = Opened(kind, try, 0, 0)
  BY OpenedPlain
<1> QED BY <1>1, <1>2

LoopOpened(kind, start, jump) == [Construct(kind, None) EXCEPT !.start = start, !.jump = jump]

LEMMA OpenedLoop ==
  ASSUME NEW A, Kept, CompilerInv(A), NEW kind, NEW start, NEW jump
  PROVE  LoopOpened(kind, start, jump) = Opened(kind, None, start, jump)
<1> DEFINE try == None
<1>1. [Opened(kind, try, 0, 0) EXCEPT !.start = start] = Opened(kind, try, start, 0)
  BY DEF Opened
<1>2. [Opened(kind, try, start, 0) EXCEPT !.jump = jump] = Opened(kind, try, start, jump)
  BY DEF Opened
<1>3. Construct(kind, try) = Opened(kind, try, 0, 0)
  BY OpenedPlain
<1> QED BY <1>1, <1>2, <1>3 DEF LoopOpened

OpenedAs(o, kind, try, start, jump) ==
    /\ o \in Constructs /\ o.kind = kind /\ o.try = try /\ o.tries = TriesAround(open) /\ o.saved = locals
    /\ o.start = start /\ o.jump = jump /\ o.breaks = {} /\ o.continues = {} /\ o.depth = Len(o.tries)

LEMMA OpenedTyped ==
  ASSUME NEW A, Kept, CompilerInv(A), NEW kind \in Kind, NEW try \in Nat \cup {None}, NEW start \in Nat, NEW jump \in Nat,
         NEW o, o = Opened(kind, try, start, jump)
  PROVE  OpenedAs(o, kind, try, start, jump)
<1>1. TriesAround(open) \in Seq(Nat) /\ locals \in Seq(Nat) /\ tryDepth \in Nat
  BY ContextFacts DEF Kept
<1>2. tryDepth = Len(TriesAround(open))
  BY DEF CompilerInv
<1> QED BY <1>1, <1>2 DEF Opened, OpenedAs, Constructs

LEMMA HolesPush ==
  ASSUME NEW os \in Seq(Constructs), NEW o \in Constructs
  PROVE  HolesIn(Append(os, o)) = HolesIn(os) \cup (HolesOf(o) \cap Nat)
<1>1. /\ Len(Append(os, o)) = Len(os) + 1 /\ Append(os, o)[Len(os) + 1] = o /\ Len(os) \in Nat
      /\ \A i \in 1..Len(os) : Append(os, o)[i] = os[i]
  OBVIOUS
<1>2. 1..(Len(os) + 1) = 1..Len(os) \cup {Len(os) + 1}
  BY <1>1
<1> QED BY <1>1, <1>2 DEF HolesIn

LEMMA CompiledTrans ==
  ASSUME NEW c, NEW A, NEW d, NEW B, NEW e, NEW C, NEW holes, NEW more,
         Compiled(c, A, d, B, holes), Compiled(d, B, e, C, more)
  PROVE  Compiled(c, A, e, C, more)
<1>1. c \in Seq(Instr) /\ d \in Seq(Instr) /\ e \in Seq(Instr) /\ Len(c) \in Nat /\ Len(d) \in Nat
  BY CompiledTyped
<1>2. Grown(c, A, e, C)
  BY <1>1, GrownTrans DEF Compiled
<1>3. C[Len(c) + 1] = A[Len(c) + 1]
  <2>1. Len(c) + 1 \in 1..(Len(d) + 1)
    BY <1>1 DEF Compiled, Grown
  <2>2. C[Len(c) + 1] = B[Len(c) + 1]
    BY <2>1, CompiledSame
  <2> QED BY <2>2 DEF Compiled
<1> QED BY <1>2, <1>3 DEF Compiled

\* The jump over a block, and the value tested, which is popped.
WithTest(d) == Append(Append(d, I("JUMP_IF_FALSE", 0)), I("POP", 0))
ToTest(c, A, d, B, H, K, T, vs, f) ==
    /\ Compiled(c, A, d, B, H) /\ B[Len(d) + 1] = Ctx(T, vs, 1, f)
    /\ H \subseteq K /\ Len(d) + 1 \in K
Tested(c, A, d, g, C, K, T, vs, f) ==
    /\ Compiled(c, A, g, C, K) /\ Len(g) = Len(d) + 2 /\ C[Len(d) + 3] = Ctx(T, vs, 0, f)
    /\ g[Len(d) + 1].op = "JUMP_IF_FALSE" /\ C[Len(d) + 1] = Ctx(T, vs, 1, f)

LEMMA EmitTest ==
  ASSUME NEW c, NEW A, NEW d, NEW B, NEW H, NEW K, NEW T \in Seq(Nat), NEW vs \in Seq(Nat), NEW f \in BOOLEAN,
         ToTest(c, A, d, B, H, K, T, vs, f), NEW g, g = WithTest(d)
  PROVE  \E C : Tested(c, A, d, g, C, K, T, vs, f)
<1>20. /\ Compiled(c, A, d, B, H) /\ B[Len(d) + 1] = Ctx(T, vs, 1, f)
       /\ H \subseteq K /\ Len(d) + 1 \in K
  BY DEF ToTest
<1>15. PICK i, j : i = I("JUMP_IF_FALSE", 0) /\ j = I("POP", 0) /\ g = Append(Append(d, i), j)
  BY DEF WithTest
<1>1. d \in Seq(Instr) /\ Len(d) \in Nat
  BY <1>20, CompiledTyped
<1>2. PICK s0, s1 : s0 = Ctx(T, vs, 0, f) /\ s1 = Ctx(T, vs, 1, f)
  OBVIOUS
<1>3. s1 \in Shape /\ s1.tries = T /\ s1.vars = vs /\ s1.temps = 1 /\ ~s1.arg /\ s1.func = f
  BY <1>2, CtxTyped DEF Ctx
<1>4. /\ i \in Instr /\ i.op = "JUMP_IF_FALSE" /\ i.stmt = None
      /\ j \in Instr /\ j.op = "POP" /\ j.stmt = None
  BY <1>15 DEF I, Instr, Opcode
<1> DEFINE e == Append(d, i)
<1>13. Compiled(d, B, d, B, H)
  BY <1>20, CompiledRefl DEF Compiled
<1>5. PICK B1 : Emitted(d, B, d, B, i, s1, K, B1)
  <2>1. Legal(i, s1)
    BY <1>3, <1>4 DEF Legal
  <2>2. Steps(i, Len(d) + 1, s1, s1)
    BY <1>3, <1>4, PrefixRefl DEF Steps, TriesAfter, VarsAfter, TempsAfter
  <2>3. Emittable(d, B, K, i, s1)
    BY <1>2, <1>4, <1>20, <2>1, <2>2 DEF Emittable
  <2>4. Marks(s1) = Marks(B[Len(d) + 1]) /\ s1.func = B[Len(d) + 1].func
    BY <1>2, <1>20
  <2> QED BY <1>3, <1>4, <1>13, <1>20, <2>3, <2>4, EmitHere
<1>6. Compiled(d, B, e, B1, K) /\ Len(e) = Len(d) + 1 /\ e[Len(d) + 1] = i /\ B1[Len(d) + 2] = s1
  BY <1>2, <1>5 DEF Emitted
<1>7. e \in Seq(Instr) /\ g = Append(e, j)
  BY <1>1, <1>4, <1>15
<1> HIDE DEF e
<1>8. PICK C : Emitted(d, B, e, B1, j, Ctx(T, vs, 0, f), K, C)
  <2>1. Legal(j, s1) /\ TempsAfter(j, s1) = 0
    BY <1>3, <1>4 DEF Legal, TempsAfter
  <2>2. Legal(j, Ctx(T, vs, 1, f)) /\ 0 = TempsAfter(j, Ctx(T, vs, 1, f)) /\ B1[Len(e) + 1] = Ctx(T, vs, 1, f)
    BY <1>1, <1>2, <1>6, <2>1
  <2> QED BY <1>4, <1>6, <2>2, EmitStack
<1>9. Compiled(d, B, g, C, K) /\ Len(g) = Len(e) + 1 /\ C[Len(e) + 2] = s0
  BY <1>2, <1>7, <1>8 DEF Emitted
<1>10. g[Len(d) + 1] = i
  BY <1>1, <1>4, <1>6, <1>7
<1>11. C[Len(d) + 1] = s1
  BY <1>2, <1>9, <1>20 DEF Compiled
<1>12. Compiled(c, A, g, C, K)
  BY <1>9, <1>20, CompiledTrans
<1>14. Len(g) = Len(d) + 2 /\ C[Len(d) + 3] = s0
  BY <1>1, <1>6, <1>9
<1> QED BY <1>2, <1>4, <1>10, <1>11, <1>12, <1>14 DEF Tested

\* A construct has been opened behind the code there was.
LEMMA OpenNext ==
  ASSUME NEW A, NEW B, Kept, CompilerInv(A), UNCHANGED <<phase, entry, pending, vmVars>>,
         NEW o \in Constructs, open' = Append(open, o), o.tries = TriesAround(open), o.saved = locals,
         Compiled(code, A, code', B, HolesIn(open') \cup pending),
         Len(code) < Len(code') \/ (IsLoop(o) /\ o.start = Here),
         Attached(code', B, o, InFunction), Prefix(Body(B, o), locals'), locals' \in Seq(Nat),
         B[Len(code') + 1] = Ctx(TriesIn(o), locals', 0, InFunction), tryDepth' = Len(TriesIn(o))
  PROVE  CompilerInv(B)'
<1>1. /\ A \in [Nat -> Shape] /\ open \in Seq(Constructs) /\ InFunction \in BOOLEAN /\ Len(code) \in Nat
      /\ locals \in Seq(Nat) /\ B \in [Nat -> Shape]
  BY ContextFacts, CompiledTyped
<1>2. Stacked(code, A, open, InFunction) /\ Scoped(A, open, locals)
  BY DEF CompilerInv
<1>3. Stacked(code', B, open, InFunction) /\ StartsKept(A, B, open)
  BY <1>1, <1>2, CompiledKeeps
<1>4. Scoped(B, open, locals)
  BY <1>1, <1>2, <1>3, PrefixRefl, ScopedKept
<1>5. \A i \in 1..Len(open) : IsLoop(open[i]) => Settled(open[i].start, code', o)
  <2>1. \A i \in 1..Len(open) : IsLoop(open[i]) => open[i].start \in 1..(Len(code) + 1)
    BY <1>2 DEF Stacked, Attached
  <2>2. Len(code') \in Nat /\ Len(code) <= Len(code') /\ Here = Len(code) + 1
    BY CompiledTyped, ContextFacts DEF Compiled, Grown
  <2> QED BY <1>1, <2>1, <2>2 DEF Settled
<1>6. /\ Stacked(code', B, open', InFunction) /\ Scoped(B, open', locals')
      /\ TriesAround(open') = TriesIn(o)
  <2>1. PICK os : os = Append(open, o)
    OBVIOUS
  <2>2. Scoped(B, open, o.saved)
    BY <1>4
  <2>3. PICK c, f, ws : c = code' /\ f = InFunction /\ ws = locals'
    OBVIOUS
  <2>4. /\ Stacked(c, B, open, f) /\ Attached(c, B, o, f) /\ ws \in Seq(Nat) /\ Prefix(Body(B, o), ws)
        /\ \A i \in 1..Len(open) : IsLoop(open[i]) => Settled(open[i].start, c, o)
    BY <1>3, <1>5, <2>3
  <2>5. /\ Stacked(c, B, Append(open, o), f) /\ Scoped(B, Append(open, o), ws)
        /\ TriesAround(Append(open, o)) = TriesIn(o)
    <3>1. B \in [Nat -> Shape] /\ o \in Constructs /\ o.tries = TriesAround(open)
      BY <1>1
    <3> QED BY <2>2, <2>4, <3>1, StackedPush
  <2> QED BY <2>1, <2>3, <2>5
<1>7. CallsAt(code', pending')
  BY CallsKept DEF CompilerInv
<1>8. \A i \in 1..Len(open') : \/ Len(code) < Len(code')
                               \/ i \in 1..Len(open) /\ open'[i] = open[i]
                               \/ IsLoop(open'[i]) /\ open'[i].start = Here
  <2>1. Len(open') = Len(open) + 1 /\ open'[Len(open) + 1] = o /\ \A i \in 1..Len(open) : open'[i] = open[i]
    BY <1>1, Appended
  <2>2. \A i \in 1..Len(open') : i \in 1..Len(open) \/ i = Len(open) + 1
    <3>1. Len(open) \in Nat
      BY <1>1
    <3>2. PICK n, m : n \in Nat /\ n = Len(open) /\ m = Len(open') /\ m = n + 1
      BY <2>1, <3>1
    <3>3. \A i \in 1..m : i \in 1..n \/ i = n + 1
      BY ONLY <3>2
    <3> QED BY <3>2, <3>3
  <2> QED BY <2>1, <2>2
<1> QED BY <1>6, <1>7, <1>8, CompilerNext

\* What an open construct may assume of the code before it.
LEMMA OpenedNests ==
  ASSUME NEW A, NEW B, NEW holes, Kept, CompilerInv(A), NEW d, Compiled(code, A, d, B, holes)
  PROVE  Nests(d, B, Ctx(TriesAround(open), locals, 0, InFunction))
<1>1. /\ code \in Seq(Instr) /\ d \in Seq(Instr)
      /\ A[Here] = Ctx(TriesAround(open), locals, 0, InFunction) /\ A[Here] \in Shape
      /\ Nests(code, A, A[Here])
  BY ContextFacts, CompiledTyped
<1>2. Grown(code, A, d, B)
  BY DEF Compiled
<1>3. Nests(d, B, A[Here])
  BY <1>1, <1>2, NestsKept
<1> QED BY <1>1, <1>3

\* if and while.
LEMMA TestTyped ==
  ASSUME NEW A, Kept, CompilerInv(A), UNCHANGED <<phase, locals, tryDepth, entry, pending, vmVars>>,
         code' = code \o First(Test), NEW kind, NEW start,
         (kind = "then" /\ start = 0) \/ (kind \in {"while", "for"} /\ start = Here),
         NEW jump, jump = Here + 1, NEW o, o = Opened(kind, None, start, jump), open' = Append(open, o)
  PROVE  \E B : CompilerInv(B)'
<1>1. PICK T, vs, f, H, K : /\ T = TriesAround(open) /\ vs = locals /\ f = InFunction
                            /\ H = HolesIn(open) \cup pending /\ K = HolesIn(open') \cup pending
  OBVIOUS
<1>2. /\ code \in Seq(Instr) /\ Len(code) \in Nat /\ T \in Seq(Nat) /\ vs \in Seq(Nat) /\ f \in BOOLEAN
      /\ open \in Seq(Constructs) /\ Here = Len(code) + 1
      /\ Context \in [tries : Seq(Nat), vars : Seq(Nat)]
      /\ A[Len(code) + 1] = Ctx(T, vs, 0, f)
  BY <1>1, ContextFacts
<1>15. PICK i, j : i = I("JUMP_IF_FALSE", 0) /\ j = I("POP", 0)
  OBVIOUS
<1> DEFINE a == I("PUSH", 0)
           d == Append(code, AsFirst(a))
           e == Append(Append(d, i), j)
<1>3. /\ o \in Constructs /\ o.kind = kind /\ o.try = None /\ o.tries = T /\ o.saved = vs
      /\ o.start = start /\ o.jump = Here + 1 /\ o.breaks = {} /\ o.continues = {} /\ o.depth = Len(o.tries)
  <2>1. kind \in Kind /\ start \in Nat /\ jump \in Nat /\ None \in Nat \cup {None}
    BY <1>2 DEF Kind
  <2>2. OpenedAs(o, kind, None, start, jump)
    BY <2>1, OpenedTyped
  <2> QED BY <1>1, <2>2 DEF OpenedAs
<1>4. a \in Instr /\ i \in Instr /\ j \in Instr
  <2>1. I("JUMP_IF_FALSE", 0) \in Instr /\ I("POP", 0) \in Instr /\ I("PUSH", 0) \in Instr
    BY DEF I, Instr, Opcode
  <2> QED BY <1>15, <2>1
<1>5. PICK B1 : Compiled(code, A, d, B1, H) /\ Len(d) = Len(code) + 1 /\ B1[Len(d) + 1] = Ctx(T, vs, 1, f)
  BY <1>1, FirstPush
<1> HIDE DEF a
<1>6. code' = e
  <2>1. code \o First(<<a, i, j>>) = Append(Append(Append(code, AsFirst(a)), i), j)
    BY <1>2, <1>4, Block3
  <2>2. Test = <<a, i, j>>
    BY <1>15 DEF Test, a
  <2> QED BY <2>1, <2>2
<1>7. H \subseteq K /\ Len(d) + 1 \in K
  <2>1. HolesIn(open') = HolesIn(open) \cup (HolesOf(o) \cap Nat)
    BY <1>2, <1>3, HolesPush
  <2>2. Len(d) + 1 = Here + 1 /\ Here + 1 \in Nat
    BY <1>2, <1>5
  <2>3. Here + 1 \in HolesOf(o)
    BY <1>3 DEF HolesOf
  <2> QED BY <1>1, <2>1, <2>2, <2>3
<1> HIDE DEF d
<1>8. PICK B : /\ Compiled(code, A, e, B, K) /\ Len(e) = Len(d) + 2
               /\ B[Len(d) + 3] = Ctx(T, vs, 0, f)
               /\ e[Len(d) + 1].op = "JUMP_IF_FALSE" /\ B[Len(d) + 1] = Ctx(T, vs, 1, f)
  <2>1. PICK g : g = e
    OBVIOUS
  <2>2. \E C : Tested(code, A, d, g, C, K, T, vs, f)
    <3>1. g = WithTest(d)
      BY <1>15, <2>1 DEF WithTest
    <3>2. ToTest(code, A, d, B1, H, K, T, vs, f)
      BY <1>5, <1>7 DEF ToTest
    <3> QED BY <1>2, <3>1, <3>2, EmitTest
  <2> QED BY <2>1, <2>2 DEF Tested
<1> HIDE DEF e
<1>9. /\ Compiled(code, A, code', B, K) /\ Len(code') = Len(code) + 3
      /\ B[Len(code') + 1] = Ctx(T, vs, 0, f)
      /\ code'[Here + 1].op = "JUMP_IF_FALSE" /\ B[Here + 1] = Ctx(T, vs, 1, f)
  BY <1>2, <1>5, <1>6, <1>8
<1>10. Body(B, o) = vs
  <2>1. start = Here => B[start] = Ctx(T, vs, 0, f)
    <3>1. B[Len(code) + 1] = A[Len(code) + 1]
      BY <1>9 DEF Compiled
    <3> QED BY <1>2, <3>1
  <2> QED BY <1>3, <2>1 DEF Body, IsLoop, Ctx
<1>11. Attached(code', B, o, f)
  <2>1. JumpsFrom(code', B, o.jump, "JUMP_IF_FALSE", Ctx(T, vs, 1, f))
    <3>1. Taken("JUMP_IF_FALSE", Ctx(T, vs, 1, f), Ctx(T, vs, 1, f))
      BY PrefixRefl DEF Taken, Ctx
    <3>2. Here + 1 \in 1..Len(code')
      BY <1>2, <1>9
    <3> QED BY <1>3, <1>9, <3>1, <3>2 DEF JumpsFrom
  <2>2. Nests(code', B, Ctx(T, vs, 0, f))
    BY <1>1, <1>9, OpenedNests
  <2>3. Prefix(vs, vs)
    BY PrefixRefl
  <2>4. Here + 1 > 0 /\ Here \in 1..(Len(code') + 1)
    BY <1>2, <1>9
  <2>5. start = Here => B[start] = Ctx(T, vs, 0, f)
    <3>1. B[Len(code) + 1] = A[Len(code) + 1]
      BY <1>9 DEF Compiled
    <3> QED BY <1>2, <3>1
  <2> QED BY <1>3, <1>10, <2>1, <2>2, <2>3, <2>4, <2>5 DEF Attached, IsLoop
<1>12. TriesIn(o) = T /\ tryDepth' = Len(TriesIn(o))
  BY <1>1, <1>3 DEF TriesIn, CompilerInv
<1>13. Len(code) < Len(code') /\ locals' \in Seq(Nat) /\ Prefix(Body(B, o), locals')
  BY <1>1, <1>2, <1>9, <1>10, PrefixRefl
<1>14. CompilerInv(B)'
  BY <1>1, <1>3, <1>9, <1>11, <1>12, <1>13, OpenNext
<1> QED BY <1>14

LEMMA BranchTyped ==
  ASSUME NEW A, Kept, CompilerInv(A), BeginIf \/ BeginWhile, UNCHANGED vmVars
  PROVE  \E B : CompilerInv(B)'
<1>1. PICK jump : jump = Here + 1
  OBVIOUS
<1>2. code' = code \o First(Test) /\ UNCHANGED <<phase, locals, tryDepth, entry, pending, vmVars>>
  BY DEF BeginIf, BeginWhile
<1>3. PICK kind, start : /\ (kind = "then" /\ start = 0) \/ (kind = "while" /\ start = Here)
                         /\ open' = Append(open, Opened(kind, None, start, jump))
  <2>1. CASE BeginIf
    <3>1. [Construct("then", None) EXCEPT !.jump = jump] = Opened("then", None, 0, jump)
      BY OpenedJump
    <3> QED BY <1>1, <2>1, <3>1 DEF BeginIf
  <2>2. CASE BeginWhile
    <3>1. LoopOpened("while", Here, jump) = Opened("while", None, Here, jump)
      BY OpenedLoop
    <3> QED BY <1>1, <2>2, <3>1 DEF BeginWhile, LoopOpened
  <2> QED BY <2>1, <2>2
<1>4. PICK o : o = Opened(kind, None, start, jump)
  OBVIOUS
<1> QED BY <1>1, <1>2, <1>3, <1>4, TestTyped

LEMMA TestAppends ==
  ASSUME NEW d \in Seq(Instr)
  PROVE  d \o Test = WithTest(Append(d, I("PUSH", 0)))
<1>1. PICK i \in Instr, j \in Instr, k \in Instr : i = I("PUSH", 0) /\ j = I("JUMP_IF_FALSE", 0) /\ k = I("POP", 0)
  <2>1. I("PUSH", 0) \in Instr /\ I("JUMP_IF_FALSE", 0) \in Instr /\ I("POP", 0) \in Instr
    BY DEF I, Instr, Opcode
  <2> QED BY <2>1
<1>2. d \o <<i>> = Append(d, i)
  BY ConcatAppend
<1>3. d \o <<i, j>> = Append(d \o <<i>>, j)
  OBVIOUS
<1>4. d \o <<i, j, k>> = Append(d \o <<i, j>>, k)
  OBVIOUS
<1> QED BY <1>1, <1>2, <1>3, <1>4 DEF Test, WithTest

\* More holes may be allowed than there are.
LEMMA CompiledMore ==
  ASSUME NEW c, NEW A, NEW d, NEW B, NEW holes, NEW more, Compiled(c, A, d, B, holes), holes \subseteq more
  PROVE  Compiled(c, A, d, B, more)
<1>1. Sound(d, B, holes, Len(d) + 1)
  BY DEF Compiled
<1>2. Sound(d, B, more, Len(d) + 1)
  BY <1>1 DEF Sound
<1> QED BY <1>2 DEF Compiled

\* From code to d the initialiser of a for loop has been compiled; ws is what
\* is in scope then.
Initialised(A, d, B, ws) ==
    /\ Compiled(code, A, d, B, HolesIn(open) \cup pending)
    /\ B[Len(d) + 1] = Ctx(TriesAround(open), ws, 0, InFunction)
    /\ ws \in Seq(Nat) /\ Prefix(locals, ws)

LEMMA ForTyped ==
  ASSUME NEW A, Kept, CompilerInv(A), UNCHANGED <<phase, tryDepth, entry, pending, vmVars>>,
         NEW d, NEW B0, Initialised(A, d, B0, locals'),
         NEW start, start = Len(d) + 1, NEW jump \in {0, start + 1},
         jump = 0 => code' = d, jump # 0 => code' = d \o Test,
         NEW o, o = Opened("for", None, start, jump), open' = Append(open, o)
  PROVE  \E B : CompilerInv(B)'
<1>1. PICK T, vs, ws, f, H, K : /\ T = TriesAround(open) /\ vs = locals /\ ws = locals' /\ f = InFunction
                                /\ H = HolesIn(open) \cup pending /\ K = HolesIn(open') \cup pending
  OBVIOUS
<1>2. /\ code \in Seq(Instr) /\ Len(code) \in Nat /\ T \in Seq(Nat) /\ vs \in Seq(Nat) /\ f \in BOOLEAN
      /\ open \in Seq(Constructs)
  BY <1>1, ContextFacts
<1>3. PICK B1 : /\ Compiled(code, A, d, B1, H) /\ Len(code) <= Len(d)
                /\ B1[Len(d) + 1] = Ctx(T, ws, 0, f) /\ ws \in Seq(Nat) /\ Prefix(vs, ws)
  BY <1>1 DEF Initialised, Compiled, Grown
<1>4. start \in Nat /\ jump \in Nat /\ d \in Seq(Instr) /\ Len(d) \in Nat
  <2>1. d \in Seq(Instr)
    BY <1>3, CompiledTyped
  <2> QED BY <2>1
<1>5. /\ o \in Constructs /\ o.kind = "for" /\ o.try = None /\ o.tries = T /\ o.saved = vs
      /\ o.start = start /\ o.jump = jump /\ o.breaks = {} /\ o.continues = {} /\ o.depth = Len(o.tries)
  <2>1. "for" \in Kind /\ None \in Nat \cup {None}
    BY DEF Kind
  <2>2. OpenedAs(o, "for", None, start, jump)
    BY <1>4, <2>1, OpenedTyped
  <2> QED BY <1>1, <2>2 DEF OpenedAs
<1>6. H \subseteq K /\ (jump # 0 => jump \in K)
  <2>1. HolesIn(open') = HolesIn(open) \cup (HolesOf(o) \cap Nat)
    BY <1>2, <1>5, HolesPush
  <2>2. jump \in HolesOf(o)
    BY <1>5 DEF HolesOf
  <2> QED BY <1>1, <1>4, <2>1, <2>2
<1>7. PICK B : /\ Compiled(code, A, code', B, K) /\ (Len(code) < Len(code') \/ start = Here)
               /\ B[Len(code') + 1] = Ctx(T, ws, 0, f) /\ B[start] = Ctx(T, ws, 0, f)
               /\ start \in 1..(Len(code') + 1)
               /\ jump # 0 => /\ jump \in 1..Len(code') /\ code'[jump].op = "JUMP_IF_FALSE"
                              /\ B[jump] = Ctx(T, ws, 1, f)
  <2>1. CASE jump = 0
    <3>1. code' = d /\ (Len(code) < Len(code') \/ start = Here) /\ start \in 1..(Len(code') + 1)
      <4>1. code' = d
        BY <2>1
      <4>2. Here = Len(code) + 1 /\ Len(code) <= Len(d) /\ start = Len(d) + 1 /\ Len(code) \in Nat /\ Len(d) \in Nat
        BY <1>2, <1>3, <1>4 DEF Here
      <4>3. (Len(code) < Len(d) \/ start = Here) /\ start \in 1..(Len(d) + 1)
        BY ONLY <4>2
      <4> QED BY <4>1, <4>3
    <3>2. Compiled(code, A, code', B1, K)
      BY <1>3, <1>6, <3>1, CompiledMore
    <3> QED BY <1>3, <2>1, <3>1, <3>2
  <2>2. CASE jump # 0
    <3>1. PICK i, j, k : i = I("PUSH", 0) /\ j = I("JUMP_IF_FALSE", 0) /\ k = I("POP", 0)
      OBVIOUS
    <3>2. i \in Instr /\ j \in Instr /\ k \in Instr /\ i.stmt = None /\ i.op = "PUSH" /\ i.var = None
      BY <3>1 DEF I, Instr, Opcode
    <3>3. PICK e : e = Append(d, i)
      OBVIOUS
    <3>4. code' = WithTest(e)
      <4>1. d \o Test = WithTest(Append(d, I("PUSH", 0)))
        BY <1>4, TestAppends
      <4> QED BY <2>2, <3>1, <3>3, <4>1
    <3>5. PICK B2 : Emitted(code, A, d, B1, i, Ctx(T, ws, 1, f), H, B2)
      <4>1. Legal(i, Ctx(T, ws, 0, f)) /\ 1 = TempsAfter(i, Ctx(T, ws, 0, f))
        BY <3>2 DEF Legal, TempsAfter, Ctx
      <4>2. i.var # Param
        BY <3>2, CompilerAssumption DEF Param
      <4> QED BY <1>2, <1>3, <3>2, <4>1, <4>2, EmitStack
    <3>6. /\ Compiled(code, A, e, B2, H) /\ Len(e) = Len(d) + 1 /\ B2[Len(e) + 1] = Ctx(T, ws, 1, f)
          /\ B2[Len(d) + 1] = Ctx(T, ws, 0, f)
      BY <1>3, <1>4, <3>3, <3>5 DEF Emitted
    <3>7. jump = Len(e) + 1
      BY <1>4, <2>2, <3>6
    <3>8. ToTest(e, B2, e, B2, H, K, T, ws, f)
      <4>1. Compiled(e, B2, e, B2, H)
        BY <3>6, CompiledRefl DEF Compiled
      <4> QED BY <1>6, <2>2, <3>6, <3>7, <4>1 DEF ToTest
    <3>9. PICK B : Tested(e, B2, e, code', B, K, T, ws, f)
      <4>1. PICK g : g = code'
        OBVIOUS
      <4>2. \E C : Tested(e, B2, e, g, C, K, T, ws, f)
        BY <1>2, <1>3, <3>4, <3>8, <4>1, EmitTest
      <4> QED BY <4>1, <4>2
    <3>10. /\ Compiled(e, B2, code', B, K) /\ Len(code') = Len(e) + 2 /\ B[Len(e) + 3] = Ctx(T, ws, 0, f)
           /\ code'[jump].op = "JUMP_IF_FALSE" /\ B[jump] = Ctx(T, ws, 1, f)
      BY <3>7, <3>9 DEF Tested
    <3>13. Compiled(code, A, code', B, K)
      BY <3>6, <3>10, CompiledTrans
    <3>11. /\ Len(code) < Len(code') /\ start \in 1..(Len(code') + 1) /\ jump \in 1..Len(code')
           /\ Len(code') + 1 = Len(e) + 3 /\ start \in 1..Len(e)
      <4>1. PICK n, m, l, q : n = Len(code) /\ m = Len(d) /\ l = Len(e) /\ q = Len(code')
        OBVIOUS
      <4>2. n \in Nat /\ m \in Nat /\ n <= m /\ l = m + 1 /\ q = l + 2 /\ start = m + 1 /\ jump = l + 1
        BY <1>2, <1>3, <3>6, <3>7, <3>10, <4>1
      <4>3. n < q /\ start \in 1..(q + 1) /\ jump \in 1..q /\ q + 1 = l + 3 /\ start \in 1..l
        BY ONLY <4>2
      <4> QED BY <4>1, <4>3
    <3>12. B[start] = B2[start]
      BY <3>10, <3>11 DEF Compiled, Grown
    <3>14. B[Len(code') + 1] = Ctx(T, ws, 0, f)
      BY <3>10, <3>11
    <3>15. B[start] = Ctx(T, ws, 0, f)
      BY <1>4, <3>6, <3>12
    <3> QED BY <2>2, <3>10, <3>11, <3>13, <3>14, <3>15
  <2> QED BY <2>1, <2>2
<1>10. Body(B, o) = ws
  BY <1>5, <1>7 DEF Body, IsLoop, Ctx
<1>11. Attached(code', B, o, f)
  <2>1. jump # 0 => JumpsFrom(code', B, jump, "JUMP_IF_FALSE", Ctx(T, ws, 1, f))
    <3>1. Taken("JUMP_IF_FALSE", Ctx(T, ws, 1, f), Ctx(T, ws, 1, f))
      BY PrefixRefl DEF Taken, Ctx
    <3> QED BY <1>7, <3>1 DEF JumpsFrom
  <2>2. Nests(code', B, Ctx(T, vs, 0, f))
    BY <1>1, <1>7, OpenedNests
  <2> QED BY <1>3, <1>5, <1>7, <1>10, <2>1, <2>2 DEF Attached, IsLoop
<1>12. TriesIn(o) = T /\ tryDepth' = Len(TriesIn(o))
  BY <1>1, <1>5 DEF TriesIn, CompilerInv
<1>13. Prefix(Body(B, o), locals') /\ locals' \in Seq(Nat)
  BY <1>1, <1>3, <1>10, PrefixRefl
<1>15. Len(code) < Len(code') \/ (IsLoop(o) /\ o.start = Here)
  BY <1>5, <1>7 DEF IsLoop
<1>14. CompilerInv(B)'
  BY ZenonT(30), <1>1, <1>5, <1>7, <1>11, <1>12, <1>13, <1>15, OpenNext
<1> QED BY <1>14

LEMMA InitTyped ==
  ASSUME NEW A, Kept, CompilerInv(A), NEW init \in {"none", "let", "expr"}, NEW d,
         d = CASE init = "none" -> code
               [] init = "let"  -> code \o First(<<I("PUSH", 0), Define(Here + 1)>>)
               [] init = "expr" -> code \o First(<<I("PUSH", 0), I("POP", 0)>>),
         NEW ws, ws = IF init = "let" THEN WithVar(Here + 1) ELSE locals
  PROVE  \E B : Initialised(A, d, B, ws)
<1>1. CASE init = "none"
  <2>1. d = code /\ ws = locals
    BY <1>1
  <2>2. Initialised(A, d, A, ws)
    BY <2>1, ContextFacts, PrefixRefl DEF Initialised
  <2> QED BY <2>2
<1>2. CASE init = "let"
  <2>1. d = code \o First(<<I("PUSH", 0), Define(Here + 1)>>) /\ ws = WithVar(Here + 1)
    BY <1>2
  <2> QED BY <2>1, EmitVariable DEF Initialised
<1>3. CASE init = "expr"
  <2>1. d = code \o First(<<I("PUSH", 0), I("POP", 0)>>) /\ ws = locals
    BY <1>3
  <2>2. PICK T, f, H : T = TriesAround(open) /\ f = InFunction /\ H = HolesIn(open) \cup pending
    OBVIOUS
  <2>3. PICK i, j : i = I("PUSH", 0) /\ j = I("POP", 0)
    OBVIOUS
  <2>4. i \in Instr /\ j \in Instr /\ j.op = "POP" /\ j.stmt = None
    BY <2>3 DEF I, Instr, Opcode
  <2>5. PICK c : c = Append(code, AsFirst(i))
    OBVIOUS
  <2>6. PICK B1 : Compiled(code, A, c, B1, H) /\ Len(c) = Len(code) + 1 /\ B1[Len(c) + 1] = Ctx(T, locals, 1, f)
    BY <2>2, <2>3, <2>5, FirstPush
  <2>7. /\ code \in Seq(Instr) /\ Context \in [tries : Seq(Nat), vars : Seq(Nat)]
        /\ T \in Seq(Nat) /\ locals \in Seq(Nat) /\ f \in BOOLEAN
    BY <2>2, ContextFacts
  <2>8. d = Append(c, j)
    BY <2>1, <2>3, <2>4, <2>5, <2>7, Block2
  <2>9. PICK C : Emitted(code, A, c, B1, j, Ctx(T, locals, 0, f), H, C)
    <3>1. Legal(j, Ctx(T, locals, 1, f)) /\ 0 = TempsAfter(j, Ctx(T, locals, 1, f))
      BY <2>4 DEF Legal, TempsAfter, Ctx
    <3> QED BY <2>4, <2>6, <2>7, <3>1, EmitStack
  <2>10. Compiled(code, A, d, C, H) /\ C[Len(d) + 1] = Ctx(T, locals, 0, f)
    <3>1. Len(d) + 1 = Len(c) + 2
      BY <2>6, <2>8, <2>9, CompiledTyped DEF Emitted
    <3> QED BY <2>8, <2>9, <3>1 DEF Emitted
  <2> QED BY <2>1, <2>2, <2>7, <2>10, PrefixRefl DEF Initialised
<1> QED BY <1>1, <1>2, <1>3

LEMMA BeginForTyped ==
  ASSUME NEW A, Kept, CompilerInv(A), NEW init \in AllInits, NEW test \in BOOLEAN, BeginFor(init, test),
         phase' # "rejected", UNCHANGED vmVars
  PROVE  \E B : CompilerInv(B)'
<1>1. PICK d : d = CASE init = "none" -> code
                     [] init = "let"  -> code \o First(<<I("PUSH", 0), Define(Here + 1)>>)
                     [] init = "expr" -> code \o First(<<I("PUSH", 0), I("POP", 0)>>)
  OBVIOUS
<1>2. PICK start, jump : start = Len(d) + 1 /\ jump = IF test THEN start + 1 ELSE 0
  OBVIOUS
<1>3. /\ init \in {"none", "let", "expr"}
      /\ code' = IF test THEN d \o (IF init = "none" THEN First(Test) ELSE Test) ELSE d
      /\ locals' = IF init = "let" THEN WithVar(Here + 1) ELSE locals
      /\ open' = Append(open, [Construct("for", None) EXCEPT !.start = start, !.jump = jump])
      /\ UNCHANGED <<phase, tryDepth, entry, pending>>
  BY <1>1, <1>2 DEF BeginFor, Reject, AllInits
<1>4. PICK o : o = Opened("for", None, start, jump)
  OBVIOUS
<1>5. open' = Append(open, o)
  <2>1. LoopOpened("for", start, jump) = Opened("for", None, start, jump)
    BY OpenedLoop
  <2> QED BY <1>3, <1>4, <2>1 DEF LoopOpened
<1>6. CASE init = "none" /\ test
  <2>1. d = code /\ start = Here
    BY <1>1, <1>2, <1>6 DEF Here
  <2>2. PICK kind : kind = "for"
    OBVIOUS
  <2>3. /\ code' = code \o First(Test) /\ locals' = locals /\ jump = Here + 1
        /\ o = Opened(kind, None, start, jump) /\ open' = Append(open, o)
    BY <1>2, <1>3, <1>4, <1>5, <1>6, <2>1, <2>2
  <2>4. UNCHANGED <<phase, locals, tryDepth, entry, pending, vmVars>>
    BY <1>3, <2>3
  <2> QED BY <2>1, <2>2, <2>3, <2>4, TestTyped
<1>7. CASE ~(init = "none" /\ test)
  <2>1. PICK B0 : Initialised(A, d, B0, locals')
    BY <1>1, <1>3, InitTyped
  <2>2. start \in Nat /\ start + 1 # 0
    BY <1>2, <2>1, CompiledTyped DEF Initialised
  <2>3. jump \in {0, start + 1} /\ (jump = 0 => code' = d) /\ (jump # 0 => code' = d \o Test)
    BY <1>2, <1>3, <1>7, <2>2
  <2>4. UNCHANGED <<phase, tryDepth, entry, pending, vmVars>>
    BY <1>3
  <2> QED BY <1>2, <1>4, <1>5, <2>1, <2>3, <2>4, ForTyped
<1> QED BY <1>6, <1>7
-----------------------------------------------------------------------------
\* Try blocks.
LEMMA AppendInitial ==
  ASSUME NEW s \in Seq(Nat), NEW x \in Nat, NEW m \in 0..Len(s)
  PROVE  SubSeq(Append(s, x), 1, m) = SubSeq(s, 1, m)
<1>1. Append(s, x) \in Seq(Nat) /\ Len(s) \in Nat /\ m \in Nat /\ m <= Len(Append(s, x)) /\ m <= Len(s)
  OBVIOUS
<1>2. \A i \in 1..m : Append(s, x)[i] = s[i]
  OBVIOUS
<1>3. PICK t \in Seq(Nat) : t = Append(s, x)
  BY <1>1
<1>4. m \in 0..Len(t)
  BY <1>1, <1>3
<1>5. PICK u, v : u = SubSeq(t, 1, m) /\ v = SubSeq(s, 1, m)
  OBVIOUS
<1>6. u \in Seq(Nat) /\ Len(u) = m /\ \A i \in 1..m : u[i] = t[i]
  BY <1>4, <1>5, InitialPart
<1>7. v \in Seq(Nat) /\ Len(v) = m /\ \A i \in 1..m : v[i] = s[i]
  BY <1>5, InitialPart
<1>8. u = v
  BY <1>2, <1>3, <1>6, <1>7, SeqEqual
<1> QED BY <1>3, <1>5, <1>8

LEMMA TryNests ==
  ASSUME NEW c \in Seq(Instr), NEW A \in [Nat -> Shape], NEW d \in Seq(Instr), NEW B \in [Nat -> Shape],
         Grown(c, A, d, B), NEW T \in Seq(Nat), NEW vs \in Seq(Nat), NEW f \in BOOLEAN,
         Nests(c, A, Ctx(T, vs, 0, f)), NEW p \in 1..Len(d), d[p].op = "TRY_BEGIN", B[p] = Ctx(T, vs, 0, f)
  PROVE  Nests(d, B, Ctx(Append(T, p), vs, 0, f))
<1>1. PICK r, s : r = Ctx(T, vs, 0, f) /\ s = Ctx(Append(T, p), vs, 0, f)
  OBVIOUS
<1>2. r \in Shape /\ r.tries = T /\ r.vars = vs /\ r.func = f /\ s.tries = Append(T, p) /\ s.vars = vs /\ s.func = f
  BY <1>1, CtxTyped DEF Ctx
<1>3. Nests(d, B, r)
  BY <1>1, <1>2, NestsKept
<1>4. ASSUME NEW i \in 1..Len(s.tries)
      PROVE  /\ s.tries[i] \in 1..Len(d) /\ d[s.tries[i]].op = "TRY_BEGIN"
             /\ B[s.tries[i]].tries = SubSeq(s.tries, 1, i - 1)
             /\ Prefix(B[s.tries[i]].vars, s.vars)
             /\ B[s.tries[i]].func = s.func
  <2>0. Len(T) \in Nat /\ Len(s.tries) = Len(T) + 1 /\ p \in Nat
    BY <1>2
  <2>1. CASE i \in 1..Len(T)
    <3>1. s.tries[i] = T[i]
      BY <1>2, <2>1
    <3>2. SubSeq(s.tries, 1, i - 1) = SubSeq(T, 1, i - 1)
      <4>1. PICK m \in 0..Len(T) : m = i - 1
        BY <2>0, <2>1
      <4>2. SubSeq(Append(T, p), 1, m) = SubSeq(T, 1, m)
        BY <2>0, AppendInitial
      <4> QED BY <1>2, <4>1, <4>2
    <3> QED BY <1>2, <1>3, <2>1, <3>1, <3>2 DEF Nests
  <2>2. CASE i = Len(T) + 1
    <3>1. s.tries[i] = p
      BY <1>2, <2>2
    <3>2. SubSeq(s.tries, 1, i - 1) = T
      <4>1. SubSeq(Append(T, p), 1, Len(T)) = T
        BY <2>0, PrefixAppend, PrefixCut
      <4> QED BY <1>2, <2>0, <2>2, <4>1
    <3> QED BY <1>1, <1>2, <3>1, <3>2, PrefixRefl
  <2> QED BY <2>0, <2>1, <2>2
<1>5. s.func \/ s.vars = <<>>
  BY <1>2, <1>3 DEF Nests
<1>6. Nests(d, B, s)
  BY <1>4, <1>5 DEF Nests
<1> QED BY <1>1, <1>6

Next1(c, A, i, s, e, B) ==
    /\ e \in Seq(Instr) /\ B \in [Nat -> Shape] /\ Len(e) = Len(c) + 1 /\ Grown(c, A, e, B) /\ B[Len(c) + 2] = s
    /\ \A p \in 1..(Len(c) + 1) : B[p] = A[p]

LEMMA EmitGrew ==
  ASSUME NEW c \in Seq(Instr), NEW A \in [Nat -> Shape], NEW i \in Instr, NEW s \in Shape,
         NEW e, e = Append(c, i), NEW B, B = Known(A, Len(c) + 2, s)
  PROVE  Next1(c, A, i, s, e, B)
<1>1. /\ Append(c, i) \in Seq(Instr) /\ Known(A, Len(c) + 2, s) \in [Nat -> Shape]
      /\ Len(Append(c, i)) = Len(c) + 1
      /\ Grown(c, A, Append(c, i), Known(A, Len(c) + 2, s))
      /\ Known(A, Len(c) + 2, s)[Len(c) + 2] = s
      /\ \A p \in 1..(Len(c) + 1) : Known(A, Len(c) + 2, s)[p] = A[p]
  BY EmitGrows
<1> QED BY <1>1 DEF Next1

LEMMA TryTyped ==
  ASSUME NEW A, Kept, CompilerInv(A), BeginTry, UNCHANGED vmVars
  PROVE  \E B : CompilerInv(B)'
<1>1. PICK T, vs, f, H, K : /\ T = TriesAround(open) /\ vs = locals /\ f = InFunction
                            /\ H = HolesIn(open) \cup pending /\ K = HolesIn(open') \cup pending
  OBVIOUS
<1>2. /\ code \in Seq(Instr) /\ Len(code) \in Nat /\ T \in Seq(Nat) /\ vs \in Seq(Nat) /\ f \in BOOLEAN
      /\ open \in Seq(Constructs) /\ Here = Len(code) + 1 /\ A \in [Nat -> Shape]
      /\ Context \in [tries : Seq(Nat), vars : Seq(Nat)] /\ Context = [tries |-> T, vars |-> vs]
      /\ A[Len(code) + 1] = Ctx(T, vs, 0, f) /\ Nests(code, A, Ctx(T, vs, 0, f))
      /\ Sound(code, A, H, Len(code) + 1)
  BY <1>1, ContextFacts DEF Compiled
<1>3. PICK o : o = Opened("try", Here, 0, 0)
  OBVIOUS
<1>4. /\ code' = code \o First(<<I("TRY_BEGIN", 0)>>)
      /\ open' = Append(open, o)
      /\ tryDepth' = tryDepth + 1
      /\ UNCHANGED <<phase, locals, entry, pending>>
  BY <1>3, OpenedPlain DEF BeginTry
<1>5. /\ o \in Constructs /\ o.kind = "try" /\ o.try = Here /\ o.tries = T /\ o.saved = vs
      /\ o.start = 0 /\ o.jump = 0 /\ o.breaks = {} /\ o.continues = {} /\ o.depth = Len(o.tries)
  <2>1. "try" \in Kind /\ Here \in Nat \cup {None} /\ 0 \in Nat
    BY <1>2 DEF Kind
  <2>2. OpenedAs(o, "try", Here, 0, 0)
    BY <1>3, <2>1, OpenedTyped
  <2> QED BY <1>1, <2>2 DEF OpenedAs
<1>6. H \subseteq K /\ Here \in K
  <2>1. HolesIn(open') = HolesIn(open) \cup (HolesOf(o) \cap Nat)
    BY <1>2, <1>4, <1>5, HolesPush
  <2>2. Here \in HolesOf(o) /\ Here \in Nat
    BY <1>2, <1>5 DEF HolesOf
  <2> QED BY <1>1, <2>1, <2>2
<1>7. PICK i : i = AsFirst(I("TRY_BEGIN", 0))
  OBVIOUS
<1>8. i \in Instr /\ i.op = "TRY_BEGIN" /\ i.stmt = Context /\ code' = Append(code, i)
  <2>1. I("TRY_BEGIN", 0) \in Instr
    BY DEF I, Instr, Opcode
  <2>2. i \in Instr
    BY <1>2, <1>7, <2>1, FirstTyped
  <2>3. code \o First(<<I("TRY_BEGIN", 0)>>) = Append(code, AsFirst(I("TRY_BEGIN", 0)))
    BY <1>2, <2>1, Block1
  <2>4. i.op = "TRY_BEGIN" /\ i.stmt = Context
    BY <1>7 DEF AsFirst, I
  <2> QED BY <1>4, <1>7, <2>2, <2>3, <2>4
<1>9. PICK W \in Seq(Nat) : W = Append(T, Here)
  <2>1. Here \in Nat
    BY <1>2
  <2>2. Append(T, Here) \in Seq(Nat)
    BY <1>2, <2>1, AppendProperties
  <2> QED BY <2>2
<1>10. PICK s : s = Ctx(W, vs, 0, f)
  OBVIOUS
<1>11. s \in Shape /\ s.tries = W /\ s.vars = vs /\ s.func = f /\ s.temps = 0 /\ ~s.arg
  BY <1>2, <1>10, CtxTyped DEF Ctx
<1>12. PICK B : B = Known(A, Len(code) + 2, s)
  OBVIOUS
<1>13. PICK e : e = Append(code, i)
  OBVIOUS
<1>14. /\ e \in Seq(Instr) /\ B \in [Nat -> Shape] /\ Len(e) = Len(code) + 1 /\ Grown(code, A, e, B) /\ B[Len(code) + 2] = s
       /\ \A p \in 1..(Len(code) + 1) : B[p] = A[p]
  <2>1. Next1(code, A, i, s, e, B)
    BY <1>2, <1>8, <1>11, <1>12, <1>13, EmitGrew
  <2> QED BY <2>1 DEF Next1
<1>15. e[Here].op = "TRY_BEGIN" /\ Here \in 1..Len(e) /\ B[Here] = Ctx(T, vs, 0, f)
  <2>1. e[Len(code) + 1] = i
    BY <1>2, <1>8, <1>13
  <2> QED BY <1>2, <1>8, <1>14, <2>1
<1>16. Emittable(code, A, K, i, s)
  <2>1. PICK r : r = Ctx(T, vs, 0, f)
    OBVIOUS
  <2>2. r.tries = T /\ r.vars = vs /\ r.temps = 0 /\ r.func = f
    BY <2>1 DEF Ctx
  <2>3. Legal(i, r)
    BY <1>8, <2>2 DEF Legal
  <2>4. i.stmt = Marks(r)
    BY <1>2, <1>8, <2>2 DEF Marks
  <2>5. Steps(i, Here, r, s)
    BY <1>8, <1>9, <1>11, <2>2, PrefixRefl DEF Steps, TriesAfter, VarsAfter, TempsAfter
  <2> QED BY <1>2, <1>6, <1>8, <2>1, <2>2, <2>3, <2>4, <2>5 DEF Emittable
<1>17. Nests(e, B, s)
  <2>1. Nests(e, B, Ctx(Append(T, Here), vs, 0, f))
    BY <1>2, <1>14, <1>15, TryNests
  <2> QED BY <1>9, <1>10, <2>1
<1>18. Compiled(code, A, e, B, K)
  <2>1. Sound(e, B, K, Len(code) + 2)
    BY <1>2, <1>6, <1>8, <1>11, <1>12, <1>13, <1>16, <1>17, EmitSound
  <2>2. B[Len(code) + 1] = A[Len(code) + 1]
    <3>1. Len(code) + 1 \in 1..(Len(code) + 1)
      BY <1>2
    <3> QED BY <1>14, <3>1
  <2>3. Len(code) + 2 = Len(e) + 1
    BY <1>2, <1>14
  <2> QED BY <1>2, <1>14, <2>1, <2>2, <2>3 DEF Compiled
<1>19. Compiled(code, A, code', B, K) /\ Len(code) < Len(code') /\ B[Len(code') + 1] = s
  <2>1. Len(code) < Len(e) /\ Len(e) + 1 = Len(code) + 2
    BY <1>2, <1>14
  <2> QED BY <1>8, <1>13, <1>14, <1>18, <2>1
<1>20. None # Here
  BY <1>2, CompilerAssumption
<1>21. Attached(code', B, o, f)
  <2>1. Nests(code', B, Ctx(T, vs, 0, f))
    BY <1>1, <1>19, OpenedNests
  <2>2. Here \in 1..Len(code') /\ code'[Here].op = "TRY_BEGIN"
    BY <1>8, <1>13, <1>15
  <2>3. Body(B, o) = vs
    BY <1>5 DEF Body, IsLoop
  <2> QED BY <1>5, <1>15, <1>20, <2>1, <2>2, <2>3, PrefixRefl DEF Attached, IsLoop
<1>22. TriesIn(o) = W /\ tryDepth' = Len(TriesIn(o))
  <2>1. TriesIn(o) = W
    BY <1>5, <1>9, <1>20 DEF TriesIn
  <2>2. Len(W) = Len(T) + 1 /\ tryDepth = Len(T)
    BY <1>1, <1>2, <1>9 DEF CompilerInv
  <2> QED BY <1>4, <2>1, <2>2
<1>23. Prefix(Body(B, o), locals') /\ locals' \in Seq(Nat)
  <2>1. Body(B, o) = vs
    BY <1>5 DEF Body, IsLoop
  <2> QED BY <1>1, <1>2, <1>4, <2>1, PrefixRefl
<1>24. CompilerInv(B)'
  <2>1. B[Len(code') + 1] = Ctx(TriesIn(o), locals', 0, InFunction)
    BY <1>1, <1>4, <1>10, <1>19, <1>22
  <2> QED BY <1>1, <1>4, <1>5, <1>19, <1>21, <1>22, <1>23, <2>1, OpenNext
<1> QED BY <1>24
-----------------------------------------------------------------------------
\* Closing constructs.
LEMMA HolesPop ==
  ASSUME NEW os \in Seq(Constructs), os # <<>>
  PROVE  HolesIn(os) = HolesIn(Front(os)) \cup (HolesOf(Last(os)) \cap Nat)
<1>1. /\ Len(Front(os)) = Len(os) - 1 /\ Len(os) \in Nat /\ Len(os) > 0 /\ Last(os) = os[Len(os)]
      /\ \A i \in 1..(Len(os) - 1) : Front(os)[i] = os[i]
  BY FrontFacts
<1>2. 1..Len(os) = 1..(Len(os) - 1) \cup {Len(os)}
  BY <1>1
<1> QED BY <1>1, <1>2 DEF HolesIn

LEMMA CallsGrown ==
  ASSUME NEW c \in Seq(Instr), NEW d \in Seq(Instr), NEW A, NEW B, Grown(c, A, d, B), NEW S, CallsAt(c, S)
  PROVE  CallsAt(d, S)
BY DEF CallsAt, Grown

\* What is known of the construct that is closed, and of those around it.
LEMMA InnerFacts ==
  ASSUME NEW A, Kept, CompilerInv(A), open # <<>>, NEW o, o = Inner, NEW os, os = Outer
  PROVE  /\ o \in Constructs /\ os \in Seq(Constructs) /\ Attached(code, A, o, InFunction)
         /\ Stacked(code, A, os, InFunction) /\ TriesAround(os) = o.tries /\ Scoped(A, os, o.saved)
         /\ TriesAround(open) = TriesIn(o)
         /\ HolesIn(open) = HolesIn(os) \cup (HolesOf(o) \cap Nat)
         /\ \A i \in 1..Len(os) : os[i] = open[i] /\ i \in 1..Len(open)
         /\ \A i \in 1..Len(os) : IsLoop(os[i]) => Settled(os[i].start, code, o)
         /\ Prefix(o.saved, Body(A, o)) /\ Prefix(Body(A, o), locals) /\ Prefix(o.saved, locals)
         /\ o.tries \in Seq(Nat) /\ o.saved \in Seq(Nat) /\ Len(o.saved) \in Nat
<1>1. open \in Seq(Constructs) /\ code \in Seq(Instr) /\ A \in [Nat -> Shape] /\ locals \in Seq(Nat)
      /\ Here = Len(code) + 1 /\ Len(code) \in Nat
  BY ContextFacts
<1>2. Stacked(code, A, open, InFunction) /\ Scoped(A, open, locals)
  BY DEF CompilerInv
<1>3. /\ Stacked(code, A, os, InFunction) /\ os \in Seq(Constructs) /\ TriesAround(os) = o.tries
      /\ Scoped(A, os, o.saved) /\ o \in Constructs /\ Attached(code, A, o, InFunction)
      /\ \A i \in 1..Len(os) : IsLoop(os[i]) => Settled(os[i].start, code, o)
      /\ Len(os) = Len(open) - 1 /\ \A i \in 1..Len(os) : os[i] = open[i]
  BY <1>2, StackedPop DEF Inner, Outer
<1>4. o = open[Len(open)] /\ Len(open) \in 1..Len(open)
  BY <1>1 DEF Inner, Last
<1>5. TriesAround(open) = TriesIn(o)
  BY <1>4 DEF TriesAround
<1>6. HolesIn(open) = HolesIn(os) \cup (HolesOf(o) \cap Nat)
  BY <1>1, HolesPop DEF Inner, Outer
<1>7. o.tries \in Seq(Nat) /\ o.saved \in Seq(Nat) /\ o.start \in Nat
  BY <1>3 DEF Constructs
<1>8. Prefix(o.saved, Body(A, o)) /\ Prefix(Body(A, o), locals)
  <2>1. Prefix(o.saved, Body(A, o))
    BY <1>3 DEF Attached
  <2>2. Prefix(Body(A, o), locals)
    BY <1>2, <1>4 DEF Scoped
  <2> QED BY <2>1, <2>2
<1>9. Body(A, o) \in Seq(Nat)
  <2>1. A[o.start] \in Shape
    BY <1>1, <1>7
  <2> QED BY <1>7, <2>1 DEF Body, Shape
<1>10. Prefix(o.saved, locals)
  BY <1>1, <1>7, <1>8, <1>9, PrefixTrans
<1>11. Len(o.saved) \in Nat /\ \A i \in 1..Len(os) : i \in 1..Len(open)
  BY <1>1, <1>3, <1>7
<1> QED BY <1>3, <1>5, <1>6, <1>7, <1>8, <1>10, <1>11

\* The construct has been closed.
Closed(A, B, o, os, e) ==
    /\ e \in Seq(Instr) /\ B \in [Nat -> Shape]
    /\ Grown(code, A, e, B) /\ Sound(e, B, HolesIn(os) \cup pending, Len(e) + 1)
    /\ B[Len(e) + 1] = Ctx(o.tries, o.saved, 0, InFunction)
    /\ StartKept(A, B, o)

LEMMA StartsStay ==
  ASSUME NEW c, NEW A, NEW e, NEW B, NEW os, NEW func, Stacked(c, A, os, func), Len(c) \in Nat, Grown(c, A, e, B),
         NEW o, StartKept(A, B, o), \A i \in 1..Len(os) : IsLoop(os[i]) => Settled(os[i].start, c, o)
  PROVE  StartsKept(A, B, os)
<1>1. ASSUME NEW i \in 1..Len(os), IsLoop(os[i]) PROVE B[os[i].start] = A[os[i].start]
  <2>1. os[i].start \in 1..(Len(c) + 1) /\ Settled(os[i].start, c, o)
    BY <1>1 DEF Stacked, Attached
  <2>2. CASE os[i].start <= Len(c)
    BY <2>1, <2>2 DEF Grown
  <2>3. CASE IsLoop(o) /\ o.start = os[i].start
    BY <2>3 DEF StartKept
  <2> QED BY <2>1, <2>2, <2>3 DEF Settled
<1> QED BY <1>1 DEF StartsKept

LEMMA CloseNext ==
  ASSUME NEW A, NEW B, Kept, CompilerInv(A), open # <<>>, UNCHANGED <<phase, entry, pending, vmVars>>,
         NEW o, o = Inner, NEW os, os = Outer, open' = os, locals' = o.saved, tryDepth' = Len(o.tries),
         Closed(A, B, o, os, code')
  PROVE  CompilerInv(B)'
<1>1. PICK f : f = InFunction
  OBVIOUS
<1>2. /\ o \in Constructs /\ os \in Seq(Constructs)
      /\ Stacked(code, A, os, f) /\ TriesAround(os) = o.tries /\ Scoped(A, os, o.saved)
      /\ o.saved \in Seq(Nat)
  BY <1>1, InnerFacts
<1>3. /\ \A i \in 1..Len(os) : IsLoop(os[i]) => Settled(os[i].start, code, o)
      /\ \A i \in 1..Len(os) : i \in 1..Len(open) /\ open'[i] = open[i]
  BY InnerFacts
<1>4. code \in Seq(Instr) /\ Len(code) \in Nat /\ A \in [Nat -> Shape] /\ f \in BOOLEAN
  BY <1>1, ContextFacts
<1>5. /\ code' \in Seq(Instr) /\ B \in [Nat -> Shape] /\ Grown(code, A, code', B)
      /\ Sound(code', B, HolesIn(os) \cup pending, Len(code') + 1)
      /\ B[Len(code') + 1] = Ctx(o.tries, o.saved, 0, f)
      /\ StartKept(A, B, o)
  BY <1>1 DEF Closed
<1>6. StartsKept(A, B, os)
  BY <1>2, <1>3, <1>4, <1>5, StartsStay
<1>7. Stacked(code', B, os, f)
  <2>1. Stacked(code, A, os, f) /\ StartsKept(A, B, os) /\ Grown(code, A, code', B)
    BY <1>2, <1>5, <1>6
  <2>2. code \in Seq(Instr) /\ code' \in Seq(Instr) /\ A \in [Nat -> Shape] /\ B \in [Nat -> Shape] /\ f \in BOOLEAN
    BY <1>4, <1>5
  <2> QED BY ONLY SMTT(20), <2>1, <2>2, StackedKept
<1>8. Scoped(B, os, o.saved)
  <2>1. Prefix(o.saved, o.saved)
    BY PrefixRefl
  <2> QED BY <1>2, <1>4, <1>6, <2>1, ScopedKept
<1>9. CallsAt(code', pending')
  <2>1. CallsAt(code, pending)
    BY DEF CompilerInv
  <2>2. CallsAt(code', pending)
    BY <1>4, <1>5, <2>1, CallsGrown
  <2> QED BY <2>2
<1>10. B[Len(code') + 1] = Ctx(TriesAround(open'), locals', 0, InFunction) /\ tryDepth' = Len(TriesAround(open'))
  BY <1>1, <1>2, <1>5
<1>11. /\ open # <<>> /\ code \in Seq(Instr) /\ Grown(code, A, code', B)
       /\ Sound(code', B, HolesIn(open') \cup pending', Len(code') + 1)
       /\ StartKept(A, B, Inner)
  BY <1>4, <1>5
<1> QED BY <1>1, <1>3, <1>7, <1>8, <1>9, <1>10, <1>11, CompilerNext

\* The jumps at S lead to the place behind the code.
Short(c) == Len(c) < JumpMod \div 2
Leads(c, B, S) == \A p \in 1..Len(c) : p \in S => c[p].op \in Branching /\ Taken(c[p].op, B[p], B[Len(c) + 1])
Patched(c, B, e, more) ==
    e \in Seq(Instr) /\ Len(e) = Len(c) /\ Grown(c, B, e, B) /\ Sound(e, B, more, Len(e) + 1)

LEMMA PatchTyped ==
  ASSUME NEW c, NEW B, NEW holes, NEW more, NEW S, Short(c), Sound(c, B, holes, Len(c) + 1),
         holes \subseteq more \cup S, Leads(c, B, S), NEW e, e = Patch(c, S)
  PROVE  Patched(c, B, e, more)
<1>1. c \in Seq(Instr) /\ Len(c) < JumpMod \div 2
  BY DEF Sound, Short
<1>2. \A p \in 1..Len(c) : p \in S => c[p].op \in Branching /\ Taken(c[p].op, B[p], B[Len(c) + 1])
  BY DEF Leads
<1>3. Filled(c, S, Patch(c, S)) /\ Grown(c, B, Patch(c, S), B)
  BY <1>1, PatchShape
<1>4. Sound(Patch(c, S), B, more, Len(c) + 1)
  BY <1>1, <1>2, PatchSound
<1>5. e \in Seq(Instr) /\ Len(e) = Len(c)
  BY <1>3 DEF Filled
<1> QED BY <1>3, <1>4, <1>5 DEF Patched

LEMMA WeakenTyped ==
  ASSUME NEW c, NEW A, NEW holes, Sound(c, A, holes, Len(c) + 1), NEW s \in Shape, NEW B, B = Known(A, Len(c) + 1, s),
         Weaker(A[Len(c) + 1], s), Nests(c, A, s)
  PROVE  /\ B \in [Nat -> Shape] /\ Grown(c, A, c, B) /\ B[Len(c) + 1] = s
         /\ Sound(c, B, holes, Len(c) + 1)
<1>1. c \in Seq(Instr) /\ A \in [Nat -> Shape]
  BY DEF Sound
<1>2. Sound(c, B, holes, Len(c) + 1)
  BY WeakenSound
<1>3. B \in [Nat -> Shape] /\ B[Len(c) + 1] = s /\ \A p \in 1..Len(c) : B[p] = A[p]
  BY <1>1 DEF Known
<1>4. Grown(c, A, c, B)
  BY <1>1, <1>3 DEF Grown
<1> QED BY <1>2, <1>3, <1>4

\* The end of an if and of a catch block.
LEMMA EndTyped ==
  ASSUME NEW A, Kept, CompilerInv(A), OperandsFit, EndIf \/ EndTry, UNCHANGED vmVars
  PROVE  \E B : CompilerInv(B)'
<1>1. PICK o, os, f, H, M : /\ o = Inner /\ os = Outer /\ f = InFunction
                            /\ H = HolesIn(open) \cup pending /\ M = HolesIn(os) \cup pending
  OBVIOUS
<1>2. /\ open # <<>> /\ o.kind \in {"else", "catch"}
      /\ code' = Patch(code, {o.jump}) /\ locals' = o.saved /\ open' = os
      /\ UNCHANGED <<phase, tryDepth, entry, pending>>
  BY <1>1 DEF EndIf, EndTry, Inside
<1>3. /\ o \in Constructs /\ os \in Seq(Constructs) /\ Attached(code, A, o, f)
      /\ TriesAround(open) = TriesIn(o)
      /\ HolesIn(open) = HolesIn(os) \cup (HolesOf(o) \cap Nat)
      /\ Prefix(o.saved, locals) /\ o.tries \in Seq(Nat) /\ o.saved \in Seq(Nat)
  BY <1>1, <1>2, InnerFacts
<1>4. /\ code \in Seq(Instr) /\ Len(code) \in Nat /\ A \in [Nat -> Shape] /\ f \in BOOLEAN
      /\ A[Len(code) + 1] = Ctx(TriesAround(open), locals, 0, f)
      /\ Sound(code, A, H, Len(code) + 1)
  BY <1>1, ContextFacts DEF Compiled
<1>5. /\ o.depth = Len(o.tries) /\ Nests(code, A, Ctx(o.tries, o.saved, 0, f))
      /\ JumpsFrom(code, A, o.jump, "JUMP", Ctx(o.tries, o.saved, 0, f))
      /\ o.breaks = {} /\ o.continues = {} /\ o.try = None
  BY <1>2, <1>3 DEF Attached, IsLoop
<1>6. TriesIn(o) = o.tries /\ HolesOf(o) \cap Nat \subseteq {o.jump}
  BY <1>5, CompilerAssumption DEF TriesIn, HolesOf
<1>7. PICK s : s = Ctx(o.tries, o.saved, 0, f)
  OBVIOUS
<1>8. PICK B : B = Known(A, Len(code) + 1, s)
  OBVIOUS
<1>9. /\ B \in [Nat -> Shape] /\ Grown(code, A, code, B) /\ B[Len(code) + 1] = s
      /\ Sound(code, B, H, Len(code) + 1)
  <2>1. s \in Shape
    BY <1>3, <1>4, <1>7, CtxTyped
  <2>2. Weaker(A[Len(code) + 1], s)
    BY <1>3, <1>4, <1>6, <1>7 DEF Weaker, Ctx
  <2>3. Nests(code, A, s)
    BY <1>5, <1>7
  <2> QED BY <1>4, <1>8, <2>1, <2>2, <2>3, WeakenTyped
<1>10. PICK e : e = Patch(code, {o.jump})
  OBVIOUS
<1>11. Patched(code, B, e, M)
  <2>1. PICK S : S = {o.jump}
    OBVIOUS
  <2>2. Leads(code, B, S)
    <3>1. o.jump \in 1..Len(code) /\ code[o.jump].op = "JUMP" /\ Taken("JUMP", A[o.jump], s)
      BY <1>5, <1>7 DEF JumpsFrom
    <3>2. B[o.jump] = A[o.jump]
      BY <1>9, <3>1 DEF Grown
    <3> QED BY <1>9, <2>1, <3>1, <3>2 DEF Leads, Branching
  <2>3. H \subseteq M \cup S
    BY <1>1, <1>3, <1>6, <2>1
  <2>4. Short(code)
    BY DEF OperandsFit, Short
  <2> QED BY <1>9, <1>10, <2>1, <2>2, <2>3, <2>4, PatchTyped
<1>12. Closed(A, B, o, os, e)
  <2>1. e \in Seq(Instr) /\ Len(e) = Len(code) /\ Grown(code, B, e, B) /\ Sound(e, B, M, Len(e) + 1)
    BY <1>11 DEF Patched
  <2>2. Grown(code, A, e, B)
    BY <1>4, <1>9, <2>1, GrownTrans
  <2>3. StartKept(A, B, o)
    BY <1>2 DEF StartKept, IsLoop
  <2> QED BY <1>1, <1>7, <1>9, <2>1, <2>2, <2>3 DEF Closed
<1>13. tryDepth' = Len(o.tries)
  BY <1>2, <1>3, <1>6 DEF CompilerInv
<1>14. CompilerInv(B)'
  BY <1>1, <1>2, <1>10, <1>12, <1>13, CloseNext
<1> QED BY <1>14

\* The end of a loop, step by step: at its bottom, behind the jump back, and
\* behind the exit of the test; there the breaks arrive.
Bottom(A, c, B, r, o, os) ==
    /\ c \in Seq(Instr) /\ B \in [Nat -> Shape] /\ Grown(code, A, c, B)
    /\ Sound(c, B, HolesIn(os) \cup pending \cup o.breaks \cup {o.jump}, Len(c) + 1)
    /\ B[Len(c) + 1] = r
    /\ r.tries = o.tries /\ r.temps = 0 /\ r.func = InFunction /\ Prefix(Body(A, o), r.vars)
    /\ B[o.start] = A[o.start] /\ o.start \in 1..(Len(c) + 1)
BackAt(c, i, r, o) ==
    i \in Instr /\ i.op = "JUMP" /\ Len(c) + 2 + i.n = o.start /\ (i.stmt = None \/ i.stmt = Marks(r))
Behind(A, x, C, o, os, s) ==
    /\ x \in Seq(Instr) /\ C \in [Nat -> Shape] /\ Grown(code, A, x, C)
    /\ Sound(x, C, HolesIn(os) \cup pending \cup o.breaks \cup {o.jump}, Len(x) + 1)
    /\ C[Len(x) + 1] = s /\ StartKept(A, C, o)
Exit(A, x, C, o, os) ==
    /\ x \in Seq(Instr) /\ C \in [Nat -> Shape] /\ Grown(code, A, x, C)
    /\ Sound(x, C, HolesIn(os) \cup pending \cup o.breaks, Len(x) + 1)
    /\ C[Len(x) + 1] = Ctx(o.tries, o.saved, 0, InFunction) /\ StartKept(A, C, o)

LEMMA BreaksLand ==
  ASSUME NEW A, Kept, CompilerInv(A), open # <<>>, NEW o, o = Inner, NEW os, os = Outer,
         NEW x, NEW C, Exit(A, x, C, o, os), Short(x), NEW e, e = Patch(x, o.breaks)
  PROVE  Closed(A, C, o, os, e)
<1>1. PICK s, M, H, S, f : /\ s = Ctx(o.tries, o.saved, 0, f) /\ M = HolesIn(os) \cup pending
                           /\ H = HolesIn(os) \cup pending \cup o.breaks /\ S = o.breaks /\ f = InFunction
  OBVIOUS
<1>2. Attached(code, A, o, f) /\ code \in Seq(Instr)
  BY <1>1, InnerFacts, ContextFacts
<1>3. /\ x \in Seq(Instr) /\ C \in [Nat -> Shape] /\ Grown(code, A, x, C)
      /\ Sound(x, C, H, Len(x) + 1) /\ C[Len(x) + 1] = s /\ StartKept(A, C, o)
  BY <1>1 DEF Exit
<1>4. Leads(x, C, S)
  <2>1. \A p \in S : JumpsFrom(code, A, p, "JUMP", s)
    BY <1>1, <1>2 DEF Attached
  <2>2. ASSUME NEW p \in S PROVE x[p].op = "JUMP" /\ Taken("JUMP", C[p], s)
    <3>1. p \in 1..Len(code) /\ code[p].op = "JUMP" /\ Taken("JUMP", A[p], s)
      BY <2>1 DEF JumpsFrom
    <3>2. x[p].op = "JUMP" /\ C[p] = A[p]
      BY <1>3, <3>1 DEF Grown
    <3> QED BY <3>1, <3>2
  <2> QED BY <1>3, <2>2 DEF Leads, Branching
<1>5. H \subseteq M \cup S
  BY <1>1
<1>6. Patched(x, C, e, M)
  BY <1>1, <1>3, <1>4, <1>5, PatchTyped
<1>7. e \in Seq(Instr) /\ Len(e) = Len(x) /\ Grown(x, C, e, C) /\ Sound(e, C, M, Len(e) + 1)
  BY <1>6 DEF Patched
<1>8. Grown(code, A, e, C)
  BY <1>2, <1>3, <1>7, GrownTrans
<1> QED BY <1>1, <1>3, <1>7, <1>8 DEF Closed

LEMMA LoopNests ==
  ASSUME NEW A, Kept, CompilerInv(A), open # <<>>, NEW o, o = Inner, NEW func, func = InFunction, IsLoop(o)
  PROVE  /\ Nests(code, A, Ctx(o.tries, o.saved, 0, func)) /\ Nests(code, A, Ctx(o.tries, Body(A, o), 1, func))
         /\ Body(A, o) \in Seq(Nat) /\ Ctx(o.tries, o.saved, 0, func) \in Shape
         /\ Ctx(o.tries, Body(A, o), 1, func) \in Shape
<1>1. PICK b : b = Body(A, o)
  OBVIOUS
<1>2. /\ o \in Constructs /\ o.tries \in Seq(Nat) /\ o.saved \in Seq(Nat) /\ Attached(code, A, o, func)
  BY InnerFacts
<1>3. A \in [Nat -> Shape] /\ code \in Seq(Instr) /\ func \in BOOLEAN /\ Sound(code, A, HolesIn(open) \cup pending, Len(code) + 1)
  BY ContextFacts DEF Compiled
<1>4. o.start \in 1..(Len(code) + 1) /\ A[o.start] = Ctx(o.tries, b, 0, func) /\ o.start \in Nat
  BY <1>1, <1>2 DEF Attached, Constructs
<1>5. b \in Seq(Nat)
  <2>1. A[o.start] \in Shape
    BY <1>3, <1>4
  <2> QED BY <1>4, <2>1 DEF Ctx, Shape
<1>6. Nests(code, A, Ctx(o.tries, b, 0, func))
  BY <1>3, <1>4 DEF Sound
<1>7. Nests(code, A, Ctx(o.tries, b, 1, func))
  BY <1>6 DEF Nests, Ctx
<1>8. Nests(code, A, Ctx(o.tries, o.saved, 0, func))
  BY <1>2 DEF Attached
<1> QED BY <1>1, <1>2, <1>3, <1>5, <1>7, <1>8, CtxTyped

LEMMA LoopBack ==
  ASSUME NEW A, Kept, CompilerInv(A), open # <<>>, NEW o, o = Inner, NEW os, os = Outer, IsLoop(o),
         NEW c, NEW B, NEW r, Bottom(A, c, B, r, o, os), NEW i, BackAt(c, i, r, o),
         NEW s \in Shape, Nests(code, A, s), NEW x, x = Append(c, i)
  PROVE  \E C : Behind(A, x, C, o, os, s)
<1>1. PICK Q, f, b : /\ Q = HolesIn(os) \cup pending \cup o.breaks \cup {o.jump} /\ f = InFunction /\ b = Body(A, o)
  OBVIOUS
<1>2. Attached(code, A, o, f) /\ code \in Seq(Instr)
  BY <1>1, InnerFacts, ContextFacts
<1>3. /\ c \in Seq(Instr) /\ B \in [Nat -> Shape] /\ Grown(code, A, c, B) /\ Sound(c, B, Q, Len(c) + 1)
      /\ B[Len(c) + 1] = r /\ r.tries = o.tries /\ r.temps = 0 /\ r.func = f /\ Prefix(b, r.vars)
      /\ B[o.start] = A[o.start] /\ o.start \in 1..(Len(c) + 1) /\ Len(c) \in Nat
  BY <1>1 DEF Bottom
<1>4. i \in Instr /\ i.op = "JUMP" /\ Len(c) + 2 + i.n = o.start /\ (i.stmt = None \/ i.stmt = Marks(r))
  BY DEF BackAt
<1>5. A[o.start] = Ctx(o.tries, b, 0, f)
  BY <1>1, <1>2 DEF Attached
<1>6. Nests(c, B, s)
  BY <1>2, <1>3, NestsKept
<1>7. Emittable(c, B, Q, i, s)
  <2>1. Legal(i, r)
    BY <1>4 DEF Legal
  <2>2. Taken("JUMP", r, B[o.start])
    BY <1>3, <1>5 DEF Taken, Ctx
  <2>3. Len(c) + 1 + 1 + i.n = o.start
    BY <1>3, <1>4 DEF Instr
  <2> QED BY <1>3, <1>4, <2>1, <2>2, <2>3 DEF Emittable, Falls
<1>8. Compiled(c, B, c, B, Q)
  BY <1>3, CompiledRefl
<1>9. PICK C : Emitted(c, B, c, B, i, s, Q, C)
  BY <1>4, <1>6, <1>7, <1>8, Emit
<1>10. Compiled(c, B, x, C, Q) /\ Len(x) = Len(c) + 1 /\ C[Len(c) + 2] = s
  BY <1>9 DEF Emitted
<1>11. x \in Seq(Instr) /\ C \in [Nat -> Shape] /\ Grown(c, B, x, C) /\ Sound(x, C, Q, Len(x) + 1)
  BY <1>10, CompiledTyped DEF Compiled
<1>12. Grown(code, A, x, C)
  BY <1>2, <1>3, <1>11, GrownTrans
<1>13. C[Len(x) + 1] = s
  BY <1>3, <1>10
<1>14. StartKept(A, C, o)
  BY <1>3, <1>10, CompiledSame DEF StartKept
<1> QED BY <1>1, <1>11, <1>12, <1>13, <1>14 DEF Behind

\* The exit of the test arrives, and its value is popped.
LEMMA LoopExit ==
  ASSUME NEW A, Kept, CompilerInv(A), open # <<>>, NEW o, o = Inner, NEW os, os = Outer, IsLoop(o), o.jump # 0,
         NEW c, NEW B, Behind(A, c, B, o, os, Ctx(o.tries, Body(A, o), 1, InFunction)), Short(c),
         NEW x, x = Append(Patch(c, {o.jump}), I("POP", 0))
  PROVE  \E C : Exit(A, x, C, o, os)
<1>1. PICK Q, M, f, b, s, t, S : /\ Q = HolesIn(os) \cup pending \cup o.breaks \cup {o.jump}
                                 /\ M = HolesIn(os) \cup pending \cup o.breaks /\ S = {o.jump}
                                 /\ f = InFunction /\ b = Body(A, o)
                                 /\ s = Ctx(o.tries, b, 1, f) /\ t = Ctx(o.tries, o.saved, 0, f)
  OBVIOUS
<1>2. Attached(code, A, o, f) /\ code \in Seq(Instr) /\ Prefix(o.saved, b) /\ o.tries \in Seq(Nat) /\ o.saved \in Seq(Nat)
  BY <1>1, InnerFacts, ContextFacts
<1>3. /\ c \in Seq(Instr) /\ B \in [Nat -> Shape] /\ Grown(code, A, c, B) /\ Sound(c, B, Q, Len(c) + 1)
      /\ B[Len(c) + 1] = s /\ StartKept(A, B, o)
  BY <1>1 DEF Behind
<1>4. Nests(code, A, t) /\ t \in Shape
  BY <1>1, LoopNests
<1>5. PICK d : d = Patch(c, {o.jump})
  OBVIOUS
<1>6. Patched(c, B, d, M)
  <2>1. JumpsFrom(code, A, o.jump, "JUMP_IF_FALSE", s)
    BY <1>1, <1>2 DEF Attached
  <2>2. o.jump \in 1..Len(code) /\ code[o.jump].op = "JUMP_IF_FALSE" /\ Taken("JUMP_IF_FALSE", A[o.jump], s)
    BY <2>1 DEF JumpsFrom
  <2>3. c[o.jump].op = "JUMP_IF_FALSE" /\ B[o.jump] = A[o.jump]
    BY <1>3, <2>2 DEF Grown
  <2>4. Leads(c, B, S)
    BY <1>1, <1>3, <2>2, <2>3 DEF Leads, Branching
  <2>5. Q \subseteq M \cup S
    BY <1>1
  <2> QED BY <1>1, <1>3, <1>5, <2>4, <2>5, PatchTyped
<1>7. d \in Seq(Instr) /\ Len(d) = Len(c) /\ Grown(c, B, d, B) /\ Sound(d, B, M, Len(d) + 1) /\ B[Len(d) + 1] = s
  BY <1>3, <1>6 DEF Patched
<1>8. Grown(code, A, d, B)
  BY <1>2, <1>3, <1>7, GrownTrans
<1>9. PICK i : i = I("POP", 0)
  OBVIOUS
<1>10. i \in Instr /\ i.op = "POP" /\ i.stmt = None
  BY <1>9 DEF I, Instr, Opcode
<1>11. Emittable(d, B, M, i, t)
  <2>1. s.tries = o.tries /\ s.vars = b /\ s.temps = 1 /\ s.func = f
    BY <1>1 DEF Ctx
  <2>2. t.tries = o.tries /\ t.vars = o.saved /\ t.temps = 0 /\ t.func = f /\ ~t.arg
    BY <1>1 DEF Ctx
  <2>3. Legal(i, s)
    BY <1>10, <2>1 DEF Legal
  <2>4. Steps(i, Len(d) + 1, s, t)
    BY <1>2, <1>10, <2>1, <2>2 DEF Steps, TriesAfter, VarsAfter, TempsAfter
  <2> QED BY <1>7, <1>10, <2>3, <2>4 DEF Emittable, Branching
<1>12. Nests(d, B, t)
  BY <1>2, <1>4, <1>7, <1>8, <1>3, NestsKept
<1>13. Compiled(d, B, d, B, M)
  BY <1>7, CompiledRefl
<1>14. PICK C : Emitted(d, B, d, B, i, t, M, C)
  BY <1>4, <1>10, <1>11, <1>12, <1>13, Emit
<1>15. Compiled(d, B, x, C, M) /\ Len(x) = Len(d) + 1 /\ C[Len(d) + 2] = t
  BY <1>5, <1>9, <1>14 DEF Emitted
<1>16. x \in Seq(Instr) /\ C \in [Nat -> Shape] /\ Grown(d, B, x, C) /\ Sound(x, C, M, Len(x) + 1)
  BY <1>15, CompiledTyped DEF Compiled
<1>17. Grown(code, A, x, C)
  BY <1>2, <1>7, <1>8, <1>16, GrownTrans
<1>18. C[Len(x) + 1] = t
  BY <1>7, <1>15
<1>19. StartKept(A, C, o)
  <2>1. IsLoop(o) => o.start \in 1..(Len(d) + 1)
    <3>1. o.start \in 1..(Len(code) + 1) /\ Len(code) <= Len(d) /\ Len(d) \in Nat /\ Len(code) \in Nat
      BY <1>2, <1>7, <1>8 DEF Attached, Grown
    <3> QED BY <3>1
  <2>2. IsLoop(o) => C[o.start] = B[o.start]
    BY <1>15, <2>1, CompiledSame
  <2> QED BY <1>3, <2>2 DEF StartKept
<1> QED BY <1>1, <1>16, <1>17, <1>18, <1>19 DEF Exit

LEMMA PatchLen ==
  ASSUME NEW c \in Seq(Instr), NEW S
  PROVE  Patch(c, S) \in Seq(Instr) /\ Len(Patch(c, S)) = Len(c)
<1>1. JumpMod \in Nat /\ JumpMod > 0
  BY CompilerAssumption
<1>2. \A x \in Int : Signed(x) \in Int
  <2>1. JumpMod \div 2 \in Int /\ \A y \in Int : y % JumpMod \in Int
    BY <1>1
  <2> QED BY <2>1 DEF Signed
<1>3. ASSUME NEW p \in 1..Len(c)
      PROVE  (IF p \in S THEN [c[p] EXCEPT !.n = Signed(Len(c) - p)] ELSE c[p]) \in Instr
  <2>1. Signed(Len(c) - p) \in Int /\ c[p] \in Instr
    BY <1>2
  <2>2. PICK n \in Int, i \in Instr : n = Signed(Len(c) - p) /\ i = c[p]
    BY <2>1
  <2>3. [i EXCEPT !.n = n] \in Instr
    BY DEF Instr
  <2> QED BY <2>1, <2>2, <2>3
<1>4. Patch(c, S) \in [1..Len(c) -> Instr]
  BY <1>3 DEF Patch
<1> QED BY <1>4

LEMMA LoopLength ==
  ASSUME NEW o, NEW back \in Seq(Instr), NEW exit, NEW S, NEW e, e = Patch(exit, S), Short(e),
         o.jump = 0 => exit = back, o.jump # 0 => exit = Append(Patch(back, {o.jump}), I("POP", 0))
  PROVE  exit \in Seq(Instr) /\ Short(exit) /\ Short(back)
<1>2. exit \in Seq(Instr) /\ Len(back) <= Len(exit)
  <2>1. CASE o.jump = 0
    BY <2>1
  <2>2. CASE o.jump # 0
    <3>1. PICK d : d = Patch(back, {o.jump})
      OBVIOUS
    <3>2. d \in Seq(Instr) /\ Len(d) = Len(back)
      BY <3>1, PatchLen
    <3>3. PICK k \in Instr : k = I("POP", 0)
      <4>1. I("POP", 0) \in Instr
        BY DEF I, Instr, Opcode
      <4> QED BY <4>1
    <3>4. exit = Append(d, k)
      BY <2>2, <3>1, <3>3
    <3> QED BY <3>2, <3>3, <3>4, AppendProperties
  <2> QED BY <2>1, <2>2
<1>3. Short(exit) /\ Short(back)
  <2>1. Len(e) = Len(exit)
    BY <1>2, PatchLen
  <2>2. Len(e) < JumpMod \div 2
    BY DEF Short
  <2>3. JumpMod \div 2 \in Nat /\ Len(back) \in Nat /\ Len(exit) \in Nat
    BY <1>2, CompilerAssumption
  <2> QED BY <1>2, <2>1, <2>2, <2>3 DEF Short
<1> QED BY <1>2, <1>3

LEMMA LoopEnd ==
  ASSUME NEW A, Kept, CompilerInv(A), OperandsFit', open # <<>>, NEW o, o = Inner, NEW os, os = Outer, IsLoop(o),
         NEW c, NEW B, NEW r, Bottom(A, c, B, r, o, os), NEW i, BackAt(c, i, r, o), NEW back, back = Append(c, i),
         NEW exit, o.jump = 0 => exit = back, o.jump # 0 => exit = Append(Patch(back, {o.jump}), I("POP", 0)),
         code' = Patch(exit, o.breaks)
  PROVE  \E C : Closed(A, C, o, os, code')
<1>1. c \in Seq(Instr) /\ i \in Instr /\ back \in Seq(Instr)
  <2>1. c \in Seq(Instr) /\ i \in Instr
    BY DEF Bottom, BackAt
  <2> QED BY <2>1, AppendProperties
<1>3. Short(exit) /\ Short(back)
  <2>1. Short(code')
    BY DEF OperandsFit, Short
  <2> QED BY <1>1, <2>1, LoopLength
<1>4. PICK f, b, s, t : f = InFunction /\ b = Body(A, o) /\ s = Ctx(o.tries, b, 1, f) /\ t = Ctx(o.tries, o.saved, 0, f)
  OBVIOUS
<1>5. Nests(code, A, s) /\ Nests(code, A, t) /\ s \in Shape /\ t \in Shape
  BY <1>4, LoopNests
<1>6. PICK C : Exit(A, exit, C, o, os)
  <2>1. CASE o.jump = 0
    <3>1. PICK C : Behind(A, back, C, o, os, t)
      BY <1>5, LoopBack
    <3>2. Attached(code, A, o, f) /\ code \in Seq(Instr)
      BY <1>4, InnerFacts, ContextFacts
    <3>3. /\ back \in Seq(Instr) /\ C \in [Nat -> Shape] /\ Grown(code, A, back, C)
          /\ Sound(back, C, HolesIn(os) \cup pending \cup o.breaks \cup {o.jump}, Len(back) + 1)
          /\ C[Len(back) + 1] = t /\ StartKept(A, C, o)
      BY <3>1 DEF Behind
    <3>4. Sound(back, C, HolesIn(os) \cup pending \cup o.breaks, Len(back) + 1)
      BY <2>1, <3>3 DEF Sound
    <3> QED BY <1>4, <2>1, <3>3, <3>4 DEF Exit
  <2>2. CASE o.jump # 0
    <3>1. PICK C : Behind(A, back, C, o, os, s)
      BY <1>5, LoopBack
    <3>2. exit = Append(Patch(back, {o.jump}), I("POP", 0))
      BY <2>2
    <3>3. Behind(A, back, C, o, os, Ctx(o.tries, Body(A, o), 1, InFunction))
      BY <1>4, <3>1
    <3> QED BY <1>3, <2>2, <3>2, <3>3, LoopExit
  <2> QED BY <2>1, <2>2
<1>7. PICK e : e = code'
  OBVIOUS
<1>8. Closed(A, C, o, os, e)
  BY <1>3, <1>6, <1>7, BreaksLand
<1> QED BY <1>7, <1>8

LEMMA BackFits ==
  ASSUME NEW c \in Seq(Instr), NEW start \in 1..(Len(c) + 1), Len(c) + 1 < JumpMod \div 2,
         NEW i, i = Jump("JUMP", Len(c) + 1, start)
  PROVE  i \in Instr /\ i.op = "JUMP" /\ Len(c) + 2 + i.n = start /\ i.stmt = None
<1>1. PICK x : x = start - (Len(c) + 1) - 1
  OBVIOUS
<1>2. Len(c) \in Nat /\ JumpMod \div 2 \in Nat /\ x \in Int
  BY <1>1, CompilerAssumption
<1>4. x < JumpMod \div 2 /\ -x < JumpMod \div 2
  BY <1>1, <1>2
<1>5. Signed(x) = x
  BY <1>2, <1>4, SignedFits
<1>6. i = I("JUMP", x)
  BY <1>1, <1>5 DEF Jump
<1>7. i.op = "JUMP" /\ i.n = x /\ i.stmt = None
  BY <1>6 DEF I
<1>8. i \in Instr
  BY <1>2, <1>6 DEF I, Instr, Opcode
<1> QED BY <1>1, <1>2, <1>7, <1>8

LEMMA SoundMore ==
  ASSUME NEW c, NEW A, NEW holes, NEW more, NEW last, Sound(c, A, holes, last), holes \subseteq more
  PROVE  Sound(c, A, more, last)
BY DEF Sound

LEMMA EndWhileTyped ==
  ASSUME NEW A, Kept, CompilerInv(A), OperandsFit', EndWhile, UNCHANGED vmVars
  PROVE  \E B : CompilerInv(B)'
<1>1. PICK o, os, f, Q, r : /\ o = Inner /\ os = Outer /\ f = InFunction
                            /\ Q = HolesIn(os) \cup pending \cup o.breaks \cup {o.jump} /\ r = A[Here]
  OBVIOUS
<1>2. PICK n : n = Here
  OBVIOUS
<1>3. PICK j : j = Jump("JUMP", n, o.start)
  OBVIOUS
<1>4. PICK i : i = AsFirst(j)
  OBVIOUS
<1>5. PICK back : back = code \o First(<<j>>)
  OBVIOUS
<1>6. PICK exit : exit = IF o.jump = 0 THEN back ELSE Append(Patch(back, {o.jump}), I("POP", 0))
  OBVIOUS
<1>7. /\ open # <<>> /\ o.kind = "while"
      /\ code' = Patch(exit, o.breaks) /\ locals' = o.saved /\ open' = os
      /\ UNCHANGED <<phase, tryDepth, entry, pending>>
  BY <1>1, <1>2, <1>3, <1>5, <1>6 DEF EndWhile, EndLoop, Inside, Back
<1>8. /\ o \in Constructs /\ Attached(code, A, o, f)
      /\ TriesAround(open) = TriesIn(o)
      /\ HolesIn(open) = HolesIn(os) \cup (HolesOf(o) \cap Nat)
      /\ Prefix(Body(A, o), locals)
  BY <1>1, <1>7, InnerFacts
<1>9. /\ code \in Seq(Instr) /\ Len(code) \in Nat /\ A \in [Nat -> Shape] /\ f \in BOOLEAN /\ n = Len(code) + 1
      /\ r = Ctx(TriesAround(open), locals, 0, f)
      /\ Context = [tries |-> TriesAround(open), vars |-> locals]
      /\ Context \in [tries : Seq(Nat), vars : Seq(Nat)]
      /\ Sound(code, A, HolesIn(open) \cup pending, Len(code) + 1)
  BY <1>1, <1>2, ContextFacts DEF Compiled
<1>10. IsLoop(o) /\ o.try = None /\ o.continues = {} /\ o.start \in 1..(Len(code) + 1)
  BY <1>7, <1>8 DEF Attached, IsLoop
<1>11. TriesIn(o) = o.tries /\ HolesIn(open) \cup pending \subseteq Q
  BY <1>1, <1>8, <1>10, CompilerAssumption DEF TriesIn, HolesOf
<1>12. Signed(o.start - n - 1) \in Int
  <2>1. JumpMod \in Nat /\ JumpMod > 0 /\ o.start - n - 1 \in Int
    BY <1>9, <1>10, CompilerAssumption
  <2>2. PICK x \in Int : x = o.start - n - 1
    BY <2>1
  <2>3. Signed(x) \in Int
    <3>1. JumpMod \div 2 \in Int /\ \A y \in Int : y % JumpMod \in Int
      BY <2>1
    <3> QED BY <3>1 DEF Signed
  <2> QED BY <2>2, <2>3
<1>13. j \in Instr /\ i \in Instr /\ back = Append(code, i)
  <2>1. j \in Instr
    BY <1>3, <1>12 DEF Jump, I, Instr, Opcode
  <2> QED BY <1>4, <1>5, <1>9, <2>1, FirstTyped, Block1
<1>14. (o.jump = 0 => exit = back) /\ (o.jump # 0 => exit = Append(Patch(back, {o.jump}), I("POP", 0)))
  BY <1>6
<1>15. Len(code) + 1 < JumpMod \div 2
  <2>1. back \in Seq(Instr) /\ Len(back) = Len(code) + 1
    BY <1>9, <1>13, AppendProperties
  <2>2. Short(code')
    BY DEF OperandsFit, Short
  <2>3. Short(back)
    BY <1>7, <1>14, <2>1, <2>2, LoopLength
  <2> QED BY <2>1, <2>3 DEF Short
<1>16. BackAt(code, i, r, o)
  <2>1. j = Jump("JUMP", Len(code) + 1, o.start)
    BY <1>3, <1>9
  <2>2. j.op = "JUMP" /\ Len(code) + 2 + j.n = o.start
    BY <1>9, <1>10, <1>15, <2>1, BackFits
  <2>3. i.op = j.op /\ i.n = j.n /\ i.stmt = Context
    BY <1>4, <1>13 DEF AsFirst, Instr
  <2>4. i.stmt = Marks(r)
    BY <1>9, <2>3 DEF Marks, Ctx
  <2> QED BY <1>13, <2>2, <2>3, <2>4 DEF BackAt
<1>17. Bottom(A, code, A, r, o, os)
  <2>1. Sound(code, A, Q, Len(code) + 1)
    BY <1>9, <1>11, SoundMore
  <2>2. Grown(code, A, code, A)
    BY <1>9, GrownRefl
  <2>3. r.tries = o.tries /\ r.temps = 0 /\ r.func = f /\ r.vars = locals
    BY <1>8, <1>9, <1>11 DEF Ctx
  <2>4. A[Len(code) + 1] = r
    BY <1>1, <1>2, <1>9
  <2> QED BY <1>1, <1>8, <1>9, <1>10, <2>1, <2>2, <2>3, <2>4 DEF Bottom
<1>18. PICK B : Closed(A, B, o, os, code')
  BY <1>1, <1>7, <1>10, <1>13, <1>14, <1>16, <1>17, LoopEnd
<1>19. tryDepth' = Len(o.tries)
  BY <1>7, <1>8, <1>11 DEF CompilerInv
<1>20. CompilerInv(B)'
  BY <1>1, <1>7, <1>18, <1>19, CloseNext
<1> QED BY <1>20

\* The continues of a for loop arrive at its step.
LEMMA StepReached ==
  ASSUME NEW A, Kept, CompilerInv(A), open # <<>>, NEW o, o = Inner, NEW os, os = Outer, o.kind = "for", Short(code),
         NEW r, r = Ctx(o.tries, Body(A, o), 0, InFunction), NEW c, c = Patch(code, o.continues)
  PROVE  \E B : Bottom(A, c, B, r, o, os) /\ Len(c) = Len(code)
<1>1. PICK f, b, Q, H, S : /\ f = InFunction /\ b = Body(A, o) /\ H = HolesIn(open) \cup pending
                           /\ Q = HolesIn(os) \cup pending \cup o.breaks \cup {o.jump} /\ S = o.continues
  OBVIOUS
<1>2. /\ o \in Constructs /\ Attached(code, A, o, f)
      /\ TriesAround(open) = TriesIn(o)
      /\ HolesIn(open) = HolesIn(os) \cup (HolesOf(o) \cap Nat)
      /\ Prefix(b, locals) /\ o.tries \in Seq(Nat)
  BY <1>1, InnerFacts
<1>3. /\ code \in Seq(Instr) /\ Len(code) \in Nat /\ A \in [Nat -> Shape] /\ f \in BOOLEAN
      /\ A[Len(code) + 1] = Ctx(TriesAround(open), locals, 0, f)
      /\ Sound(code, A, H, Len(code) + 1)
  BY <1>1, ContextFacts DEF Compiled
<1>4. IsLoop(o) /\ o.try = None /\ o.start \in 1..(Len(code) + 1) /\ A[o.start] = r
  BY <1>1, <1>2 DEF Attached, IsLoop
<1>5. TriesIn(o) = o.tries /\ H \subseteq Q \cup S
  BY <1>1, <1>2, <1>4, CompilerAssumption DEF TriesIn, HolesOf
<1>6. r \in Shape /\ Nests(code, A, r)
  BY <1>3, <1>4 DEF Sound
<1>7. r.tries = o.tries /\ r.temps = 0 /\ r.func = f /\ r.vars = b /\ ~r.arg
  BY <1>1 DEF Ctx
<1>8. PICK B : B = Known(A, Len(code) + 1, r)
  OBVIOUS
<1>9. /\ B \in [Nat -> Shape] /\ Grown(code, A, code, B) /\ B[Len(code) + 1] = r
      /\ Sound(code, B, H, Len(code) + 1)
  <2>1. Weaker(A[Len(code) + 1], r)
    BY <1>2, <1>3, <1>5, <1>7 DEF Weaker, Ctx
  <2> QED BY <1>3, <1>6, <1>8, <2>1, WeakenTyped
<1>10. Patched(code, B, c, Q)
  <2>1. \A p \in S : JumpsFrom(code, A, p, "JUMP", r)
    BY <1>1, <1>2 DEF Attached
  <2>2. ASSUME NEW p \in S PROVE p \in 1..Len(code) /\ code[p].op = "JUMP" /\ Taken("JUMP", B[p], r)
    <3>1. p \in 1..Len(code) /\ code[p].op = "JUMP" /\ Taken("JUMP", A[p], r)
      BY <2>1 DEF JumpsFrom
    <3>2. B[p] = A[p]
      BY <1>9, <3>1 DEF Grown
    <3> QED BY <3>1, <3>2
  <2>3. Leads(code, B, S)
    BY <1>9, <2>2 DEF Leads, Branching
  <2> QED BY <1>1, <1>5, <1>9, <2>3, PatchTyped
<1>11. c \in Seq(Instr) /\ Len(c) = Len(code) /\ Grown(code, B, c, B) /\ Sound(c, B, Q, Len(c) + 1)
  BY <1>10 DEF Patched
<1>12. Grown(code, A, c, B)
  BY <1>3, <1>9, <1>11, GrownTrans
<1>13. B[o.start] = A[o.start]
  <2>1. CASE o.start = Len(code) + 1
    BY <1>4, <1>9, <2>1
  <2>2. CASE o.start # Len(code) + 1
    <3>1. o.start \in 1..Len(code)
      BY <1>3, <1>4, <2>2
    <3> QED BY <1>9, <3>1 DEF Grown
  <2> QED BY <2>1, <2>2
<1>14. Bottom(A, c, B, r, o, os)
  BY <1>1, <1>4, <1>7, <1>9, <1>11, <1>12, <1>13, PrefixRefl DEF Bottom
<1> QED BY <1>11, <1>14

\* Emitting there.
LEMMA BottomEmit ==
  ASSUME NEW A, Kept, CompilerInv(A), NEW o, NEW os, NEW c, NEW B, NEW r \in Shape, Bottom(A, c, B, r, o, os),
         ~r.arg, NEW i, i = I("PUSH", 0), NEW j, j = I("POP", 0), NEW x, x = Append(Append(c, i), j)
  PROVE  \E D : Bottom(A, x, D, r, o, os)
<1>1. /\ i \in Instr /\ i.op = "PUSH" /\ i.stmt = None /\ i.var = None
      /\ j \in Instr /\ j.op = "POP" /\ j.stmt = None
  BY DEF I, Instr, Opcode
<1>18. PICK s : s = [r EXCEPT !.temps = 1]
  OBVIOUS
<1>2. PICK f, b, Q : /\ f = InFunction /\ b = Body(A, o)
                     /\ Q = HolesIn(os) \cup pending \cup o.breaks \cup {o.jump}
  OBVIOUS
<1>3. /\ c \in Seq(Instr) /\ Len(c) \in Nat /\ B \in [Nat -> Shape] /\ Grown(code, A, c, B)
      /\ Sound(c, B, Q, Len(c) + 1) /\ B[Len(c) + 1] = r
      /\ r.tries = o.tries /\ r.temps = 0 /\ r.func = f /\ Prefix(b, r.vars)
      /\ B[o.start] = A[o.start] /\ o.start \in 1..(Len(c) + 1)
  BY <1>2 DEF Bottom
<1>4. /\ s.tries = r.tries /\ s.vars = r.vars /\ s.temps = 1 /\ s.func = r.func /\ ~s.arg
      /\ s \in Shape
  BY <1>18 DEF Shape
<1>5. Compiled(c, B, c, B, Q)
  BY <1>3, CompiledRefl
<1>6. PICK C : Emitted(c, B, c, B, i, s, Q, C)
  <2>1. Legal(i, r)
    BY <1>1 DEF Legal
  <2>2. Steps(i, Len(c) + 1, r, s)
    BY <1>1, <1>3, <1>4, PrefixRefl DEF Steps, TriesAfter, VarsAfter, TempsAfter
  <2>3. Emittable(c, B, Q, i, s)
    BY <1>1, <1>3, <2>1, <2>2 DEF Emittable, Branching
  <2>4. Marks(s) = Marks(B[Len(c) + 1]) /\ s.func = B[Len(c) + 1].func
    BY <1>3, <1>4 DEF Marks
  <2> QED BY <1>1, <1>4, <1>5, <2>3, <2>4, EmitHere
<1>7. PICK d : d = Append(c, i)
  OBVIOUS
<1>8. Compiled(c, B, d, C, Q) /\ Len(d) = Len(c) + 1 /\ C[Len(d) + 1] = s
  BY <1>3, <1>6, <1>7 DEF Emitted
<1>9. PICK D : Emitted(c, B, d, C, j, r, Q, D)
  <2>1. Legal(j, s)
    BY <1>1, <1>4 DEF Legal
  <2>2. Steps(j, Len(d) + 1, s, r)
    BY <1>1, <1>3, <1>4, PrefixRefl DEF Steps, TriesAfter, VarsAfter, TempsAfter
  <2>3. Emittable(d, C, Q, j, r)
    BY <1>1, <1>8, <2>1, <2>2 DEF Emittable, Branching
  <2>4. Marks(r) = Marks(C[Len(d) + 1]) /\ r.func = C[Len(d) + 1].func
    BY <1>4, <1>8 DEF Marks
  <2> QED BY <1>1, <1>8, <2>3, <2>4, EmitHere
<1>10. PICK e : e = Append(d, j)
  OBVIOUS
<1>11. Compiled(c, B, e, D, Q) /\ Len(e) = Len(c) + 2 /\ D[Len(e) + 1] = r
  <2>1. Compiled(c, B, e, D, Q) /\ Len(e) = Len(d) + 1 /\ D[Len(d) + 2] = r
    BY <1>9, <1>10 DEF Emitted
  <2> QED BY <1>3, <1>8, <2>1
<1>12. e \in Seq(Instr) /\ D \in [Nat -> Shape] /\ Grown(c, B, e, D) /\ Sound(e, D, Q, Len(e) + 1)
  BY <1>11, CompiledTyped DEF Compiled
<1>13. D[o.start] = B[o.start]
  BY <1>3, <1>11, CompiledSame
<1>14. code \in Seq(Instr)
  BY ContextFacts
<1>15. Grown(code, A, e, D)
  BY <1>3, <1>12, <1>14, GrownTrans
<1>16. o.start \in 1..(Len(e) + 1)
  BY <1>3, <1>11
<1>17. Bottom(A, e, D, r, o, os)
  BY <1>2, <1>3, <1>11, <1>12, <1>13, <1>15, <1>16 DEF Bottom
<1> QED BY <1>7, <1>10, <1>17

LEMMA EndForTyped ==
  ASSUME NEW A, Kept, CompilerInv(A), OperandsFit, OperandsFit', NEW step \in BOOLEAN, EndFor(step), UNCHANGED vmVars
  PROVE  \E B : CompilerInv(B)'
<1>1. PICK o, os, f, r : /\ o = Inner /\ os = Outer /\ f = InFunction
                         /\ r = Ctx(o.tries, Body(A, o), 0, InFunction)
  OBVIOUS
<1>2. PICK i, j : i = I("PUSH", 0) /\ j = I("POP", 0)
  OBVIOUS
<1>3. PICK c : c = Patch(code, o.continues)
  OBVIOUS
<1>4. PICK x : x = c \o (IF step THEN <<i, j>> ELSE <<>>)
  OBVIOUS
<1>5. PICK k, back : k = Jump("JUMP", Len(x) + 1, o.start) /\ back = Append(x, k)
  OBVIOUS
<1>6. PICK exit : exit = IF o.jump = 0 THEN back ELSE Append(Patch(back, {o.jump}), I("POP", 0))
  OBVIOUS
<1>7. /\ open # <<>> /\ o.kind = "for"
      /\ code' = Patch(exit, o.breaks) /\ locals' = o.saved /\ open' = os
      /\ UNCHANGED <<phase, tryDepth, entry, pending>>
  BY <1>1, <1>2, <1>3, <1>4, <1>5, <1>6 DEF EndFor, EndLoop, Inside, Back
<1>8. PICK B : Bottom(A, c, B, r, o, os) /\ Len(c) = Len(code)
  <2>1. Short(code)
    BY DEF OperandsFit, Short
  <2> QED BY <1>1, <1>3, <1>7, <2>1, StepReached
<1>9. /\ o \in Constructs /\ Attached(code, A, o, f) /\ TriesAround(open) = TriesIn(o) /\ o.tries \in Seq(Nat)
  BY <1>1, <1>7, InnerFacts
<1>10. IsLoop(o) /\ o.try = None /\ o.start \in 1..(Len(code) + 1)
  BY <1>7, <1>9 DEF Attached, IsLoop
<1>11. c \in Seq(Instr) /\ Len(code) \in Nat /\ f \in BOOLEAN
  BY <1>1, <1>8, ContextFacts DEF Bottom
<1>12. r \in Shape /\ ~r.arg
  <2>1. Body(A, o) \in Seq(Nat)
    BY <1>1, <1>7, <1>10, LoopNests
  <2>2. PICK b \in Seq(Nat) : b = Body(A, o)
    BY <2>1
  <2>3. r = Ctx(o.tries, b, 0, f)
    BY <1>1, <2>2
  <2> QED BY <1>9, <1>11, <2>3, CtxTyped DEF Ctx
<1>13. i \in Instr /\ j \in Instr
  <2>1. I("PUSH", 0) \in Instr /\ I("POP", 0) \in Instr
    BY DEF I, Instr, Opcode
  <2> QED BY <1>2, <2>1
<1>15. PICK D : Bottom(A, x, D, r, o, os)
  <2>1. CASE step
    <3>1. x = Append(Append(c, i), j)
      <4>1. x = c \o <<i, j>>
        BY <1>4, <2>1
      <4>2. c \o <<i>> = Append(c, i)
        BY <1>11, <1>13, ConcatAppend
      <4>3. c \o <<i, j>> = Append(c \o <<i>>, j)
        BY <1>11, <1>13
      <4> QED BY <4>1, <4>2, <4>3
    <3> QED BY <1>2, <1>8, <1>12, <3>1, BottomEmit
  <2>2. CASE ~step
    <3>1. x = c
      <4>1. x = c \o <<>>
        BY <1>4, <2>2
      <4> QED BY <1>11, <4>1
    <3> QED BY <1>8, <3>1
  <2> QED BY <2>1, <2>2
<1>14. x \in Seq(Instr) /\ Len(x) \in Nat /\ o.start \in 1..(Len(x) + 1)
  BY <1>15 DEF Bottom
<1>16. back \in Seq(Instr) /\ Len(back) = Len(x) + 1
  <2>1. k \in Instr
    <3>1. PICK p \in Int : p = o.start - (Len(x) + 1) - 1
      BY <1>14
    <3>2. Signed(p) \in Int
      <4>1. JumpMod \in Nat /\ JumpMod > 0
        BY CompilerAssumption
      <4>2. JumpMod \div 2 \in Int /\ \A y \in Int : y % JumpMod \in Int
        BY <4>1
      <4> QED BY <4>2 DEF Signed
    <3> QED BY <1>5, <3>1, <3>2 DEF Jump, I, Instr, Opcode
  <2> QED BY <1>5, <1>14, <2>1, AppendProperties
<1>17. (o.jump = 0 => exit = back) /\ (o.jump # 0 => exit = Append(Patch(back, {o.jump}), I("POP", 0)))
  BY <1>6
<1>18. Len(x) + 1 < JumpMod \div 2
  <2>1. Short(code')
    BY DEF OperandsFit, Short
  <2>2. Short(back)
    BY <1>7, <1>16, <1>17, <2>1, LoopLength
  <2> QED BY <1>16, <2>2 DEF Short
<1>19. BackAt(x, k, r, o)
  <2>1. k \in Instr /\ k.op = "JUMP" /\ Len(x) + 2 + k.n = o.start /\ k.stmt = None
    BY <1>5, <1>14, <1>18, BackFits
  <2> QED BY <2>1 DEF BackAt
<1>20. PICK C : Closed(A, C, o, os, code')
  BY <1>1, <1>5, <1>7, <1>10, <1>15, <1>17, <1>19, LoopEnd
<1>21. tryDepth' = Len(o.tries)
  BY <1>7, <1>9, <1>10 DEF CompilerInv, TriesIn
<1>22. CompilerInv(C)'
  BY <1>1, <1>7, <1>20, <1>21, CloseNext
<1> QED BY <1>22
-----------------------------------------------------------------------------
\* From the first block of an if, or of a try, to the second: the jump at h
\* leads over it, those at P into it, with a value on the stack.
Turned(A, x, C, o, os, P, h) ==
    /\ x \in Seq(Instr) /\ C \in [Nat -> Shape] /\ Grown(code, A, x, C)
    /\ Sound(x, C, HolesIn(os) \cup pending \cup P \cup {h}, Len(x) + 1)
    /\ C[Len(x) + 1] = Ctx(o.tries, o.saved, 1, InFunction)
    /\ JumpsFrom(x, C, h, "JUMP", Ctx(o.tries, o.saved, 0, InFunction))
Second(o, os, o2, h, kind) ==
    /\ o2 \in Constructs /\ open' = Append(os, o2) /\ o2.kind = kind /\ o2.try = None /\ o2.jump = h
    /\ o2.tries = o.tries /\ o2.saved = o.saved /\ o2.breaks = {} /\ o2.continues = {} /\ o2.depth = Len(o.tries)
    /\ ~IsLoop(o)

LEMMA TurnPatch ==
  ASSUME NEW A, Kept, CompilerInv(A), open # <<>>, NEW o, NEW os, NEW x, NEW C, NEW P, NEW h,
         Turned(A, x, C, o, os, P, h), Short(x), Leads(x, C, P), NEW d, d = Patch(x, P), NEW R, R = {}
  PROVE  Turned(A, d, C, o, os, R, h)
<1>1. PICK H, M : H = HolesIn(os) \cup pending \cup P \cup {h} /\ M = HolesIn(os) \cup pending \cup R \cup {h}
  OBVIOUS
<1>2. /\ x \in Seq(Instr) /\ C \in [Nat -> Shape] /\ Grown(code, A, x, C)
      /\ Sound(x, C, H, Len(x) + 1) /\ C[Len(x) + 1] = Ctx(o.tries, o.saved, 1, InFunction)
      /\ JumpsFrom(x, C, h, "JUMP", Ctx(o.tries, o.saved, 0, InFunction))
  BY <1>1 DEF Turned
<1>3. H \subseteq M \cup P
  BY <1>1
<1>4. Patched(x, C, d, M)
  BY <1>2, <1>3, PatchTyped
<1>5. d \in Seq(Instr) /\ Len(d) = Len(x) /\ Grown(x, C, d, C) /\ Sound(d, C, M, Len(d) + 1)
  BY <1>4 DEF Patched
<1>6. code \in Seq(Instr)
  BY ContextFacts
<1>7. Grown(code, A, d, C)
  BY <1>2, <1>5, <1>6, GrownTrans
<1>8. JumpsFrom(d, C, h, "JUMP", Ctx(o.tries, o.saved, 0, InFunction))
  BY <1>2, <1>5 DEF JumpsFrom, Grown
<1> QED BY <1>1, <1>2, <1>5, <1>7, <1>8 DEF Turned

Carried(c, A, e, D, os, func) ==
    /\ c \in Seq(Instr) /\ e \in Seq(Instr) /\ A \in [Nat -> Shape] /\ D \in [Nat -> Shape] /\ func \in BOOLEAN
    /\ Stacked(c, A, os, func) /\ StartsKept(A, D, os) /\ Grown(c, A, e, D)

LEMMA StackedCarried ==
  ASSUME NEW c, NEW A, NEW e, NEW D, NEW os, NEW func, Carried(c, A, e, D, os, func)
  PROVE  Stacked(e, D, os, func)
<1>1. /\ c \in Seq(Instr) /\ e \in Seq(Instr) /\ A \in [Nat -> Shape] /\ D \in [Nat -> Shape] /\ func \in BOOLEAN
      /\ Stacked(c, A, os, func) /\ StartsKept(A, D, os) /\ Grown(c, A, e, D)
  BY DEF Carried
<1> QED BY <1>1, StackedKept

\* The second block begins with instruction i, and the variables ws.
Begun(A, o, os, o2, h, kind, d, C, i, ws, D) ==
    /\ open # <<>> /\ UNCHANGED <<phase, entry, pending, vmVars>>
    /\ o = Inner /\ os = Outer /\ kind \in {"else", "catch"} /\ Second(o, os, o2, h, kind)
    /\ Turned(A, d, C, o, os, {}, h)
    /\ ws \in Seq(Nat) /\ Prefix(o.saved, ws)
    /\ Emitted(d, C, d, C, i, Ctx(o.tries, ws, 0, InFunction), HolesIn(os) \cup pending \cup {h}, D)
    /\ code' = Append(d, i) /\ locals' = ws /\ tryDepth' = Len(o.tries)

LEMMA Reopen ==
  ASSUME NEW A, Kept, CompilerInv(A), NEW o, NEW os, NEW o2, NEW h, NEW kind, NEW d, NEW C, NEW i, NEW ws, NEW D,
         Begun(A, o, os, o2, h, kind, d, C, i, ws, D)
  PROVE  CompilerInv(D)'
<1>0. PICK R, M : R = {} /\ M = HolesIn(os) \cup pending \cup {h}
  OBVIOUS
<1>a. /\ open # <<>> /\ phase' = phase /\ entry' = entry /\ pending' = pending /\ UNCHANGED vmVars
      /\ o = Inner /\ os = Outer /\ kind \in {"else", "catch"} /\ Second(o, os, o2, h, kind)
      /\ Turned(A, d, C, o, os, R, h)
      /\ ws \in Seq(Nat) /\ Prefix(o.saved, ws)
      /\ Emitted(d, C, d, C, i, Ctx(o.tries, ws, 0, InFunction), M, D)
      /\ code' = Append(d, i) /\ locals' = ws /\ tryDepth' = Len(o.tries)
  BY <1>0 DEF Begun
<1> USE <1>0, <1>a
<1>1. PICK f, u : f = InFunction /\ u = Ctx(o.tries, o.saved, 0, InFunction)
  OBVIOUS
<1>2. /\ o \in Constructs /\ os \in Seq(Constructs) /\ Attached(code, A, o, f)
      /\ Stacked(code, A, os, f) /\ TriesAround(os) = o.tries /\ Scoped(A, os, o.saved)
      /\ o.saved \in Seq(Nat)
  BY <1>1, InnerFacts
<1>3. /\ \A q \in 1..Len(os) : IsLoop(os[q]) => Settled(os[q].start, code, o)
      /\ StartKept(A, D, o)
  BY InnerFacts DEF Second, StartKept
<1>4. code \in Seq(Instr) /\ Len(code) \in Nat /\ A \in [Nat -> Shape] /\ f \in BOOLEAN
  BY <1>1, ContextFacts
<1>5. d \in Seq(Instr) /\ C \in [Nat -> Shape] /\ Grown(code, A, d, C) /\ JumpsFrom(d, C, h, "JUMP", u)
  BY <1>1 DEF Turned
<1>6. Compiled(d, C, code', D, M) /\ D[Len(d) + 2] = Ctx(o.tries, ws, 0, f) /\ Len(code') = Len(d) + 1
  BY <1>1 DEF Emitted
<1>7. code' \in Seq(Instr) /\ D \in [Nat -> Shape] /\ Grown(d, C, code', D) /\ Sound(code', D, M, Len(code') + 1)
  BY <1>6, CompiledTyped DEF Compiled
<1>8. Grown(code, A, code', D)
  BY <1>4, <1>5, <1>7, GrownTrans
<1>9. /\ o2 \in Constructs /\ open' = Append(os, o2) /\ o2.kind = kind /\ o2.try = None /\ o2.jump = h
      /\ o2.tries = o.tries /\ o2.saved = o.saved /\ o2.breaks = {} /\ o2.continues = {} /\ o2.depth = Len(o.tries)
  BY DEF Second
<1>10. Sound(code', D, HolesIn(open') \cup pending', Len(code') + 1)
  <2>1. HolesIn(Append(os, o2)) = HolesIn(os) \cup (HolesOf(o2) \cap Nat)
    BY <1>2, <1>9, HolesPush
  <2>2. h \in HolesOf(o2) /\ h \in Nat
    BY <1>5, <1>9 DEF HolesOf, JumpsFrom
  <2>3. M \subseteq HolesIn(open') \cup pending'
    BY <1>9, <2>1, <2>2
  <2> QED BY <1>7, <2>3, SoundMore
<1>11. ~IsLoop(o2) /\ Body(D, o2) = o.saved
  BY <1>9 DEF IsLoop, Body
<1>12. Attached(code', D, o2, f)
  <2>1. JumpsFrom(code', D, h, "JUMP", u)
    BY <1>5, <1>7 DEF JumpsFrom, Grown
  <2>2. Nests(code', D, u)
    <3>1. Nests(code, A, u)
      BY <1>1, <1>2 DEF Attached
    <3>2. u \in Shape
      BY <1>1, <1>2, <1>4, CtxTyped DEF Constructs
    <3> QED BY <1>4, <1>7, <1>8, <3>1, <3>2, NestsKept
  <2>3. Prefix(o.saved, o.saved)
    BY PrefixRefl
  <2> QED BY <1>1, <1>9, <1>11, <2>1, <2>2, <2>3 DEF Attached, IsLoop
<1>13. StartsKept(A, D, os)
  BY <1>2, <1>3, <1>4, <1>8, StartsStay
<1>14. Stacked(code', D, os, f)
  <2>3. PICK c, e : c = code /\ e = code'
    OBVIOUS
  <2>1. Stacked(c, A, os, f) /\ StartsKept(A, D, os) /\ Grown(c, A, e, D)
    BY <1>2, <1>8, <1>13, <2>3
  <2>2. c \in Seq(Instr) /\ e \in Seq(Instr) /\ A \in [Nat -> Shape] /\ D \in [Nat -> Shape] /\ f \in BOOLEAN
    BY <1>4, <1>7, <2>3
  <2>4. Carried(c, A, e, D, os, f)
    BY <2>1, <2>2 DEF Carried
  <2>5. Stacked(e, D, os, f)
    BY <2>4, StackedCarried
  <2> QED BY <2>3, <2>5
<1>15. Scoped(D, os, o.saved)
  <2>1. Prefix(o.saved, o.saved)
    BY PrefixRefl
  <2> QED BY <1>2, <1>4, <1>13, <2>1, ScopedKept
<1>22. Len(code) < Len(code') /\ Len(code') \in Nat
  BY <1>4, <1>5, <1>6, <1>7 DEF Grown
<1>16. \A q \in 1..Len(os) : IsLoop(os[q]) => Settled(os[q].start, code', o2)
  <2>1. \A q \in 1..Len(os) : IsLoop(os[q]) => os[q].start \in 1..(Len(code) + 1)
    BY <1>2 DEF Stacked, Attached
  <2> QED BY <1>4, <1>22, <2>1 DEF Settled
<1>17. /\ Stacked(code', D, open', f) /\ Scoped(D, open', locals')
       /\ TriesAround(open') = TriesIn(o2)
  <2>1. PICK ps : ps = Append(os, o2)
    OBVIOUS
  <2>2. Scoped(D, os, o2.saved) /\ Prefix(Body(D, o2), ws) /\ o2.tries = TriesAround(os)
    BY <1>2, <1>9, <1>11, <1>15
  <2>4. PICK e : e = code'
    OBVIOUS
  <2>5. /\ Stacked(e, D, os, f) /\ Attached(e, D, o2, f) /\ D \in [Nat -> Shape] /\ o2 \in Constructs
        /\ \A q \in 1..Len(os) : IsLoop(os[q]) => Settled(os[q].start, e, o2)
    BY <1>7, <1>9, <1>12, <1>14, <1>16, <2>4
  <2>3. Stacked(e, D, ps, f) /\ Scoped(D, ps, ws) /\ TriesAround(ps) = TriesIn(o2)
    BY <2>1, <2>2, <2>5, StackedPush
  <2> QED BY <1>9, <2>1, <2>3, <2>4
<1>18. TriesIn(o2) = o.tries
  BY <1>9 DEF TriesIn
<1>19. CallsAt(code', pending')
  <2>1. CallsAt(code, pending)
    BY DEF CompilerInv
  <2>2. CallsAt(code', pending)
    BY <1>4, <1>7, <1>8, <2>1, CallsGrown
  <2> QED BY <2>2
<1>20. D[Len(code') + 1] = Ctx(TriesAround(open'), locals', 0, InFunction) /\ tryDepth' = Len(TriesAround(open'))
  <2>1. Len(code') + 1 = Len(d) + 2
    BY <1>5, <1>6
  <2> QED BY <1>1, <1>6, <1>17, <1>18, <2>1
<1>21. /\ open # <<>> /\ code \in Seq(Instr) /\ Grown(code, A, code', D)
       /\ Sound(code', D, HolesIn(open') \cup pending', Len(code') + 1)
       /\ StartKept(A, D, Inner)
  BY <1>3, <1>4, <1>8, <1>10
<1> QED BY <1>1, <1>17, <1>19, <1>20, <1>21, <1>22, CompilerNext

FirstEnds(A, c, B, r, o, os, P) ==
    /\ c \in Seq(Instr) /\ B \in [Nat -> Shape] /\ Grown(code, A, c, B)
    /\ Sound(c, B, HolesIn(os) \cup pending \cup P, Len(c) + 1)
    /\ B[Len(c) + 1] = r
    /\ r.tries = o.tries /\ r.temps = 0 /\ r.func = InFunction /\ Prefix(o.saved, r.vars)
JumpHole(i, r) == i \in Instr /\ i.op = "JUMP" /\ (i.stmt = None \/ i.stmt = Marks(r))

LEMMA JumpOver ==
  ASSUME NEW A, Kept, CompilerInv(A), open # <<>>, NEW o, o = Inner, NEW os, os = Outer,
         NEW c, NEW B, NEW r, NEW P, FirstEnds(A, c, B, r, o, os, P), NEW i, JumpHole(i, r),
         NEW x, x = Append(c, i), NEW h, h = Len(c) + 1
  PROVE  \E C : Turned(A, x, C, o, os, P, h)
<1>1. PICK f, s, u, H, K : /\ f = InFunction /\ s = Ctx(o.tries, o.saved, 1, f) /\ u = Ctx(o.tries, o.saved, 0, f)
                           /\ H = HolesIn(os) \cup pending \cup P /\ K = HolesIn(os) \cup pending \cup P \cup {h}
  OBVIOUS
<1>2. /\ o \in Constructs /\ Attached(code, A, o, f) /\ o.tries \in Seq(Nat) /\ o.saved \in Seq(Nat)
  BY <1>1, InnerFacts
<1>3. code \in Seq(Instr) /\ f \in BOOLEAN
  BY <1>1, ContextFacts
<1>4. /\ c \in Seq(Instr) /\ Len(c) \in Nat /\ B \in [Nat -> Shape] /\ Grown(code, A, c, B)
      /\ Sound(c, B, H, Len(c) + 1) /\ B[Len(c) + 1] = r
      /\ r.tries = o.tries /\ r.temps = 0 /\ r.func = f /\ Prefix(o.saved, r.vars)
  BY <1>1 DEF FirstEnds
<1>5. i \in Instr /\ i.op = "JUMP" /\ (i.stmt = None \/ i.stmt = Marks(r))
  BY DEF JumpHole
<1>6. s \in Shape /\ u \in Shape
  BY <1>1, <1>2, <1>3, CtxTyped
<1>7. Nests(c, B, s)
  <2>1. Nests(code, A, u)
    BY <1>1, <1>2 DEF Attached
  <2>2. Nests(c, B, u)
    BY <1>3, <1>4, <1>6, <2>1, NestsKept
  <2> QED BY <1>1, <2>2 DEF Nests, Ctx
<1>8. Emittable(c, B, K, i, s)
  <2>1. Legal(i, r)
    BY <1>5 DEF Legal
  <2> QED BY <1>1, <1>4, <1>5, <2>1 DEF Emittable, Falls
<1>9. Compiled(c, B, c, B, H) /\ H \subseteq K
  BY <1>1, <1>4, CompiledRefl
<1>10. PICK C : Emitted(c, B, c, B, i, s, K, C)
  BY <1>5, <1>6, <1>7, <1>8, <1>9, Emit
<1>11. /\ Compiled(c, B, x, C, K) /\ Len(x) = Len(c) + 1 /\ C[Len(c) + 2] = s
       /\ x[Len(c) + 1] = i /\ C[Len(c) + 1] = r
  BY <1>4, <1>10 DEF Emitted
<1>12. x \in Seq(Instr) /\ C \in [Nat -> Shape] /\ Grown(c, B, x, C) /\ Sound(x, C, K, Len(x) + 1)
  BY <1>11, CompiledTyped DEF Compiled
<1>13. Grown(code, A, x, C)
  BY <1>3, <1>4, <1>12, GrownTrans
<1>14. JumpsFrom(x, C, h, "JUMP", u)
  <2>1. h \in 1..Len(x) /\ x[h].op = "JUMP" /\ C[h] = r
    BY <1>4, <1>5, <1>11
  <2>2. Taken("JUMP", r, u)
    BY <1>1, <1>4 DEF Taken, Ctx
  <2> QED BY <2>1, <2>2 DEF JumpsFrom
<1>15. C[Len(x) + 1] = s
  BY <1>4, <1>11
<1> QED BY <1>1, <1>12, <1>13, <1>14, <1>15 DEF Turned

LEMMA ElseTyped ==
  ASSUME NEW A, Kept, CompilerInv(A), OperandsFit', Else, UNCHANGED vmVars
  PROVE  \E B : CompilerInv(B)'
<1>1. PICK o, os, f, h, r, P, R, T, vs : /\ o = Inner /\ os = Outer /\ f = InFunction /\ h = Here /\ r = A[Here]
                                         /\ P = {o.jump} /\ R = {} /\ T = o.tries /\ vs = o.saved
  OBVIOUS
<1>2. PICK j : j = I("JUMP", 0)
  OBVIOUS
<1>3. PICK i : i = AsFirst(j)
  OBVIOUS
<1>4. PICK x : x = code \o First(<<j>>)
  OBVIOUS
<1>5. PICK d : d = Patch(x, P)
  OBVIOUS
<1>6. PICK k : k = I("POP", 0)
  OBVIOUS
<1>7. PICK o2 : o2 = [o EXCEPT !.kind = "else", !.jump = h]
  OBVIOUS
<1>8. /\ open # <<>> /\ o.kind = "then"
      /\ code' = Append(d, k) /\ locals' = vs /\ open' = Append(os, o2)
      /\ UNCHANGED <<phase, tryDepth, entry, pending, vmVars>>
  BY <1>1, <1>2, <1>4, <1>5, <1>6, <1>7 DEF Else, Inside
<1>9. /\ o \in Constructs /\ Attached(code, A, o, f)
      /\ TriesAround(open) = TriesIn(o)
      /\ HolesIn(open) = HolesIn(os) \cup (HolesOf(o) \cap Nat)
      /\ Prefix(vs, locals) /\ T \in Seq(Nat) /\ vs \in Seq(Nat)
  BY <1>1, <1>8, InnerFacts
<1>10. /\ code \in Seq(Instr) /\ Len(code) \in Nat /\ A \in [Nat -> Shape] /\ f \in BOOLEAN /\ h = Len(code) + 1
       /\ r = Ctx(TriesAround(open), locals, 0, f)
       /\ Context = [tries |-> TriesAround(open), vars |-> locals]
       /\ Context \in [tries : Seq(Nat), vars : Seq(Nat)]
       /\ Sound(code, A, HolesIn(open) \cup pending, Len(code) + 1)
  BY <1>1, ContextFacts DEF Compiled
<1>11. /\ o.try = None /\ o.breaks = {} /\ o.continues = {} /\ o.depth = Len(o.tries)
       /\ JumpsFrom(code, A, o.jump, "JUMP_IF_FALSE", Ctx(T, vs, 1, f))
  BY <1>1, <1>8, <1>9 DEF Attached, IsLoop
<1>12. TriesIn(o) = T /\ HolesIn(open) \cup pending \subseteq HolesIn(os) \cup pending \cup P
  BY <1>1, <1>9, <1>11, CompilerAssumption DEF TriesIn, HolesOf
<1>13. j \in Instr /\ i \in Instr /\ k \in Instr /\ x = Append(code, i) /\ x \in Seq(Instr) /\ Len(x) = Len(code) + 1
  <2>1. I("JUMP", 0) \in Instr /\ I("POP", 0) \in Instr
    BY DEF I, Instr, Opcode
  <2>2. j \in Instr /\ k \in Instr
    BY <1>2, <1>6, <2>1
  <2>3. i \in Instr /\ x = Append(code, i)
    BY <1>3, <1>4, <1>10, <2>2, FirstTyped, Block1
  <2> QED BY <1>10, <2>2, <2>3, AppendProperties
<1>14. JumpHole(i, r)
  <2>1. i.op = "JUMP" /\ i.stmt = Context
    BY <1>2, <1>3, <1>13 DEF AsFirst, I
  <2>2. Context = Marks(r)
    BY <1>10 DEF Marks, Ctx
  <2> QED BY <1>13, <2>1, <2>2 DEF JumpHole
<1>15. FirstEnds(A, code, A, r, o, os, P)
  <2>1. Sound(code, A, HolesIn(os) \cup pending \cup P, Len(code) + 1)
    BY <1>10, <1>12, SoundMore
  <2>2. Grown(code, A, code, A)
    BY <1>10, GrownRefl
  <2>3. r.tries = o.tries /\ r.temps = 0 /\ r.func = f /\ r.vars = locals
    BY <1>1, <1>9, <1>10, <1>12 DEF Ctx
  <2>4. A[Len(code) + 1] = r
    BY <1>1, <1>10
  <2> QED BY <1>1, <1>9, <1>10, <2>1, <2>2, <2>3, <2>4 DEF FirstEnds
<1>16. PICK C : Turned(A, x, C, o, os, P, h)
  BY <1>1, <1>8, <1>10, <1>13, <1>14, <1>15, JumpOver
<1>17. Leads(x, C, P)
  <2>1. Grown(code, A, x, C) /\ C[Len(x) + 1] = Ctx(T, vs, 1, f)
    BY <1>1, <1>16 DEF Turned
  <2>2. o.jump \in 1..Len(code) /\ code[o.jump].op = "JUMP_IF_FALSE" /\ Taken("JUMP_IF_FALSE", A[o.jump], Ctx(T, vs, 1, f))
    BY <1>11 DEF JumpsFrom
  <2>3. x[o.jump].op = "JUMP_IF_FALSE" /\ C[o.jump] = A[o.jump]
    BY <2>1, <2>2 DEF Grown
  <2> QED BY <1>1, <2>1, <2>2, <2>3 DEF Leads, Branching
<1>18. Short(x)
  <2>1. d \in Seq(Instr) /\ Len(d) = Len(x)
    BY <1>5, <1>13, PatchLen
  <2>2. Len(code') = Len(x) + 1
    BY <1>8, <1>13, <2>1, AppendProperties
  <2>3. Len(code') < JumpMod \div 2 /\ JumpMod \div 2 \in Nat
    BY CompilerAssumption DEF OperandsFit
  <2> QED BY <1>10, <1>13, <2>2, <2>3 DEF Short
<1>19. Turned(A, d, C, o, os, R, h)
  BY <1>1, <1>5, <1>8, <1>16, <1>17, <1>18, TurnPatch
<1>20. PICK M : M = HolesIn(os) \cup pending \cup R \cup {h}
  OBVIOUS
<1>21. Compiled(d, C, d, C, M) /\ C[Len(d) + 1] = Ctx(T, vs, 1, f)
  BY <1>1, <1>19, <1>20, CompiledRefl DEF Turned
<1>22. PICK D : Emitted(d, C, d, C, k, Ctx(T, vs, 0, f), M, D)
  <2>1. k.op = "POP" /\ k.stmt = None
    BY <1>6 DEF I
  <2>2. Legal(k, Ctx(T, vs, 1, f)) /\ 0 = TempsAfter(k, Ctx(T, vs, 1, f))
    BY <2>1 DEF Legal, TempsAfter, Ctx
  <2> QED BY <1>9, <1>10, <1>13, <1>21, <2>1, <2>2, EmitStack
<1>23. Second(o, os, o2, h, "else")
  <2>1. h \in Nat
    BY <1>10
  <2> QED BY <1>7, <1>8, <1>9, <1>11, <2>1 DEF Second, Constructs, Kind, IsLoop
<1>24. tryDepth' = Len(o.tries)
  BY <1>1, <1>8, <1>9, <1>12 DEF CompilerInv
<1>25. CompilerInv(D)'
  <2>1. Emitted(d, C, d, C, k, Ctx(o.tries, vs, 0, InFunction), M, D) /\ Prefix(o.saved, vs)
    BY <1>1, <1>22, PrefixRefl
  <2>2. PICK kind : kind = "else"
    OBVIOUS
  <2>3. Second(o, os, o2, h, kind)
    BY <1>23, <2>2
  <2>4. M = HolesIn(os) \cup pending \cup {h}
    BY <1>1, <1>20
  <2>5. UNCHANGED <<phase, entry, pending, vmVars>>
    BY <1>8
  <2>6. Begun(A, o, os, o2, h, kind, d, C, k, vs, D)
    BY <1>1, <1>8, <1>9, <1>19, <1>24, <2>1, <2>2, <2>3, <2>4, <2>5 DEF Begun
  <2> QED BY <2>6, Reopen
<1> QED BY <1>25

LEMMA SoundLess ==
  ASSUME NEW c, NEW A, NEW holes, NEW more, NEW last, Sound(c, A, holes, last), holes \subseteq more \cup {0}
  PROVE  Sound(c, A, more, last)
<1>1. \A p \in 1..Len(c) : p \in holes => p \in more
  BY DEF Sound
<1> QED BY <1>1 DEF Sound

\* Behind a try block its handler goes away.
LEMMA EmitTryEnd ==
  ASSUME NEW A, Kept, CompilerInv(A), open # <<>>, NEW o, o = Inner, NEW os, os = Outer, o.kind = "try",
         NEW r, r = Ctx(o.tries, locals, 0, InFunction), NEW P, P = {o.try},
         NEW i, i = AsFirst(I("TRY_END", 0)), NEW c, c = Append(code, i)
  PROVE  \E B : FirstEnds(A, c, B, r, o, os, P)
<1>1. PICK f, q, H, W, t, T : /\ f = InFunction /\ q = A[Here] /\ H = HolesIn(open) \cup pending
                              /\ t = o.try /\ T = o.tries /\ W = Append(T, t)
  OBVIOUS
<1>2. /\ o \in Constructs /\ Attached(code, A, o, f)
      /\ TriesAround(open) = TriesIn(o)
      /\ HolesIn(open) = HolesIn(os) \cup (HolesOf(o) \cap Nat)
      /\ Prefix(o.saved, locals) /\ T \in Seq(Nat)
  BY <1>1, InnerFacts
<1>3. /\ code \in Seq(Instr) /\ Len(code) \in Nat /\ A \in [Nat -> Shape] /\ f \in BOOLEAN /\ locals \in Seq(Nat)
      /\ Here = Len(code) + 1 /\ q = Ctx(TriesAround(open), locals, 0, f)
      /\ Context = [tries |-> TriesAround(open), vars |-> locals]
      /\ Context \in [tries : Seq(Nat), vars : Seq(Nat)]
      /\ Sound(code, A, H, Len(code) + 1) /\ Nests(code, A, q)
  BY <1>1, ContextFacts DEF Compiled
<1>4. o.try # None /\ t \in Nat /\ o.jump = 0 /\ o.breaks = {} /\ o.continues = {}
  BY <1>1, <1>2, CompilerAssumption DEF Attached, IsLoop
<1>5. TriesAround(open) = W
  BY <1>1, <1>2, <1>4 DEF TriesIn
<1>6. W \in Seq(Nat) /\ Len(W) = Len(T) + 1 /\ Len(T) \in Nat /\ SubSeq(W, 1, Len(T)) = T
  <2>1. W \in Seq(Nat) /\ Len(W) = Len(T) + 1 /\ Len(T) \in Nat
    <3>1. T \in Seq(Nat) /\ t \in Nat /\ W = Append(T, t)
      BY <1>1, <1>2, <1>4
    <3> QED BY ONLY <3>1
  <2>2. Prefix(T, W)
    BY <1>1, <1>2, <1>4, PrefixAppend
  <2> QED BY <1>2, <2>1, <2>2, PrefixCut
<1>7. i \in Instr /\ i.op = "TRY_END" /\ i.stmt = Context
  <2>1. I("TRY_END", 0) \in Instr
    BY DEF I, Instr, Opcode
  <2> QED BY <1>3, <2>1, FirstTyped DEF AsFirst, I
<1>8. q \in Shape /\ q.tries = W /\ q.vars = locals /\ q.temps = 0 /\ q.func = f /\ ~q.arg
  BY <1>3, <1>5, <1>6, CtxTyped DEF Ctx
<1>9. r \in Shape /\ r.tries = T /\ r.vars = locals /\ r.temps = 0 /\ r.func = f /\ ~r.arg
  BY <1>1, <1>2, <1>3, CtxTyped DEF Ctx
<1>10. Nests(code, A, r)
  <2>2. Len(T) \in 0..Len(W)
    BY <1>6
  <2>1. PICK m \in 0..Len(W) : m = Len(T)
    BY <2>2, Zenon
  <2> QED BY <1>3, <1>6, <1>8, <1>9, <2>1, NestsFewer
<1>11. Emittable(code, A, H, i, r)
  <2>1. W # <<>>
    BY <1>6
  <2>2. Legal(i, q)
    BY <1>7, <1>8, <2>1 DEF Legal
  <2>3. i.stmt = Marks(q)
    <3>1. i.stmt = [tries |-> W, vars |-> locals]
      BY <1>3, <1>5, <1>7
    <3>2. q.tries = W /\ q.vars = locals
      BY <1>8, Zenon
    <3> QED BY ONLY <3>1, <3>2, Zenon DEF Marks
  <2>4. TriesAfter(i, Here, q) = T
    <3>1. Len(W) - 1 = Len(T)
      BY <1>6
    <3> QED BY Zenon, <1>6, <1>7, <1>8, <3>1 DEF TriesAfter
  <2>5. Steps(i, Here, q, r)
    BY <1>7, <1>8, <1>9, <2>4, PrefixRefl DEF Steps, VarsAfter, TempsAfter
  <2> QED BY <1>1, <1>3, <1>7, <1>8, <2>2, <2>3, <2>5 DEF Emittable, Branching
<1>12. PICK B : Emitted(code, A, code, A, i, r, H, B)
  <2>1. Compiled(code, A, code, A, H)
    BY <1>3, CompiledRefl
  <2> QED BY <1>7, <1>9, <1>10, <1>11, <2>1, Emit
<1>13. /\ Compiled(code, A, c, B, H) /\ Len(c) = Len(code) + 1 /\ B[Len(code) + 2] = r
  BY <1>12 DEF Emitted
<1>14. c \in Seq(Instr) /\ B \in [Nat -> Shape] /\ Grown(code, A, c, B) /\ Sound(c, B, H, Len(c) + 1)
  BY <1>13, CompiledTyped DEF Compiled
<1>15. Sound(c, B, HolesIn(os) \cup pending \cup P, Len(c) + 1)
  <2>1. H \subseteq (HolesIn(os) \cup pending \cup P) \cup {0}
    BY <1>1, <1>2, <1>4 DEF HolesOf
  <2> QED BY <1>14, <2>1, SoundLess
<1>16. B[Len(c) + 1] = r
  BY <1>3, <1>13
<1> QED BY <1>1, <1>2, <1>9, <1>14, <1>15, <1>16 DEF FirstEnds

LEMMA CatchTyped ==
  ASSUME NEW A, Kept, CompilerInv(A), OperandsFit', Catch, phase' # "rejected", UNCHANGED vmVars
  PROVE  \E B : CompilerInv(B)'
<1>1. PICK o, os, f, h, P, R, T, vs, v : /\ o = Inner /\ os = Outer /\ f = InFunction /\ h = Here + 1
                                         /\ P = {o.try} /\ R = {} /\ T = o.tries /\ vs = o.saved /\ v = Here + 2
  OBVIOUS
<1>2. PICK i, j : i = I("TRY_END", 0) /\ j = I("JUMP", 0)
  OBVIOUS
<1>3. PICK x : x = code \o First(<<i, j>>)
  OBVIOUS
<1>4. PICK d, k : /\ d = Patch(x, P)
                  /\ k = IF f THEN Slot("DEFINE_LOCAL", Len(vs), v) ELSE I("DEFINE_GLOBAL", 0)
  OBVIOUS
<1>5. PICK o2 : o2 = [o EXCEPT !.kind = "catch", !.try = None, !.jump = h]
  OBVIOUS
<1>6. /\ open # <<>> /\ o.kind = "try"
      /\ code' = Append(d, k) /\ locals' = (IF f THEN Append(vs, v) ELSE locals) /\ open' = Append(os, o2)
      /\ tryDepth' = tryDepth - 1
      /\ UNCHANGED <<phase, entry, pending, vmVars>>
  BY <1>1, <1>2, <1>3, <1>4, <1>5 DEF Catch, Inside
<1>7. /\ o \in Constructs /\ Attached(code, A, o, f)
      /\ TriesAround(open) = TriesIn(o)
      /\ Prefix(vs, locals) /\ T \in Seq(Nat) /\ vs \in Seq(Nat)
  BY <1>1, <1>6, InnerFacts
<1>8. /\ code \in Seq(Instr) /\ Len(code) \in Nat /\ A \in [Nat -> Shape] /\ f \in BOOLEAN /\ Here = Len(code) + 1
      /\ Context = [tries |-> TriesAround(open), vars |-> locals]
      /\ Context \in [tries : Seq(Nat), vars : Seq(Nat)]
      /\ (f \/ locals = <<>>) /\ tryDepth = Len(TriesAround(open))
  BY <1>1, ContextFacts DEF CompilerInv
<1>9. /\ o.try # None /\ o.try \in 1..Len(code) /\ code[o.try].op = "TRY_BEGIN" /\ A[o.try] = Ctx(T, vs, 0, f)
      /\ o.breaks = {} /\ o.continues = {} /\ o.depth = Len(o.tries)
  BY <1>1, <1>6, <1>7, CompilerAssumption DEF Attached, IsLoop
<1>10. PICK ii, c, r : ii = AsFirst(i) /\ c = Append(code, ii) /\ r = Ctx(o.tries, locals, 0, InFunction)
  OBVIOUS
<1>11. i \in Instr /\ j \in Instr /\ ii \in Instr /\ c \in Seq(Instr) /\ Len(c) = Len(code) + 1 /\ x = Append(c, j)
       /\ x \in Seq(Instr) /\ Len(x) = Len(code) + 2
  <2>1. I("TRY_END", 0) \in Instr /\ I("JUMP", 0) \in Instr
    BY DEF I, Instr, Opcode
  <2>2. i \in Instr /\ j \in Instr
    BY <1>2, <2>1
  <2>3. ii \in Instr /\ x = Append(c, j)
    BY <1>3, <1>8, <1>10, <2>2, FirstTyped, Block2
  <2>4. c \in Seq(Instr) /\ Len(c) = Len(code) + 1
    BY <1>8, <1>10, <2>3, AppendProperties
  <2>5. x \in Seq(Instr) /\ Len(x) = Len(c) + 1
    BY <2>2, <2>3, <2>4, AppendProperties
  <2> QED BY <1>8, <2>2, <2>3, <2>4, <2>5
<1>12. PICK B : FirstEnds(A, c, B, r, o, os, P)
  BY <1>1, <1>2, <1>6, <1>10, EmitTryEnd
<1>13. JumpHole(j, r)
  BY <1>2, <1>11 DEF JumpHole, I
<1>14. PICK C : Turned(A, x, C, o, os, P, h)
  <2>1. h = Len(c) + 1
    BY <1>1, <1>8, <1>11
  <2> QED BY <1>1, <1>6, <1>11, <1>12, <1>13, <2>1, JumpOver
<1>15. Leads(x, C, P)
  <2>1. Grown(code, A, x, C) /\ C[Len(x) + 1] = Ctx(T, vs, 1, f)
    BY <1>1, <1>14 DEF Turned
  <2>2. Taken("TRY_BEGIN", Ctx(T, vs, 0, f), Ctx(T, vs, 1, f))
    BY PrefixRefl DEF Taken, Ctx
  <2>3. x[o.try].op = "TRY_BEGIN" /\ C[o.try] = A[o.try]
    BY <1>9, <2>1 DEF Grown
  <2> QED BY <1>1, <1>9, <2>1, <2>2, <2>3 DEF Leads, Branching
<1>16. Short(x)
  <2>1. d \in Seq(Instr) /\ Len(d) = Len(x)
    BY <1>4, <1>11, PatchLen
  <2>2. k \in Instr
    <3>1. v \in Nat /\ Len(vs) \in Int
      BY <1>1, <1>7, <1>8
    <3>2. Slot("DEFINE_LOCAL", Len(vs), v) \in Instr
      BY <3>1 DEF Slot, Instr, Opcode
    <3>3. I("DEFINE_GLOBAL", 0) \in Instr
      BY DEF I, Instr, Opcode
    <3> QED BY <1>4, <3>2, <3>3
  <2>3. Len(code') = Len(x) + 1
    BY <1>6, <2>1, <2>2, AppendProperties
  <2>4. Len(code') < JumpMod \div 2 /\ JumpMod \div 2 \in Nat
    BY CompilerAssumption DEF OperandsFit
  <2> QED BY <1>11, <2>3, <2>4 DEF Short
<1>17. Turned(A, d, C, o, os, R, h)
  BY <1>1, <1>4, <1>6, <1>14, <1>15, <1>16, TurnPatch
<1>18. PICK M : M = HolesIn(os) \cup pending \cup R \cup {h}
  OBVIOUS
<1>19. Compiled(d, C, d, C, M) /\ C[Len(d) + 1] = Ctx(T, vs, 1, f)
  BY <1>1, <1>17, <1>18, CompiledRefl DEF Turned
<1>20. PICK ws : ws = IF f THEN Append(vs, v) ELSE vs
  OBVIOUS
<1>21. PICK D : Emitted(d, C, d, C, k, Ctx(T, ws, 0, f), M, D)
  <2>1. v \in Nat
    BY <1>1, <1>8
  <2>2. k \in Instr
    <3>1. Len(vs) \in Int
      BY <1>7
    <3>2. Slot("DEFINE_LOCAL", Len(vs), v) \in Instr
      BY <2>1, <3>1 DEF Slot, Instr, Opcode
    <3>3. I("DEFINE_GLOBAL", 0) \in Instr
      BY DEF I, Instr, Opcode
    <3> QED BY <1>4, <3>2, <3>3
  <2> QED BY <1>4, <1>7, <1>8, <1>19, <1>20, <2>1, <2>2, EmitDefine
<1>22. ws \in Seq(Nat) /\ Prefix(vs, ws) /\ locals' = ws
  <2>1. v \in Nat
    BY <1>1, <1>8
  <2>2. CASE f
    <3>1. Append(vs, v) \in Seq(Nat) /\ Prefix(vs, Append(vs, v))
      BY <1>7, <2>1, PrefixAppend
    <3> QED BY <1>6, <1>20, <2>2, <3>1
  <2>3. CASE ~f
    <3>1. locals = <<>> /\ vs = <<>>
      BY <1>7, <1>8, <2>3, PrefixEmpty
    <3> QED BY <1>6, <1>7, <1>20, <2>3, <3>1, PrefixRefl
  <2> QED BY <1>8, <2>2, <2>3
<1>23. Second(o, os, o2, h, "catch")
  <2>1. h \in Nat
    BY <1>1, <1>8
  <2> QED BY <1>5, <1>6, <1>7, <1>9, <2>1 DEF Second, Constructs, Kind, IsLoop
<1>24. tryDepth' = Len(o.tries)
  <2>1. TriesIn(o) = Append(T, o.try) /\ o.try \in Nat
    BY <1>1, <1>9 DEF TriesIn
  <2>2. Len(Append(T, o.try)) = Len(T) + 1 /\ Len(T) \in Nat
    BY <1>7, <2>1, AppendProperties
  <2> QED BY <1>1, <1>6, <1>7, <1>8, <2>1, <2>2
<1>25. CompilerInv(D)'
  <2>1. Emitted(d, C, d, C, k, Ctx(o.tries, ws, 0, InFunction), M, D) /\ Prefix(o.saved, ws)
    BY <1>1, <1>21, <1>22
  <2>2. PICK kind : kind = "catch"
    OBVIOUS
  <2>3. Second(o, os, o2, h, kind)
    BY <1>23, <2>2
  <2>4. M = HolesIn(os) \cup pending \cup {h}
    BY <1>1, <1>18
  <2>5. UNCHANGED <<phase, entry, pending, vmVars>>
    BY <1>6
  <2>6. Begun(A, o, os, o2, h, kind, d, C, k, ws, D)
    BY <1>1, <1>6, <1>17, <1>22, <1>24, <2>1, <2>2, <2>3, <2>4, <2>5 DEF Begun
  <2> QED BY <2>6, Reopen
<1> QED BY <1>25
-----------------------------------------------------------------------------
\* The ends of the top level and of f.

Loaded(c, B) == /\ Sound(c, B, {}, Len(c)) /\ Len(c) \in Nat \ {0} /\ ~Falls(c[Len(c)].op)
                /\ B[1] = Ctx(<<>>, <<>>, 0, FALSE)

\* The machine starts at the first instruction, with nothing.
LEMMA MachineStarts ==
  ASSUME NEW c, NEW B, Loaded(c, B), NEW m, m.ip = 1, m.stack = <<>>, m.frames = <<>>, m.handlers = <<>>
  PROVE  Whole(c, B) /\ Running(c, B, m)
<1>1. Len(m.stack) = 0 /\ Tip(m) = 0 /\ Len(m.handlers) = 0
  BY DEF Tip
<1>2. /\ B[1].tries = <<>> /\ B[1].vars = <<>> /\ B[1].temps = 0 /\ B[1].arg = FALSE /\ B[1].func = FALSE
  BY DEF Loaded, Ctx
<1>3. 1 \in 1..Len(c)
  BY DEF Loaded
<1>4. /\ Place(m, 0) = 1 /\ Height(m, 0) = 0 /\ Reach(m, 0) = 0 /\ Floor(m, 0) = 0 /\ Outside(m, 0) = 0
  BY <1>1 DEF Place, Height, Reach, Floor, Outside
<1>5. Standing(c, B, m, 0, B[1])
  <2>1. PICK s : s = B[1]
    OBVIOUS
  <2>2. Len(s.vars) = 0 /\ Len(s.tries) = 0 /\ s.temps = 0 /\ s.func = FALSE
    BY <1>2, <2>1
  <2>3. 1..Len(s.vars) = {} /\ 1..Len(s.tries) = {}
    BY <2>2
  <2>4. s.func <=> 0 > 0
    BY <2>2
  <2>5. Floor(m, 0) + Len(s.vars) + s.temps <= Height(m, 0) /\ Height(m, 0) = s.temps
        /\ Reach(m, 0) = Outside(m, 0) + Len(s.tries)
    BY <1>4, <2>2
  <2>6. Standing(c, B, m, 0, s)
    BY ONLY <2>3, <2>4, <2>5 DEF Standing
  <2> QED BY <2>1, <2>6
<1>6. Whole(c, B)
  BY DEF Loaded, Whole
<1>7. Sized(m)
  BY <1>1, ControlAssumption DEF Sized
<1> QED BY <1>1, <1>2, <1>3, <1>4, <1>5, <1>6, <1>7 DEF Running, Passes

\* What is behind c makes no jump: nothing leads behind the end.
LEMMA SoundEnd ==
  ASSUME NEW c, NEW A, NEW e, NEW B, NEW H, Sound(c, A, H, Len(c) + 1), Compiled(c, A, e, B, H), Len(c) < Len(e),
         \A p \in 1..Len(c) : e[p] = c[p],
         \A p \in (Len(c) + 1)..Len(e) : e[p].op \notin Branching
  PROVE  Sound(e, B, H, Len(e))
<1>1. /\ c \in Seq(Instr) /\ e \in Seq(Instr) /\ Sound(e, B, H, Len(e) + 1)
      /\ Len(c) \in Nat /\ Len(e) \in Nat
  BY CompiledTyped DEF Compiled
<1>2. ASSUME NEW p \in 1..Len(e), p \notin H
      PROVE  Lands(e, B, p, Len(e))
  <2>1. Lands(e, B, p, Len(e) + 1)
    BY <1>1, <1>2 DEF Sound
  <2>2. CASE p \in 1..Len(c)
    <3>1. Lands(c, A, p, Len(c) + 1) /\ e[p] = c[p]
      BY <1>2, <2>2 DEF Sound
    <3>2. c[p].op \in Branching => p + 1 + c[p].n \in 1..Len(e)
      BY <1>1, <2>2, <3>1 DEF Lands, Instr
    <3> QED BY <2>1, <3>1, <3>2 DEF Lands
  <2>3. CASE p \notin 1..Len(c)
    <3>1. e[p].op \notin Branching
      BY <1>1, <2>3
    <3> QED BY <2>1, <3>1 DEF Lands
  <2> QED BY <2>2, <2>3
<1> QED BY <1>1, <1>2 DEF Sound

\* Instruction i at the end, and the place behind it in shape s.
LEMMA HaltTyped ==
  ASSUME NEW A, Kept, CompilerInv(A), phase = "main", open = <<>>,
         NEW i, i = AsFirst(I("HALT", 0)), NEW e, e = Append(code, i)
  PROVE  \E B : /\ Compiled(code, A, e, B, pending) /\ Len(e) = Len(code) + 1 /\ B[Len(e) + 1] = EntryShape
                /\ Sound(e, B, pending, Len(e)) /\ e[Len(e)].op = "HALT" /\ B[1] = Ctx(<<>>, <<>>, 0, FALSE)
<1>1. HolesIn(open) = {} /\ TriesAround(open) = <<>> /\ locals = <<>> /\ InFunction = FALSE
  BY DEF HolesIn, TriesAround, Kept, InFunction
<1>2. /\ code \in Seq(Instr) /\ Len(code) \in Nat /\ A \in [Nat -> Shape] /\ Here = Len(code) + 1
      /\ Context = [tries |-> <<>>, vars |-> <<>>] /\ Context \in [tries : Seq(Nat), vars : Seq(Nat)]
      /\ A[Len(code) + 1] = Ctx(<<>>, <<>>, 0, FALSE)
      /\ Compiled(code, A, code, A, pending) /\ Sound(code, A, pending, Len(code) + 1)
  BY <1>1, ContextFacts DEF Compiled
<1>3. i \in Instr /\ i.op = "HALT" /\ i.stmt = Context
  <2>1. I("HALT", 0) \in Instr
    BY DEF I, Instr, Opcode
  <2> QED BY <1>2, <2>1, FirstTyped DEF AsFirst, I
<1>4. PICK q, s : q = Ctx(<<>>, <<>>, 0, FALSE) /\ s = EntryShape
  OBVIOUS
<1>5. q.tries = <<>> /\ q.vars = <<>> /\ q.temps = 0 /\ q.func = FALSE
  BY <1>4 DEF Ctx
<1>6. s \in Shape /\ s.tries = <<>> /\ s.func = TRUE
  <2>1. <<>> \in Seq(Nat) /\ <<Param>> \in Seq(Nat) /\ 0 \in Nat /\ TRUE \in BOOLEAN
    BY DEF Param
  <2>2. s \in Shape
    BY <1>4, <2>1, CtxTyped DEF EntryShape
  <2> QED BY <1>4, <2>2 DEF EntryShape, Ctx
<1>7. Emittable(code, A, pending, i, s)
  <2>1. Legal(i, q)
    BY <1>3, <1>5 DEF Legal
  <2>2. i.stmt = Marks(q)
    BY <1>2, <1>3, <1>5 DEF Marks
  <2> QED BY <1>2, <1>3, <1>4, <1>5, <2>1, <2>2 DEF Emittable, Branching, Falls
<1>8. Nests(code, A, s)
  BY <1>6 DEF Nests
<1>9. PICK B : Emitted(code, A, code, A, i, s, pending, B)
  BY <1>2, <1>3, <1>6, <1>7, <1>8, Emit
<1>10. /\ Compiled(code, A, e, B, pending) /\ Len(e) = Len(code) + 1 /\ B[Len(code) + 2] = s /\ e[Len(code) + 1] = i
  BY <1>9 DEF Emitted
<1>11. \A p \in 1..Len(code) : e[p] = code[p]
  BY <1>2, <1>3
<1>12. Sound(e, B, pending, Len(e))
  <2>1. \A p \in (Len(code) + 1)..Len(e) : e[p].op \notin Branching
    BY <1>2, <1>3, <1>10 DEF Branching
  <2>2. Len(code) < Len(e)
    BY <1>2, <1>10
  <2> QED BY <1>2, <1>10, <1>11, <2>1, <2>2, SoundEnd
<1>13. B[1] = Ctx(<<>>, <<>>, 0, FALSE)
  <2>1. B[1] = A[1]
    <3>1. 1 \in 1..(Len(code) + 1)
      BY <1>2
    <3> QED BY <1>10, <3>1, CompiledSame
  <2> QED BY <2>1 DEF CompilerInv
<1>14. B[Len(e) + 1] = EntryShape /\ e[Len(e)].op = "HALT"
  BY <1>2, <1>3, <1>4, <1>10
<1> QED BY <1>10, <1>12, <1>13, <1>14

\* What is known when a phase ends.
Ended == phase' \in {"func", "run"} /\ (phase' = "func" => \E B : CompilerInv(B)') /\ (phase' = "run" => \E B : MachineInv(B)')

LEMMA EndMainTyped ==
  ASSUME NEW A, Kept, CompilerInv(A), EndMain, UNCHANGED vmVars
  PROVE  Ended
<1>1. PICK i : i = AsFirst(I("HALT", 0))
  OBVIOUS
<1>2. PICK e : e = Append(code, i)
  OBVIOUS
<1>3. phase = "main" /\ open = <<>> /\ open' = <<>> /\ pending' = pending /\ tryDepth' = 0
  BY DEF EndMain
<1>4. PICK B : /\ Compiled(code, A, e, B, pending) /\ Len(e) = Len(code) + 1 /\ B[Len(e) + 1] = EntryShape
               /\ Sound(e, B, pending, Len(e)) /\ e[Len(e)].op = "HALT" /\ B[1] = Ctx(<<>>, <<>>, 0, FALSE)
  BY <1>1, <1>2, <1>3, HaltTyped
<1>5. code' = e
  <2>1. I("HALT", 0) \in Instr
    BY DEF I, Instr, Opcode
  <2>2. code \o First(<<I("HALT", 0)>>) = Append(code, i)
    BY <1>1, <2>1, Block1, ContextFacts
  <2> QED BY <1>2, <2>2 DEF EndMain
<1>6. Len(code) \in Nat /\ Len(e) \in Nat /\ e \in Seq(Instr) /\ B \in [Nat -> Shape]
  BY <1>4, ContextFacts, CompiledTyped
<1>7. ip' = 1 /\ stack' = <<>> /\ frames' = <<>> /\ handlers' = <<>>
  BY DEF CompilerInv, vmVars
<1>8. CASE pending = {}
  <2>1. Loaded(e, B)
    BY <1>4, <1>6, <1>8 DEF Loaded, Falls
  <2>2. MachineInv(B)'
    <3>1. PICK m : m = Machine'
      OBVIOUS
    <3>2. m.ip = 1 /\ m.stack = <<>> /\ m.frames = <<>> /\ m.handlers = <<>>
      BY <1>7, <3>1 DEF Machine
    <3>3. Whole(e, B) /\ Running(e, B, m)
      BY <2>1, <3>2, MachineStarts
    <3> QED BY <1>5, <3>1, <3>3 DEF MachineInv
  <2>3. phase' = "run"
    BY <1>8 DEF EndMain
  <2> QED BY <2>2, <2>3 DEF Ended
<1>9. CASE pending # {}
  <2>1. phase' = "func" /\ entry' = Here + 1 /\ locals' = <<Param>>
    BY <1>9 DEF EndMain
  <2>2. InFunction' = TRUE /\ TriesAround(open') = <<>> /\ HolesIn(open') = {} /\ Here' = Len(e) + 1
    BY <1>3, <1>5, <2>1 DEF InFunction, TriesAround, HolesIn, Here
  <2>3. Sound(e, B, pending, Len(e) + 1)
    BY <1>4 DEF Compiled
  <2>4. Stacked(e, B, open', TRUE) /\ Scoped(B, open', locals')
    BY <1>3 DEF Stacked, Scoped
  <2>5. entry' = Len(e) + 1 /\ entry' \in 1..(Len(e) + 1)
    BY <1>4, <1>6, <2>1 DEF Here
  <2>6. CallsAt(e, pending)
    <3>1. CallsAt(code, pending)
      BY DEF CompilerInv
    <3> QED BY <1>4, <3>1, CallsKept
  <2>7. B[Len(e) + 1] = Ctx(TriesAround(open'), locals', 0, TRUE)
    BY <1>4, <2>1, <2>2 DEF EntryShape
  <2>8. tryDepth' = Len(TriesAround(open')) /\ vmVars' = <<1, <<>>, <<>>, <<>>>>
    BY <1>3, <1>7, <2>2 DEF vmVars
  <2>9. 1..Len(open') = {}
    BY <1>3
  <2>10. CompilerInv(B)'
    BY <1>3, <1>4, <1>5, <2>2, <2>3, <2>4, <2>5, <2>6, <2>7, <2>8, <2>9 DEF CompilerInv
  <2> QED BY <2>1, <2>10 DEF Ended
<1> QED BY <1>8, <1>9

\* The calls compiled before f learn where it is.
Linked(c, S, n) == [i \in 1..Len(c) |-> IF i \in S THEN [c[i] EXCEPT !.n = n] ELSE c[i]]

LEMMA LinkShape ==
  ASSUME NEW c \in Seq(Instr), NEW A, NEW S, NEW n \in Nat, NEW d, d = Linked(c, S, n)
  PROVE  /\ d \in Seq(Instr) /\ Len(d) = Len(c) /\ Grown(c, A, d, A)
         /\ \A p \in 1..Len(c) : /\ d[p].op = c[p].op /\ d[p].var = c[p].var /\ d[p].stmt = c[p].stmt
                                 /\ p \in S => d[p].n = n
                                 /\ p \notin S => d[p] = c[p]
<1>1. Len(c) \in Nat /\ \A p \in 1..Len(c) : c[p] \in Instr
  OBVIOUS
<1>2. ASSUME NEW p \in 1..Len(c)
      PROVE  (IF p \in S THEN [c[p] EXCEPT !.n = n] ELSE c[p]) \in Instr
  <2>1. c[p] \in Instr /\ n \in Int
    BY <1>1
  <2> QED BY <2>1 DEF Instr
<1>3. d \in [1..Len(c) -> Instr]
  BY <1>2, Zenon DEF Linked
<1>4. d \in Seq(Instr) /\ Len(d) = Len(c)
  BY <1>1, <1>3
<1>5. ASSUME NEW p \in 1..Len(c)
      PROVE  /\ d[p].op = c[p].op /\ d[p].var = c[p].var /\ d[p].stmt = c[p].stmt
             /\ p \in S => d[p].n = n
             /\ p \notin S => d[p] = c[p]
  <2>1. d[p] = IF p \in S THEN [c[p] EXCEPT !.n = n] ELSE c[p]
    BY DEF Linked
  <2>2. c[p] \in Instr
    BY <1>1
  <2> QED BY <2>1, <2>2 DEF Instr
<1>6. Grown(c, A, d, A)
  BY <1>1, <1>4, <1>5 DEF Grown
<1> QED BY <1>4, <1>5, <1>6

LEMMA LinkSound ==
  ASSUME NEW c, NEW A, NEW S, NEW n, NEW d, d = Linked(c, S, n),
         Sound(c, A, S, Len(c)), CallsAt(c, S), n \in 1..Len(c), A[n] = EntryShape
  PROVE  Sound(d, A, {}, Len(d))
<1>1. /\ c \in Seq(Instr) /\ A \in [Nat -> Shape] /\ Len(c) \in Nat /\ n \in Nat
      /\ \A p \in 1..Len(c) : Works(c, A, p)
      /\ \A p \in 1..Len(c) : p \in S \/ Lands(c, A, p, Len(c))
      /\ \A p \in 1..(Len(c) + 1) : Nests(c, A, A[p])
  BY DEF Sound
<1>2. /\ d \in Seq(Instr) /\ Len(d) = Len(c) /\ Grown(c, A, d, A)
      /\ \A p \in 1..Len(c) : /\ d[p].op = c[p].op /\ d[p].var = c[p].var /\ d[p].stmt = c[p].stmt
                              /\ p \in S => d[p].n = n
                              /\ p \notin S => d[p] = c[p]
  BY <1>1, LinkShape
<1>3. ASSUME NEW p \in 1..Len(c) PROVE Works(d, A, p)
  <2>1. Works(c, A, p)
    BY <1>1
  <2>2. p > 1 => d[p - 1].stmt = c[p - 1].stmt
    BY <1>1, <1>2
  <2>3. CASE p \notin S
    <3>1. d[p] = c[p]
      BY <1>2, <2>3
    <3> QED BY <2>1, <2>2, <3>1 DEF Works
  <2>4. CASE p \in S
    <3>1. d[p].op = "CALL" /\ c[p].op = "CALL" /\ d[p].var = c[p].var /\ d[p].stmt = c[p].stmt
      BY <1>2, <2>4 DEF CallsAt
    <3>2. Legal(d[p], A[p])
      BY <2>1, <3>1 DEF Works, Legal
    <3>3. Steps(d[p], p, A[p], A[p + 1])
      <4>1. Steps(c[p], p, A[p], A[p + 1])
        BY <2>1, <3>1 DEF Works, Falls
      <4> QED BY <3>1, <4>1 DEF Steps, TriesAfter, VarsAfter, TempsAfter
    <3> QED BY <2>1, <2>2, <3>1, <3>2, <3>3 DEF Works
  <2> QED BY <2>3, <2>4
<1>4. ASSUME NEW p \in 1..Len(c) PROVE Lands(d, A, p, Len(d))
  <2>1. CASE p \notin S
    <3>1. d[p] = c[p] /\ Lands(c, A, p, Len(c))
      BY <1>1, <1>2, <2>1
    <3> QED BY <1>2, <3>1 DEF Lands
  <2>2. CASE p \in S
    <3>1. d[p].op = "CALL" /\ d[p].n = n
      BY <1>2, <2>2 DEF CallsAt
    <3> QED BY <1>2, <3>1 DEF Lands, Branching
  <2> QED BY <2>1, <2>2
<1>5. ASSUME NEW p \in 1..(Len(c) + 1) PROVE Nests(d, A, A[p])
  <2>1. A[p] \in Shape /\ Nests(c, A, A[p])
    BY <1>1
  <2> QED BY <1>1, <1>2, <2>1, NestsKept
<1> QED BY <1>1, <1>2, <1>3, <1>4, <1>5 DEF Sound

LEMMA EndFunctionTyped ==
  ASSUME NEW A, Kept, CompilerInv(A), EndFunction, UNCHANGED vmVars
  PROVE  Ended
<1>1. PICK i, j : i = I("PUSH", 0) /\ j = I("RETURN", 0)
  OBVIOUS
<1>2. PICK e : e = code \o First(<<i, j>>)
  OBVIOUS
<1>3. PICK d : d = Linked(e, pending, entry)
  OBVIOUS
<1>4. phase = "func" /\ open = <<>> /\ code' = d /\ phase' = "run"
  BY <1>1, <1>2, <1>3 DEF EndFunction, Linked
<1>5. InFunction /\ HolesIn(open) \cup pending = pending
  BY <1>4 DEF InFunction, HolesIn
<1>6. PICK B : Compiled(code, A, e, B, pending) /\ Len(code) < Len(e)
  BY <1>1, <1>2, <1>5, EmitLeaving
<1>7. /\ code \in Seq(Instr) /\ Len(code) \in Nat /\ A \in [Nat -> Shape] /\ Here = Len(code) + 1
      /\ Context \in [tries : Seq(Nat), vars : Seq(Nat)]
      /\ Sound(code, A, pending, Len(code) + 1)
  BY <1>5, ContextFacts DEF Compiled
<1>8. i \in Instr /\ j \in Instr /\ i.op = "PUSH" /\ j.op = "RETURN"
  BY <1>1 DEF I, Instr, Opcode
<1>9. PICK ii : ii = AsFirst(i)
  OBVIOUS
<1>10. /\ ii \in Instr /\ ii.op = "PUSH" /\ e = Append(Append(code, ii), j)
  <2>1. ii \in Instr /\ e = Append(Append(code, ii), j)
    BY <1>2, <1>7, <1>8, <1>9, FirstTyped, Block2
  <2>2. ii.op = "PUSH"
    BY <1>8, <1>9 DEF AsFirst, Instr
  <2> QED BY <2>1, <2>2
<1>11. /\ e \in Seq(Instr) /\ Len(e) = Len(code) + 2 /\ e[Len(code) + 1] = ii /\ e[Len(code) + 2] = j
       /\ \A p \in 1..Len(code) : e[p] = code[p]
  <2>1. PICK g : g = Append(code, ii)
    OBVIOUS
  <2>2. g \in Seq(Instr) /\ Len(g) = Len(code) + 1 /\ g[Len(code) + 1] = ii /\ \A p \in 1..Len(code) : g[p] = code[p]
    BY <1>7, <1>10, <2>1, AppendProperties
  <2>3. e \in Seq(Instr) /\ Len(e) = Len(g) + 1 /\ e[Len(g) + 1] = j /\ \A p \in 1..Len(g) : e[p] = g[p]
    BY <1>8, <1>10, <2>1, <2>2, AppendProperties
  <2>4. Len(g) + 1 = Len(code) + 2 /\ Len(code) + 1 \in 1..Len(g) /\ \A p \in 1..Len(code) : p \in 1..Len(g)
    BY <1>7, <2>2
  <2>5. e[Len(code) + 1] = ii
    BY <2>2, <2>3, <2>4
  <2>6. \A p \in 1..Len(code) : e[p] = code[p]
    BY <2>2, <2>3, <2>4
  <2>7. Len(e) = Len(code) + 2 /\ e[Len(code) + 2] = j
    BY <2>3, <2>4
  <2> QED BY <2>3, <2>5, <2>6, <2>7
<1>12. Sound(e, B, pending, Len(e))
  <2>1. \A p \in (Len(code) + 1)..Len(e) : e[p].op \notin Branching
    <3>1. \A p \in (Len(code) + 1)..Len(e) : p = Len(code) + 1 \/ p = Len(code) + 2
      BY <1>7, <1>11
    <3> QED BY <1>8, <1>10, <1>11, <3>1 DEF Branching
  <2> QED BY <1>6, <1>7, <1>11, <2>1, SoundEnd
<1>13. CallsAt(e, pending)
  <2>1. CallsAt(code, pending)
    BY DEF CompilerInv
  <2> QED BY <1>6, <2>1, CallsKept
<1>14. entry \in 1..Len(e) /\ B[entry] = EntryShape
  <2>1. entry \in 1..(Len(code) + 1) /\ A[entry] = EntryShape
    BY <1>5, <1>7 DEF CompilerInv
  <2>2. B[entry] = A[entry]
    BY <1>6, <2>1, CompiledSame
  <2> QED BY <1>7, <1>11, <2>1, <2>2
<1>15. Sound(d, B, {}, Len(d))
  BY <1>3, <1>12, <1>13, <1>14, LinkSound
<1>16. Len(d) = Len(e) /\ d[Len(d)].op = "RETURN"
  <2>1. PICK S, n : S = pending /\ n = entry
    OBVIOUS
  <2>4. n \in Nat /\ e \in Seq(Instr) /\ d = Linked(e, S, n)
    BY <1>3, <1>11, <1>14, <2>1
  <2>5. PICK C : C = B
    OBVIOUS
  <2>6. Grown(e, C, d, C) /\ Len(d) = Len(e)
    BY ONLY <2>4, LinkShape
  <2>2. Len(d) = Len(e) /\ \A p \in 1..Len(e) : d[p].op = e[p].op
    BY <2>6 DEF Grown
  <2>3. Len(e) \in 1..Len(e) /\ e[Len(e)] = j
    BY <1>7, <1>11
  <2> QED BY <1>8, <2>2, <2>3
<1>17. B[1] = Ctx(<<>>, <<>>, 0, FALSE)
  <2>1. B[1] = A[1]
    <3>1. 1 \in 1..(Len(code) + 1)
      BY <1>7
    <3> QED BY <1>6, <3>1, CompiledSame
  <2> QED BY <2>1 DEF CompilerInv
<1>18. Loaded(d, B)
  BY <1>7, <1>11, <1>15, <1>16, <1>17 DEF Loaded, Falls
<1>19. PICK m : m = Machine'
  OBVIOUS
<1>20. m.ip = 1 /\ m.stack = <<>> /\ m.frames = <<>> /\ m.handlers = <<>>
  BY <1>19 DEF CompilerInv, vmVars, Machine
<1>21. Whole(d, B) /\ Running(d, B, m)
  BY <1>18, <1>20, MachineStarts
<1>22. MachineInv(B)'
  BY <1>4, <1>19, <1>21 DEF MachineInv
<1> QED BY <1>4, <1>22 DEF Ended
-----------------------------------------------------------------------------
\* A step of the compiler.

LEMMA SavedBounded ==
  ASSUME NEW A, Kept, CompilerInv(A), open # <<>>
  PROVE  Len(Inner.saved) <= LocalsMax /\ Inner.saved \in Seq(Nat) /\ Len(Inner.saved) \in Nat
<1>1. PICK o : o = Inner
  OBVIOUS
<1>2. Prefix(o.saved, locals) /\ o.saved \in Seq(Nat)
  BY <1>1, InnerFacts
<1>3. Len(o.saved) \in Nat /\ Len(locals) \in Nat /\ LocalsMax \in Nat /\ Len(locals) <= LocalsMax
  BY <1>2, CompilerAssumption DEF Kept
<1>4. Len(o.saved) <= LocalsMax
  BY <1>2, <1>3 DEF Prefix
<1> QED BY <1>1, <1>2, <1>3, <1>4

LEMMA RoomForOne ==
  ASSUME NEW vs \in Seq(Nat), NEW v, Len(vs) < LocalsMax
  PROVE  Len(Append(vs, v)) <= LocalsMax
<1>1. LocalsMax \in Nat /\ Len(vs) \in Nat
  BY CompilerAssumption
<1>2. Len(Append(vs, v)) = Len(vs) + 1
  OBVIOUS
<1> QED BY <1>1, <1>2

LEMMA LocalsBounded ==
  ASSUME NEW A, Kept, CompilerInv(A), Compile
  PROVE  Len(locals') <= LocalsMax
<1>1. locals \in Seq(Nat) /\ Len(locals) <= LocalsMax /\ Len(locals) \in Nat /\ LocalsMax \in Nat \ {0}
  BY CompilerAssumption DEF Kept
<1>2. ASSUME TooManyLocals \/ locals' = WithVar(Here + 1), TooManyLocals => locals' = locals
      PROVE  Len(locals') <= LocalsMax
  <2>1. CASE TooManyLocals
    BY <1>1, <1>2, <2>1
  <2>2. CASE ~TooManyLocals
    <3>1. CASE InFunction
      <4>1. Len(locals) < LocalsMax
        BY <1>1, <2>2, <3>1 DEF TooManyLocals
      <4>2. locals' = Append(locals, Here + 1)
        BY <1>2, <2>2, <3>1 DEF WithVar
      <4> QED BY <1>1, <4>1, <4>2, RoomForOne
    <3>2. CASE ~InFunction
      BY <1>1, <1>2, <2>2, <3>2 DEF WithVar
    <3> QED BY <3>1, <3>2
  <2> QED BY <2>1, <2>2
<1>3. ASSUME open # <<>>, locals' = Inner.saved
      PROVE  Len(locals') <= LocalsMax
  BY <1>3, SavedBounded
<1>4. CASE Let
  <2>1. TooManyLocals => locals' = locals
    BY <1>4 DEF Let, Reject
  <2>2. ~TooManyLocals => locals' = WithVar(Here + 1)
    BY <1>4 DEF Let
  <2> QED BY <1>2, <2>1, <2>2
<1>5. ASSUME NEW init, NEW test, BeginFor(init, test)
      PROVE  Len(locals') <= LocalsMax
  <2>1. locals' = locals \/ (~TooManyLocals /\ locals' = WithVar(Here + 1))
    BY <1>5 DEF BeginFor, Reject
  <2> QED BY <1>1, <1>2, <2>1
<1>6. CASE Call \/ BeginIf \/ BeginWhile \/ BeginTry \/ EndFunction
  <2>1. locals' = locals
    BY <1>6 DEF Call, BeginIf, BeginWhile, BeginTry, EndFunction
  <2> QED BY <1>1, <2>1
<1>7. CASE Throw \/ Return \/ \E s \in 0..(Len(locals) - 1) : Assign(s)
  <2>1. locals' = locals
    BY <1>7 DEF Throw, Return, Assign, Emits
  <2> QED BY <1>1, <2>1
<1>8. CASE Break \/ Continue
  <2>1. locals' = locals
    BY <1>8 DEF Break, Continue, Reject
  <2> QED BY <1>1, <2>1
<1>9. CASE Else \/ EndIf \/ EndTry
  <2>1. open # <<>> /\ locals' = Inner.saved
    BY <1>9 DEF Else, EndIf, EndTry, Inside
  <2> QED BY <1>3, <2>1
<1>10. CASE EndWhile \/ \E step \in BOOLEAN : EndFor(step)
  <2>1. open # <<>> /\ locals' = Inner.saved
    BY <1>10 DEF EndWhile, EndFor, EndLoop, Inside
  <2> QED BY <1>3, <2>1
<1>11. CASE Catch
  <2>1. open # <<>>
    BY <1>11 DEF Catch, Inside
  <2>2. Inner.saved \in Seq(Nat) /\ Len(Inner.saved) \in Nat
    BY <2>1, SavedBounded
  <2>3. \/ locals' = locals
        \/ Len(Inner.saved) < LocalsMax /\ locals' = Append(Inner.saved, Here + 2)
    BY <1>1, <1>11, <2>2 DEF Catch
  <2>4. CASE Len(Inner.saved) < LocalsMax /\ locals' = Append(Inner.saved, Here + 2)
    BY <2>2, <2>4, RoomForOne
  <2> QED BY <1>1, <2>3, <2>4
<1>12. CASE EndMain
  <2>1. locals' = locals \/ locals' = <<Param>>
    BY <1>12 DEF EndMain
  <2>2. Len(<<Param>>) <= LocalsMax
    <3>1. Len(<<Param>>) = 1
      OBVIOUS
    <3> QED BY <1>1, <3>1
  <2> QED BY <1>1, <2>1, <2>2
<1> QED BY <1>4, <1>5, <1>6, <1>7, <1>8, <1>9, <1>10, <1>11, <1>12 DEF Compile

LEMMA StatementsLeft ==
  ASSUME Kept, Compile
  PROVE  stmts' \in Nat
<1>1. stmts \in Nat /\ MaxFunc \in Nat
  BY CompilerAssumption DEF Kept
<1>2. (\E k : Statement(k)) => stmts' \in Nat
  BY <1>1 DEF Statement
<1>3. CASE Let \/ Throw \/ Return \/ Break \/ Continue \/ BeginIf \/ BeginWhile \/ BeginTry
  BY <1>2, <1>3 DEF Let, Throw, Return, Break, Continue, BeginIf, BeginWhile, BeginTry, Emits
<1>4. CASE \E s \in 0..(Len(locals) - 1) : Assign(s)
  BY <1>2, <1>4 DEF Assign, Emits
<1>5. CASE \E test \in BOOLEAN : \E init \in InitsOf(test) : BeginFor(init, test)
  BY <1>2, <1>5 DEF BeginFor
<1>6. CASE Else \/ EndIf \/ EndTry \/ EndFunction \/ Catch
  BY <1>1, <1>6 DEF Else, EndIf, EndTry, EndFunction, Catch
<1>7. CASE EndWhile \/ \E step \in BOOLEAN : EndFor(step)
  BY <1>1, <1>7 DEF EndWhile, EndFor, EndLoop
<1>8. CASE EndMain
  BY <1>1, <1>8 DEF EndMain
<1>9. CASE Call
  BY <1>1, <1>9 DEF Call
<1> QED BY <1>3, <1>4, <1>5, <1>6, <1>7, <1>8, <1>9 DEF Compile

\* A program is rejected where it stands.
LEMMA RejectedAsIs ==
  ASSUME NEW A, Kept, CompilerInv(A), Compile, phase' = "rejected"
  PROVE  tryDepth' \in Nat /\ entry' = entry /\ locals' = locals
<1>1. phase \in {"main", "func"}
  BY Zenon DEF Compile, Let, Call, Throw, Return, Break, Continue, Assign, BeginIf, Else, EndIf, BeginWhile, EndWhile,
         BeginFor, EndFor, BeginTry, Catch, EndTry, EndMain, EndFunction, Emits, Statement, Inside, Compiling
<1>2. tryDepth \in Nat /\ phase # "rejected"
  BY <1>1 DEF Kept
<1>3. CASE Let \/ Break \/ Continue
  BY <1>2, <1>3 DEF Let, Break, Continue, Reject
<1>4. CASE \E test \in BOOLEAN : \E init \in InitsOf(test) : BeginFor(init, test)
  BY <1>2, <1>4 DEF BeginFor, Reject
<1>5. CASE Catch
  <2>1. PICK o : o = Inner
    OBVIOUS
  <2>2. open # <<>> /\ o.kind = "try" /\ tryDepth' = tryDepth - 1 /\ entry' = entry
    BY <1>5, <2>1 DEF Catch, Inside
  <2>3. locals' = locals
    BY <1>2, <1>5 DEF Catch
  <2>4. o \in Constructs /\ Attached(code, A, o, InFunction) /\ TriesAround(open) = TriesIn(o) /\ o.tries \in Seq(Nat)
    BY <2>1, <2>2, InnerFacts
  <2>5. o.try # None /\ o.try \in Nat
    BY <2>2, <2>4 DEF Attached, Constructs
  <2>6. tryDepth = Len(o.tries) + 1
    <3>1. tryDepth = Len(Append(o.tries, o.try))
      BY <2>4, <2>5 DEF CompilerInv, TriesIn
    <3> QED BY ONLY <2>4, <2>5, <3>1
  <2>7. Len(o.tries) \in Nat
    BY <2>4
  <2> QED BY <2>2, <2>3, <2>6, <2>7
<1>6. CASE Call \/ BeginIf \/ BeginWhile \/ BeginTry \/ Else \/ EndIf \/ EndTry
  BY <1>2, <1>6 DEF Call, BeginIf, BeginWhile, BeginTry, Else, EndIf, EndTry
<1>7. CASE EndWhile \/ \E step \in BOOLEAN : EndFor(step)
  BY <1>2, <1>7 DEF EndWhile, EndFor, EndLoop
<1>8. CASE Throw \/ Return \/ \E s \in 0..(Len(locals) - 1) : Assign(s)
  BY <1>2, <1>8 DEF Throw, Return, Assign, Emits
<1>9. CASE EndMain \/ EndFunction
  BY <1>2, <1>9 DEF EndMain, EndFunction
<1> QED BY Zenon, <1>3, <1>4, <1>5, <1>6, <1>7, <1>8, <1>9 DEF Compile

\* What the typing says of the other variables, after a step.
LEMMA TypedThen ==
  ASSUME NEW B, CompilerInv(B)'
  PROVE  /\ tryDepth' \in Nat /\ entry' \in Nat /\ locals' \in Seq(Nat)
         /\ phase' = "main" => locals' = <<>>
<1>1. PICK c, os, vs, f, e, h : c = code' /\ os = open' /\ vs = locals' /\ f = InFunction' /\ e = entry' /\ h = Here'
  OBVIOUS
<1>2. /\ Sound(c, B, HolesIn(os) \cup pending', h) /\ h = Len(c) + 1
      /\ B[h] = Ctx(TriesAround(os), vs, 0, f)
      /\ IF f THEN e \in 1..h ELSE e = 0
      /\ tryDepth' = Len(TriesAround(os))
  BY <1>1 DEF CompilerInv, Here
<1>3. B[h] \in Shape /\ Nests(c, B, B[h]) /\ h \in Nat
  BY <1>2 DEF Sound
<1>4. vs \in Seq(Nat) /\ TriesAround(os) \in Seq(Nat)
  <2>1. B[h].vars = vs /\ B[h].tries = TriesAround(os)
    BY <1>2 DEF Ctx
  <2> QED BY <1>3, <2>1 DEF Shape
<1>5. f \/ vs = <<>>
  <2>1. B[h].vars = vs /\ B[h].func = f
    BY <1>2 DEF Ctx
  <2> QED BY <1>3, <2>1 DEF Nests
<1>6. e \in Nat
  <2>1. CASE f
    <3>1. e \in 1..h
      BY <1>2, <2>1
    <3> QED BY ONLY <1>3, <3>1
  <2>2. CASE ~f
    BY <1>2, <2>2
  <2> QED BY <2>1, <2>2
<1>7. tryDepth' \in Nat
  BY <1>2, <1>4
<1>8. phase' = "main" => ~f
  BY <1>1 DEF InFunction
<1>9. phase' = "main" => vs = <<>>
  BY ONLY <1>5, <1>8
<1>10. e = entry' /\ vs = locals'
  BY <1>1, Zenon
<1> QED BY ONLY <1>4, <1>6, <1>7, <1>9, <1>10

LEMMA StaysOrRejected ==
  ASSUME Compile
  PROVE  phase' \in {phase, "rejected", "func", "run"} /\ phase \in {"main", "func"}
<1>1. phase \in {"main", "func"}
  BY Zenon DEF Compile, Let, Call, Throw, Return, Break, Continue, Assign, BeginIf, Else, EndIf, BeginWhile, EndWhile,
         BeginFor, EndFor, BeginTry, Catch, EndTry, EndMain, EndFunction, Emits, Statement, Inside, Compiling
<1>2. CASE Let \/ Break \/ Continue
  BY <1>1, <1>2 DEF Let, Break, Continue, Reject
<1>3. CASE \E test \in BOOLEAN : \E init \in InitsOf(test) : BeginFor(init, test)
  BY <1>1, <1>3 DEF BeginFor, Reject
<1>4. CASE Catch
  BY <1>1, <1>4 DEF Catch
<1>5. CASE Call \/ BeginIf \/ BeginWhile \/ BeginTry \/ Else \/ EndIf \/ EndTry
  BY <1>1, <1>5 DEF Call, BeginIf, BeginWhile, BeginTry, Else, EndIf, EndTry
<1>6. CASE EndWhile \/ \E step \in BOOLEAN : EndFor(step)
  BY <1>1, <1>6 DEF EndWhile, EndFor, EndLoop
<1>7. CASE Throw \/ Return \/ \E s \in 0..(Len(locals) - 1) : Assign(s)
  BY <1>1, <1>7 DEF Throw, Return, Assign, Emits
<1>8. CASE EndMain \/ EndFunction
  BY <1>1, <1>8 DEF EndMain, EndFunction
<1> QED BY <1>1, <1>2, <1>3, <1>4, <1>5, <1>6, <1>7, <1>8 DEF Compile

\* Every construct leaves code that can be typed.
LEMMA CompileTyped ==
  ASSUME NEW A, Kept, CompilerInv(A), OperandsFit, OperandsFit', "top return" \notin Kinds,
         Compile, UNCHANGED vmVars, phase' # "rejected"
  PROVE  Ended \/ \E B : CompilerInv(B)'
<1>1. CASE Let
  BY <1>1, LetTyped
<1>2. CASE Call
  BY <1>2, CallTyped
<1>3. CASE Throw \/ Return
  BY <1>3, LeavingTyped
<1>4. CASE Break
  BY <1>4, BreakTyped
<1>5. CASE Continue
  BY <1>5, ContinueTyped
<1>6. CASE \E s \in 0..(Len(locals) - 1) : Assign(s)
  <2>1. PICK s \in 0..(Len(locals) - 1) : Assign(s)
    BY <1>6
  <2> QED BY <2>1, AssignTyped
<1>7. CASE BeginIf \/ BeginWhile
  BY <1>7, BranchTyped
<1>8. CASE Else
  BY <1>8, ElseTyped
<1>9. CASE EndIf \/ EndTry
  BY <1>9, EndTyped
<1>10. CASE EndWhile
  BY <1>10, EndWhileTyped
<1>11. CASE \E test \in BOOLEAN : \E init \in InitsOf(test) : BeginFor(init, test)
  <2>1. PICK test \in BOOLEAN : \E init \in InitsOf(test) : BeginFor(init, test)
    BY <1>11
  <2>2. PICK init \in InitsOf(test) : BeginFor(init, test)
    BY <2>1
  <2>3. init \in AllInits
    BY <2>2, CompilerAssumption DEF InitsOf
  <2> QED BY <2>2, <2>3, BeginForTyped
<1>12. CASE \E step \in BOOLEAN : EndFor(step)
  BY <1>12, EndForTyped
<1>13. CASE BeginTry
  BY <1>13, TryTyped
<1>14. CASE Catch
  BY <1>14, CatchTyped
<1>15. CASE EndMain
  BY <1>15, EndMainTyped
<1>16. CASE EndFunction
  BY <1>16, EndFunctionTyped
<1> QED BY <1>1, <1>2, <1>3, <1>4, <1>5, <1>6, <1>7, <1>8, <1>9, <1>10, <1>11, <1>12, <1>13, <1>14, <1>15, <1>16
        DEF Compile

LEMMA RunsWithTyping ==
  ASSUME NEW A, Kept, CompilerInv(A), Compile, UNCHANGED vmVars, phase' = "run"
  PROVE  (\E B : MachineInv(B)') /\ tryDepth' \in Nat /\ entry' = entry /\ locals' = locals
<1>1. phase \in {"main", "func"}
  BY StaysOrRejected
<1>2. EndMain \/ EndFunction
  <2>1. CASE Let \/ Break \/ Continue
    BY <1>1, <2>1 DEF Let, Break, Continue, Reject
  <2>2. CASE \E test \in BOOLEAN : \E init \in InitsOf(test) : BeginFor(init, test)
    BY <1>1, <2>2 DEF BeginFor, Reject
  <2>3. CASE Catch
    BY <1>1, <2>3 DEF Catch
  <2>4. CASE Call \/ BeginIf \/ BeginWhile \/ BeginTry \/ Else \/ EndIf \/ EndTry
    BY <1>1, <2>4 DEF Call, BeginIf, BeginWhile, BeginTry, Else, EndIf, EndTry
  <2>5. CASE EndWhile \/ \E step \in BOOLEAN : EndFor(step)
    BY <1>1, <2>5 DEF EndWhile, EndFor, EndLoop
  <2>6. CASE Throw \/ Return \/ \E s \in 0..(Len(locals) - 1) : Assign(s)
    BY <1>1, <2>6 DEF Throw, Return, Assign, Emits
  <2> QED BY <2>1, <2>2, <2>3, <2>4, <2>5, <2>6 DEF Compile
<1>3. CASE EndMain
  <2>1. tryDepth' = 0 /\ entry' = entry /\ locals' = locals
    BY <1>3 DEF EndMain
  <2> QED BY <1>3, <2>1, EndMainTyped DEF Ended
<1>4. CASE EndFunction
  <2>1. tryDepth' = tryDepth /\ entry' = entry /\ locals' = locals
    BY <1>4 DEF EndFunction
  <2> QED BY <1>4, <2>1, EndFunctionTyped DEF Ended, Kept
<1> QED BY <1>2, <1>3, <1>4

\* The compiler's steps keep the invariant.
LEMMA CompileKeeps ==
  ASSUME ControlInv, OperandsFit, OperandsFit', "top return" \notin Kinds, Compile, UNCHANGED vmVars
  PROVE  ControlInv'
<1>1. phase' \in {phase, "rejected", "func", "run"} /\ phase \in {"main", "func"}
  BY StaysOrRejected
<1>2. PICK A : CompilerInv(A)
  BY <1>1 DEF ControlInv, Compiling
<1>3. Kept
  BY DEF ControlInv
<1>4. Len(locals') <= LocalsMax /\ stmts' \in Nat
  BY <1>2, <1>3, LocalsBounded, StatementsLeft
<1>5. stack' = <<>> /\ frames' = <<>> /\ handlers' = <<>>
  BY <1>2 DEF CompilerInv, vmVars
<1>6. Sp' <= StackMax /\ Fp' <= FramesMax /\ Len(handlers') <= HandlersMax
  <2>1. Sp' = 0 /\ Fp' = 0 /\ Len(handlers') = 0
    BY <1>5 DEF Sp, Fp
  <2>3. StackMax \in Nat /\ FramesMax \in Nat /\ HandlersMax \in Nat
    BY ControlAssumption
  <2>2. 0 <= StackMax /\ 0 <= FramesMax /\ 0 <= HandlersMax
    BY ONLY <2>3
  <2> QED BY <2>1, <2>2
<1>7. CASE phase' = "rejected"
  <2>1. tryDepth' \in Nat /\ entry' = entry /\ locals' = locals
    BY <1>2, <1>3, <1>7, RejectedAsIs
  <2>2. Kept'
    BY <1>3, <1>4, <1>7, <2>1 DEF Kept
  <2> QED BY <1>6, <1>7, <2>2 DEF ControlInv, Compiling
<1>8. CASE phase' = "run"
  <2>1. (\E B : MachineInv(B)') /\ tryDepth' \in Nat /\ entry' = entry /\ locals' = locals
    BY <1>2, <1>3, <1>8, RunsWithTyping
  <2>3. Kept'
    BY <1>3, <1>4, <1>8, <2>1 DEF Kept
  <2> QED BY <1>8, <2>1, <2>3 DEF ControlInv, Compiling
<1>9. CASE phase' \in {"main", "func"}
  <2>1. PICK B : CompilerInv(B)'
    BY <1>2, <1>3, <1>9, CompileTyped DEF Ended
  <2>2. Kept'
    BY <1>4, <1>9, <2>1, TypedThen DEF Kept
  <2> QED BY <1>9, <2>1, <2>2 DEF ControlInv, Compiling
<1> QED BY <1>1, <1>7, <1>8, <1>9
=============================================================================
