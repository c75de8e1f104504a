---------------------------- MODULE ValuesProofs ---------------------------
(***************************************************************************)
(* Proofs about Values, for any heap over any set of objects: the marks    *)
(* belong to the walk under way, a comparison never tells apart what has   *)
(* the same structure and is exact on operands that contain neither        *)
(* themselves nor each other, and printing elides exactly cycles.          *)
(***************************************************************************)
EXTENDS Values, FiniteSetTheorems, TLAPS

Depth == Len(stack)
Activation == [a : Obj, b : Obj \cup {None}, todo : SUBSET (Nat \cup Key), equal : BOOLEAN]

Typed ==
    /\ heap \in [Obj -> Array \cup Map]
    /\ marked \subseteq Obj
    /\ walk \in {"idle", "eq", "print"}
    /\ answer \in {"none", "equal", "different", "whole", "elided"}
    /\ stack \in Seq(Activation)
    /\ \A n \in 1..Depth : stack[n].todo \subseteq Positions(stack[n].a)

\* There are activations exactly during a walk, and the first one has the
\* operands of the instruction.
FromOperands ==
    /\ walk = "idle" <=> Depth = 0
    /\ Depth > 0 => stack[1].a = Left /\ (walk = "eq" => stack[1].b = Right)

\* A comparison descends into pairs of one type and one count, printing into
\* single objects.
Paired == \A n \in 1..Depth :
             IF walk = "print" THEN stack[n].b = None /\ stack[n].equal
             ELSE /\ stack[n].b \in Obj
                  /\ heap[stack[n].a].kind = heap[stack[n].b].kind
                  /\ Count(stack[n].a) = Count(stack[n].b)

\* No two activations have an object in common.
Separate == \A m, n \in 1..Depth : m # n => Objects(stack[m]) \cap Objects(stack[n]) = {}

\* An activation works on what the outer ones lead to; those have found no
\* difference yet.
Nested == /\ \A m, n \in 1..Depth : m <= n =>
                /\ stack[n].a \in Below(stack[m].a)
                /\ walk = "eq" => stack[n].b \in Below(stack[m].b)
          /\ \A n \in 1..(Depth - 1) : stack[n].equal

Shape == Typed /\ FromOperands /\ Paired /\ Separate /\ Nested /\ MarksBelongToWalk

\* While the operands have the same structure, so has every pair compared.
Agree == walk = "eq" /\ SameStructure(Left, Right) =>
            \A n \in 1..Depth : stack[n].equal /\ SameStructure(stack[n].a, stack[n].b)

Same  == {r \in Obj \X Obj : SameStructure(r[1], r[2])}
Apart == ~Cyclic(Left) /\ ~Cyclic(Right) /\ Below(Left) \cap Below(Right) = {}

\* The position i of activation n is the one being descended into.
Entered(n, i) == /\ n < Depth /\ heap[stack[n].a].items[i] = stack[n + 1].a
                 /\ walk = "eq" => heap[stack[n].b].items[i] = stack[n + 1].b

\* What an activation has passed without a difference is alike.
Alike == walk = "eq" /\ Apart =>
    \A n \in 1..Depth : stack[n].equal =>
        \A i \in Positions(stack[n].a) \ stack[n].todo :
            /\ i \in Positions(stack[n].b)
            /\ Entered(n, i) \/ AlikeValues(Same, heap[stack[n].a].items[i], heap[stack[n].b].items[i])

\* What has been printed in full contains no cycle.
PrintedWhole == walk = "print" /\ answer = "whole" =>
    \A n \in 1..Depth : \A i \in Positions(stack[n].a) \ stack[n].todo :
        Entered(n, i) \/ heap[stack[n].a].items[i] \in Atom \/ ~Cyclic(heap[stack[n].a].items[i])

\* The answer is one of the walk under way, and an elision one of a cycle.
Answering == /\ walk = "print" => answer \in {"whole", "elided"}
             /\ walk = "eq" => answer = "none"
             /\ answer = "elided" => Cyclic(Left)

\* What the finished walks have found.
FoundSame  == Compared /\ Apart /\ answer = "equal" => SameStructure(Left, Right)
FoundWhole == Printed /\ answer = "whole" => ~Cyclic(Left)

IInv == Shape /\ Answering /\ Agree /\ NoFalseDifference /\ Alike /\ FoundSame
              /\ PrintedWhole /\ FoundWhole
-----------------------------------------------------------------------------
(***************************************************************************)
(* Heaps                                                                   *)
(***************************************************************************)
\* What an object holds: values, at finitely many positions.
LEMMA HeapObject ==
  ASSUME heap \in [Obj -> Array \cup Map], NEW o \in Obj
  PROVE  /\ IsFiniteSet(Positions(o)) /\ Positions(o) \subseteq Nat \cup Key
         /\ Count(o) \in Nat
         /\ \A i \in Positions(o) : heap[o].items[i] \in Value
<1>1. CASE heap[o] \in Array
  <2>1. PICK n \in 0..MaxLen : heap[o].items \in [1..n -> Value]
    BY <1>1 DEF Array
  <2>2. Positions(o) = 1..n /\ n \in Nat
    BY <2>1, ValuesAssumption DEF Positions
  <2>3. IsFiniteSet(1..n)
    BY <2>2, FS_Interval
  <2> QED BY <2>1, <2>2, <2>3, FS_CardinalityType DEF Count
<1>2. CASE heap[o] \in Map
  <2>1. PICK ks \in SUBSET Key : heap[o].items \in [ks -> Value]
    BY <1>2 DEF Map
  <2>2. Positions(o) = ks
    BY <2>1 DEF Positions
  <2>3. IsFiniteSet(ks)
    BY ValuesAssumption, FS_Subset
  <2> QED BY <2>1, <2>2, <2>3, FS_CardinalityType DEF Count
<1> QED BY <1>1, <1>2

\* An object leads to itself.
LEMMA BelowSelf ==
  ASSUME NEW o \in Obj
  PROVE  o \in Below(o)
BY DEF Below

\* ... and to what the objects it leads to hold.
LEMMA BelowStep ==
  ASSUME NEW o, NEW p \in Below(o), NEW q \in Obj, Holds(p, q)
  PROVE  q \in Below(o)
BY DEF Below, Closed

\* What an object leads to is least among the closed sets.
LEMMA BelowLeast ==
  ASSUME NEW o, NEW S \in SUBSET Obj, o \in S, Closed(S)
  PROVE  Below(o) \subseteq S
BY DEF Below

\* It is itself closed, so leading to is transitive.
LEMMA BelowTransitive ==
  ASSUME NEW o, NEW p \in Below(o)
  PROVE  Below(p) \subseteq Below(o)
<1>1. Below(o) \in SUBSET Obj
  BY DEF Below
<1>2. Closed(Below(o))
  BY <1>1, BelowStep DEF Closed
<1> QED BY <1>1, <1>2, BelowLeast

\* An object leads to itself and to what those it holds lead to.
LEMMA BelowUnfold ==
  ASSUME NEW o \in Obj, NEW q \in Below(o), q # o
  PROVE  \E v \in Obj : Holds(o, v) /\ q \in Below(v)
<1> DEFINE S == {o} \cup {p \in Obj : \E v \in Obj : Holds(o, v) /\ p \in Below(v)}
<1>1. Closed(S)
  <2> SUFFICES ASSUME NEW p \in S, NEW r \in Obj, Holds(p, r)
               PROVE  r \in S
    BY DEF Closed
  <2>1. CASE p = o
    BY <2>1, BelowSelf
  <2>2. CASE p # o
    <3>1. PICK v \in Obj : Holds(o, v) /\ p \in Below(v)
      BY <2>2
    <3>2. r \in Below(v)
      BY <3>1, BelowStep
    <3> QED BY <3>1, <3>2
  <2> QED BY <2>1, <2>2
<1>2. q \in S
  BY <1>1, BelowLeast
<1> QED BY <1>2

\* An object that holds what leads back to it is on a cycle, and so is
\* everything that leads to it.
LEMMA CycleClosed ==
  ASSUME NEW o \in Obj, NEW p \in Below(o), NEW q \in Obj, Holds(p, q), p \in Below(q)
  PROVE  Cyclic(o)
BY DEF Cyclic

\* A cycle below an object is below one of those it holds.
LEMMA CyclicUnfold ==
  ASSUME NEW o \in Obj, Cyclic(o)
  PROVE  \E v \in Obj : Holds(o, v) /\ Cyclic(v)
<1>1. PICK p \in Below(o), q \in Obj : Holds(p, q) /\ p \in Below(q)
  BY DEF Cyclic
<1>2. CASE p = o
  BY <1>1, <1>2 DEF Cyclic
<1>3. CASE p # o
  <2>1. PICK v \in Obj : Holds(o, v) /\ p \in Below(v)
    BY <1>3, BelowUnfold
  <2> QED BY <1>1, <2>1, CycleClosed
<1> QED BY <1>2, <1>3
-----------------------------------------------------------------------------
(***************************************************************************)
(* Sameness of structure                                                   *)
(***************************************************************************)
\* An object has the structure of itself.
LEMMA SameReflexive ==
  ASSUME NEW o \in Obj
  PROVE  SameStructure(o, o)
<1> DEFINE R == {<<o, o>>}
<1>1. R \in SUBSET (Obj \X Obj) /\ <<o, o>> \in R
  OBVIOUS
<1>2. \A r \in R : AlikeObjects(R, r[1], r[2])
  BY DEF AlikeObjects, AlikeValues
<1> QED BY <1>1, <1>2 DEF SameStructure

\* Objects of the same structure are alike position by position.
LEMMA SameUnfold ==
  ASSUME NEW o, NEW p, SameStructure(o, p)
  PROVE  AlikeObjects(Same, o, p)
<1>1. PICK R \in SUBSET (Obj \X Obj) :
        <<o, p>> \in R /\ \A r \in R : AlikeObjects(R, r[1], r[2])
  BY DEF SameStructure
<1>2. R \subseteq Same
  <2> SUFFICES ASSUME NEW r \in R PROVE r \in Same
    OBVIOUS
  <2>1. r \in Obj \X Obj /\ r = <<r[1], r[2]>>
    BY <1>1
  <2>2. SameStructure(r[1], r[2])
    BY <1>1, <2>1 DEF SameStructure
  <2> QED BY <2>1, <2>2 DEF Same
<1>3. AlikeObjects(R, o, p)
  <2>1. <<o, p>>[1] = o /\ <<o, p>>[2] = p
    OBVIOUS
  <2> QED BY <1>1, <2>1
<1> QED BY <1>2, <1>3 DEF AlikeObjects, AlikeValues

\* ... and objects that are have the same structure.
LEMMA SameFold ==
  ASSUME NEW o \in Obj, NEW p \in Obj, AlikeObjects(Same, o, p)
  PROVE  SameStructure(o, p)
<1> DEFINE R == Same \cup {<<o, p>>}
<1>1. R \in SUBSET (Obj \X Obj) /\ <<o, p>> \in R
  BY DEF Same
<1>2. ASSUME NEW r \in R PROVE AlikeObjects(R, r[1], r[2])
  <2>1. AlikeObjects(Same, r[1], r[2])
    <3>1. CASE r \in Same
      <4>1. SameStructure(r[1], r[2])
        BY <3>1 DEF Same
      <4> QED BY <4>1, SameUnfold
    <3>2. CASE r = <<o, p>>
      BY <3>2
    <3> QED BY <3>1, <3>2
  <2> QED BY <2>1 DEF AlikeObjects, AlikeValues
<1> QED BY <1>1, <1>2 DEF SameStructure

\* Two objects with the same number of positions, all of the one's among the
\* other's, have the same positions.
LEMMA SamePositions ==
  ASSUME heap \in [Obj -> Array \cup Map], NEW o \in Obj, NEW p \in Obj,
         Positions(o) \subseteq Positions(p), Count(o) = Count(p)
  PROVE  Positions(o) = Positions(p)
BY HeapObject, FS_Subset DEF Count

\* Only the heap decides what has the same structure and what is on a cycle.
LEMMA HeapFixed ==
  ASSUME heap' = heap
  PROVE  /\ \A o : Positions(o)' = Positions(o) /\ Count(o)' = Count(o)
         /\ \A o, p : Holds(o, p)' = Holds(o, p)
         /\ \A o : Below(o)' = Below(o)
         /\ \A o : Cyclic(o)' = Cyclic(o)
         /\ \A o, p : SameStructure(o, p)' = SameStructure(o, p)
         /\ Same' = Same /\ Apart' = Apart
BY DEF Positions, Count, Holds, Below, Closed, Cyclic, SameStructure, AlikeObjects, AlikeValues,
       Same, Apart
-----------------------------------------------------------------------------
(***************************************************************************)
(* What the actions do to the activations                                  *)
(***************************************************************************)
Below1 == \A n \in 1..(Depth - 1) : stack'[n] = stack[n]

\* A walk starts from the operands.
Started(b) ==
    /\ Depth = 0 /\ walk = "idle" /\ heap' = heap
    /\ stack' \in Seq(Activation) /\ Depth' = 1
    /\ stack'[1] = Frame(Left, b)
    /\ marked' = marked \cup ({Left, b} \ {None})
    /\ \/ b = None /\ walk' = "print" /\ answer' = "whole"
       \/ /\ b = Right /\ walk' = "eq" /\ answer' = "none"
          /\ heap[Left].kind = heap[b].kind /\ Count(Left) = Count(b) /\ Left # b

\* The innermost activation passes position i, and goes on unless ~e.
Turned(i, e) ==
    /\ Depth > 0 /\ UNCHANGED <<heap, walk, marked>>
    /\ stack' \in Seq(Activation) /\ Depth' = Depth /\ Below1
    /\ i \in Top.todo
    /\ stack'[Depth].a = Top.a /\ stack'[Depth].b = Top.b
    /\ stack'[Depth].todo = Top.todo \ {i} /\ stack'[Depth].equal = e

\* The innermost activation enters what is at its position i: v, and on the
\* other side of a comparison w.
Descended(i, v, w) ==
    /\ Depth > 0 /\ UNCHANGED <<heap, walk, answer>>
    /\ stack' \in Seq(Activation) /\ Depth' = Depth + 1 /\ Below1
    /\ i \in Top.todo
    /\ stack'[Depth].a = Top.a /\ stack'[Depth].b = Top.b
    /\ stack'[Depth].todo = Top.todo \ {i} /\ stack'[Depth].equal
    /\ stack'[Depth + 1] = Frame(v, w)
    /\ v \in Obj \ marked /\ v = heap[Top.a].items[i]
    /\ marked' = marked \cup ({v, w} \ {None})
    /\ \/ walk = "print" /\ w = None
       \/ /\ walk = "eq" /\ w \in Obj \ marked /\ v # w
          /\ i \in Positions(Top.b) /\ w = heap[Top.b].items[i]
          /\ heap[v].kind = heap[w].kind /\ Count(v) = Count(w)

\* The innermost activation ends, and its caller goes on unless ~e.
Returned(e) ==
    /\ Depth > 0 /\ heap' = heap
    /\ stack' \in Seq(Activation) /\ Depth' = Depth - 1
    /\ \A n \in 1..(Depth - 2) : stack'[n] = stack[n]
    /\ Depth > 1 => /\ stack'[Depth - 1].a = stack[Depth - 1].a
                    /\ stack'[Depth - 1].b = stack[Depth - 1].b
                    /\ stack'[Depth - 1].todo = stack[Depth - 1].todo
                    /\ stack'[Depth - 1].equal = e
    /\ marked' = marked \ Objects(Top)
    /\ walk' = IF Depth = 1 THEN "idle" ELSE walk

\* An activation is one of the stack's, the innermost one if there is any.
LEMMA TopTyped ==
  ASSUME Typed, Depth > 0
  PROVE  /\ Depth \in Nat /\ Depth \in 1..Depth /\ Top = stack[Depth] /\ Top \in Activation
         /\ Top.a \in Obj /\ Top.b \in Obj \cup {None} /\ Top.equal \in BOOLEAN
         /\ Top.todo \subseteq Positions(Top.a)
<1>1. stack \in Seq(Activation) /\ Depth \in Nat /\ Depth \in 1..Depth
  BY DEF Typed, Depth
<1>2. Top = stack[Depth] /\ Top \in Activation
  BY <1>1 DEF Top, Depth
<1> QED BY <1>1, <1>2 DEF Activation, Typed

\* A fresh activation has everything still to visit.
LEMMA FrameTyped ==
  ASSUME heap \in [Obj -> Array \cup Map], NEW v \in Obj, NEW w \in Obj \cup {None}
  PROVE  /\ Frame(v, w) \in Activation
         /\ Frame(v, w).a = v /\ Frame(v, w).b = w /\ Frame(v, w).todo = Positions(v)
         /\ Frame(v, w).equal
<1>1. Positions(v) \subseteq Nat \cup Key
  BY HeapObject
<1> QED BY <1>1 DEF Frame, Activation

\* Replacing the innermost activation.
LEMMA SetTopEffect ==
  ASSUME Typed, Depth > 0, NEW f \in Activation
  PROVE  /\ SetTop(f) \in Seq(Activation) /\ Len(SetTop(f)) = Depth
         /\ SetTop(f)[Depth] = f
         /\ \A n \in 1..(Depth - 1) : SetTop(f)[n] = stack[n]
<1>1. stack \in Seq(Activation) /\ Depth \in Nat /\ Depth = Len(stack)
  BY DEF Typed, Depth
<1> QED BY <1>1 DEF SetTop

\* Passing a position.
LEMMA PastFields ==
  ASSUME NEW f \in Activation, NEW i
  PROVE  /\ Past(f, i) \in Activation
         /\ Past(f, i).a = f.a /\ Past(f, i).b = f.b /\ Past(f, i).equal = f.equal
         /\ Past(f, i).todo = f.todo \ {i}
BY DEF Past, Activation

\* ... with a verdict.
LEMMA PastTyped ==
  ASSUME NEW f \in Activation, NEW i, NEW e \in BOOLEAN
  PROVE  /\ [Past(f, i) EXCEPT !.equal = e] \in Activation
         /\ [Past(f, i) EXCEPT !.equal = e].a = f.a /\ [Past(f, i) EXCEPT !.equal = e].b = f.b
         /\ [Past(f, i) EXCEPT !.equal = e].todo = f.todo \ {i}
         /\ [Past(f, i) EXCEPT !.equal = e].equal = e
BY DEF Past, Activation

\* Entering another activation on top of a changed one.
LEMMA PushEffect ==
  ASSUME NEW s \in Seq(Activation), NEW g \in Activation
  PROVE  /\ Append(s, g) \in Seq(Activation) /\ Len(Append(s, g)) = Len(s) + 1
         /\ Append(s, g)[Len(s) + 1] = g
         /\ \A n \in 1..Len(s) : Append(s, g)[n] = s[n]
OBVIOUS

\* Dropping the innermost activation.
LEMMA FrontEffect ==
  ASSUME Typed, Depth > 0
  PROVE  /\ Front(stack) \in Seq(Activation) /\ Len(Front(stack)) = Depth - 1
         /\ \A n \in 1..(Depth - 1) : Front(stack)[n] = stack[n]
<1>1. stack \in Seq(Activation) /\ Depth \in Nat /\ Depth = Len(stack)
  BY DEF Typed, Depth
<1> QED BY <1>1 DEF Front

\* OP_EQ starts a comparison, or settles it at once.
LEMMA OpEqEffect ==
  ASSUME Shape, OpEq
  PROVE  \/ Started(Right)
         \/ /\ Settled(Left, Right) /\ walk = "idle" /\ UNCHANGED <<heap, marked, walk, stack>>
            /\ answer' = Word(Verdict(Left, Right))
<1>1. Typed /\ walk = "idle" /\ Depth = 0 /\ heap' = heap
  BY DEF Shape, FromOperands, OpEq
<1>2. Left \in Obj /\ Right \in Obj /\ None \notin Obj
  BY ValuesAssumption
<1>3. CASE Settled(Left, Right)
  BY <1>1, <1>3 DEF OpEq
<1>4. CASE ~Settled(Left, Right)
  <2>1. /\ walk' = "eq" /\ answer' = "none" /\ marked' = marked \cup {Left, Right}
        /\ stack' = <<Frame(Left, Right)>>
    BY <1>4 DEF OpEq
  <2>2. heap[Left].kind = heap[Right].kind /\ Count(Left) = Count(Right) /\ Left # Right
    BY <1>2, <1>4 DEF Settled
  <2>3. stack' \in Seq(Activation) /\ Depth' = 1 /\ stack'[1] = Frame(Left, Right)
    BY <1>1, <1>2, <2>1, FrameTyped DEF Typed, Depth
  <2> QED BY <1>1, <1>2, <2>1, <2>2, <2>3 DEF Started
<1> QED BY <1>3, <1>4

\* OP_PRINT starts a printing.
LEMMA OpPrintEffect ==
  ASSUME Shape, OpPrint
  PROVE  Started(None)
<1>1. Typed /\ walk = "idle" /\ Depth = 0 /\ heap' = heap
  BY DEF Shape, FromOperands, OpPrint
<1>2. Left \in Obj /\ None \notin Obj
  BY ValuesAssumption
<1>3. /\ walk' = "print" /\ answer' = "whole" /\ marked' = marked \cup {Left}
      /\ stack' = <<Frame(Left, None)>>
  BY DEF OpPrint
<1>4. stack' \in Seq(Activation) /\ Depth' = 1 /\ stack'[1] = Frame(Left, None)
  BY <1>1, <1>2, <1>3, FrameTyped DEF Typed, Depth
<1> QED BY <1>1, <1>2, <1>3, <1>4 DEF Started

\* One turn of a comparison: settled without descent, or entered.
LEMMA CompareEffect ==
  ASSUME Shape, CompareItem
  PROVE  /\ walk = "eq" /\ Depth > 0 /\ Top.equal /\ answer' = answer
         /\ \E i \in Top.todo :
              LET v == heap[Top.a].items[i]
                  w == heap[Top.b].items[i]
              IN  \/ /\ Turned(i, i \in Positions(Top.b) /\ Verdict(v, w))
                     /\ i \notin Positions(Top.b) \/ Settled(v, w)
                  \/ Descended(i, v, w)
<1>1. Typed /\ walk = "eq" /\ Depth > 0 /\ Top.equal /\ UNCHANGED <<heap, walk, answer>>
  BY DEF Shape, FromOperands, CompareItem, Typed, Depth
<1>2. PICK i \in Visit(Top) :
        LET there == i \in Positions(Top.b)
            a == heap[Top.a].items[i]
            b == heap[Top.b].items[i]
            rest == Past(Top, i)
        IN  IF ~there \/ Settled(a, b)
            THEN /\ stack' = SetTop([rest EXCEPT !.equal = there /\ Verdict(a, b)])
                 /\ UNCHANGED marked
            ELSE /\ stack' = Append(SetTop(rest), Frame(a, b))
                 /\ marked' = marked \cup {a, b}
  BY DEF CompareItem
<1> DEFINE v == heap[Top.a].items[i]
           w == heap[Top.b].items[i]
           e == i \in Positions(Top.b) /\ Verdict(v, w)
           rest == Past(Top, i)
<1>3. i \in Top.todo
  BY DEF Visit
<1>4. Top \in Activation /\ Depth \in Nat /\ e \in BOOLEAN
  BY <1>1, TopTyped
<1>5. CASE i \notin Positions(Top.b) \/ Settled(v, w)
  <2>1. stack' = SetTop([rest EXCEPT !.equal = e]) /\ marked' = marked
    BY <1>2, <1>5
  <2> HIDE DEF e
  <2>2. [rest EXCEPT !.equal = e] \in Activation
    BY <1>4, PastTyped
  <2>3. /\ stack' \in Seq(Activation) /\ Depth' = Depth
        /\ stack'[Depth] = [rest EXCEPT !.equal = e] /\ Below1
    BY <1>1, <2>1, <2>2, SetTopEffect DEF Depth, Below1
  <2>4. /\ stack'[Depth].a = Top.a /\ stack'[Depth].b = Top.b
        /\ stack'[Depth].todo = Top.todo \ {i} /\ stack'[Depth].equal = e
    BY <1>4, <2>3, PastTyped
  <2>5. Turned(i, e)
    BY <1>1, <1>3, <2>1, <2>3, <2>4 DEF Turned
  <2> QED BY <1>1, <1>3, <1>5, <2>5 DEF e
<1>6. CASE ~(i \notin Positions(Top.b) \/ Settled(v, w))
  <2>1. /\ stack' = Append(SetTop(rest), Frame(v, w))
        /\ marked' = marked \cup {v, w}
    BY <1>2, <1>6
  <2>2. /\ v \in Obj \ marked /\ w \in Obj \ marked /\ v # w /\ i \in Positions(Top.b)
        /\ heap[v].kind = heap[w].kind /\ Count(v) = Count(w)
    BY <1>6 DEF Settled
  <2>3. rest \in Activation /\ Frame(v, w) \in Activation
    <3>1. rest \in Activation
      BY <1>4, PastFields
    <3> HIDE DEF v, w
    <3>2. Frame(v, w) \in Activation
      BY <1>1, <2>2, FrameTyped DEF Typed
    <3> QED BY <3>1, <3>2
  <2> DEFINE s == SetTop(rest)
             g == Frame(v, w)
  <2>4. /\ s \in Seq(Activation) /\ Len(s) = Depth /\ s[Depth] = rest
        /\ \A n \in 1..(Depth - 1) : s[n] = stack[n]
    BY <1>1, <2>3, SetTopEffect
  <2>5. stack' = Append(s, g) /\ g \in Activation
    BY <2>1, <2>3
  <2> HIDE DEF s, g
  <2>6. /\ stack' \in Seq(Activation) /\ Len(stack') = Len(s) + 1 /\ stack'[Len(s) + 1] = g
        /\ \A n \in 1..Len(s) : stack'[n] = s[n]
    BY <2>4, <2>5, PushEffect
  <2>7. /\ Depth' = Depth + 1 /\ stack'[Depth + 1] = g /\ stack'[Depth] = rest /\ Below1
    BY <1>1, <1>4, <2>4, <2>6 DEF Depth, Below1
  <2>8. /\ rest.a = Top.a /\ rest.b = Top.b /\ rest.todo = Top.todo \ {i} /\ rest.equal = Top.equal
    BY <1>4, PastFields
  <2>9. Descended(i, v, w)
    <3>1. g = Frame(v, w)
      BY DEF g
    <3> HIDE DEF v, w
    <3>2. /\ stack'[Depth].a = Top.a /\ stack'[Depth].b = Top.b
          /\ stack'[Depth].todo = Top.todo \ {i} /\ stack'[Depth + 1] = Frame(v, w)
      BY <2>7, <2>8, <3>1
    <3>3. stack'[Depth].equal
      BY <1>1, <1>3, <2>7, <2>8
    <3>4. marked' = marked \cup ({v, w} \ {None})
      BY <2>1, <2>2, ValuesAssumption
    <3>5. v = heap[Top.a].items[i] /\ w = heap[Top.b].items[i]
      BY DEF v, w
    <3>6. Depth > 0 /\ UNCHANGED <<heap, walk, answer>> /\ walk = "eq" /\ i \in Top.todo
      BY <1>1, <1>3
    <3> QED BY ONLY <2>2, <2>6, <2>7, <3>2, <3>3, <3>4, <3>5, <3>6 DEF Descended
  <2> QED BY <1>1, <1>3, <2>9
<1> QED BY <1>5, <1>6

\* One turn of printing: an atom or a marked object, or an object entered.
LEMMA PrintEffect ==
  ASSUME Shape, PrintItem
  PROVE  /\ walk = "print" /\ Depth > 0
         /\ \E i \in Top.todo :
              LET v == heap[Top.a].items[i]
              IN  \/ /\ Turned(i, Top.equal) /\ v \in Atom \cup marked
                     /\ answer' = IF v \in Obj THEN "elided" ELSE answer
                  \/ Descended(i, v, None)
<1>1. Typed /\ walk = "print" /\ Depth > 0 /\ UNCHANGED <<heap, walk>>
  BY DEF Shape, FromOperands, PrintItem, Typed, Depth
<1>2. PICK i \in Visit(Top) :
        LET v == heap[Top.a].items[i]
            rest == SetTop(Past(Top, i))
        IN  IF v \in Atom \cup marked
            THEN /\ stack' = rest
                 /\ answer' = IF v \in Obj THEN "elided" ELSE answer
                 /\ UNCHANGED marked
            ELSE /\ stack' = Append(rest, Frame(v, None))
                 /\ marked' = marked \cup {v}
                 /\ UNCHANGED answer
  BY DEF PrintItem
<1> DEFINE v == heap[Top.a].items[i]
           rest == Past(Top, i)
<1>3. i \in Top.todo
  BY DEF Visit
<1>4. Top \in Activation /\ Depth \in Nat /\ Top.equal \in BOOLEAN /\ v \in Value
  BY <1>1, <1>3, TopTyped, HeapObject DEF Typed
<1>5. /\ rest \in Activation /\ rest.a = Top.a /\ rest.b = Top.b
      /\ rest.todo = Top.todo \ {i} /\ rest.equal = Top.equal
  BY <1>4, PastFields
<1> DEFINE s == SetTop(rest)
<1>6. /\ s \in Seq(Activation) /\ Len(s) = Depth /\ s[Depth] = rest
      /\ \A n \in 1..(Depth - 1) : s[n] = stack[n]
  BY <1>1, <1>5, SetTopEffect
<1>7. CASE v \in Atom \cup marked
  <2>1. stack' = s /\ marked' = marked /\ answer' = IF v \in Obj THEN "elided" ELSE answer
    BY <1>2, <1>7
  <2>2. Turned(i, Top.equal)
    BY <1>1, <1>3, <1>5, <1>6, <2>1 DEF Turned, Depth, Below1
  <2> QED BY <1>1, <1>3, <1>7, <2>1, <2>2
<1>8. CASE v \notin Atom \cup marked
  <2>1. stack' = Append(s, Frame(v, None)) /\ marked' = marked \cup {v} /\ answer' = answer
    BY <1>2, <1>8
  <2>2. v \in Obj \ marked
    BY <1>4, <1>8 DEF Value
  <2> DEFINE g == Frame(v, None)
  <2>3. g \in Activation
    BY <1>1, <2>2, FrameTyped DEF Typed
  <2>4. stack' = Append(s, g)
    BY <2>1
  <2> HIDE DEF s, g
  <2>5. /\ stack' \in Seq(Activation) /\ Len(stack') = Len(s) + 1 /\ stack'[Len(s) + 1] = g
        /\ \A n \in 1..Len(s) : stack'[n] = s[n]
    BY <1>6, <2>3, <2>4, PushEffect
  <2>6. /\ Depth' = Depth + 1 /\ stack'[Depth + 1] = g /\ stack'[Depth] = rest /\ Below1
    BY <1>1, <1>4, <1>6, <2>5 DEF Depth, Below1
  <2>7. Top.equal
    BY <1>1, TopTyped DEF Shape, Paired
  <2>8. Descended(i, v, None)
    BY <1>1, <1>3, <1>5, <2>1, <2>2, <2>5, <2>6, <2>7, ValuesAssumption DEF Descended, g
  <2> QED BY <1>1, <1>3, <2>8
<1> QED BY <1>7, <1>8
-----------------------------------------------------------------------------
\* The end of value_equals: its answer, or the `equal` of its caller.
LEMMA ReturnEqualEffect ==
  ASSUME Shape, ReturnEqual
  PROVE  /\ walk = "eq" /\ Returned(Top.equal) /\ (Top.todo = {} \/ ~Top.equal)
         /\ answer' = IF Depth = 1 THEN Word(Top.equal) ELSE answer
<1>1. Typed /\ walk = "eq" /\ Depth > 0 /\ heap' = heap /\ (Top.todo = {} \/ ~Top.equal)
  BY DEF Shape, FromOperands, ReturnEqual, Typed, Depth
<1>2. PICK below : below = Front(stack)
  OBVIOUS
<1>3. /\ below \in Seq(Activation) /\ Len(below) = Depth - 1
      /\ \A n \in 1..(Depth - 1) : below[n] = stack[n]
  BY <1>1, <1>2, FrontEffect
<1>4. /\ marked' = marked \ Objects(Top)
      /\ IF below = <<>>
         THEN stack' = <<>> /\ walk' = "idle" /\ answer' = Word(Top.equal)
         ELSE /\ stack' = [below EXCEPT ![Len(below)].equal = Top.equal]
              /\ UNCHANGED <<walk, answer>>
  BY <1>2 DEF ReturnEqual, Unmarked
<1>5. Depth \in Nat /\ Top.equal \in BOOLEAN
  BY <1>1, TopTyped
<1>6. CASE Depth = 1
  <2>1. below = <<>>
    BY <1>3, <1>6
  <2>2. stack' \in Seq(Activation) /\ Depth' = 0
    BY <1>4, <2>1 DEF Depth
  <2> QED BY <1>1, <1>4, <1>5, <1>6, <2>1, <2>2 DEF Returned
<1>7. CASE Depth # 1
  <2>1. below # <<>> /\ Len(below) \in 1..Len(below) /\ Len(below) = Depth - 1
    BY <1>1, <1>3, <1>5, <1>7
  <2>2. PICK f \in Activation : f = below[Len(below)]
    BY <1>3, <2>1
  <2>3. PICK g : g = [f EXCEPT !.equal = Top.equal]
    OBVIOUS
  <2>4. /\ g \in Activation /\ g.a = f.a /\ g.b = f.b /\ g.todo = f.todo /\ g.equal = Top.equal
    BY <1>5, <2>3 DEF Activation
  <2>5. stack' = [below EXCEPT ![Len(below)] = g] /\ UNCHANGED <<walk, answer>>
    BY <1>4, <2>1, <2>2, <2>3
  <2>6. /\ stack' \in Seq(Activation) /\ Depth' = Depth - 1 /\ stack'[Depth - 1] = g
        /\ \A n \in 1..(Depth - 2) : stack'[n] = below[n]
    BY <1>3, <1>5, <2>1, <2>4, <2>5 DEF Depth
  <2>7. f = stack[Depth - 1] /\ \A n \in 1..(Depth - 2) : below[n] = stack[n]
    BY <1>3, <1>5, <2>1, <2>2
  <2> QED BY <1>1, <1>4, <1>5, <1>7, <2>4, <2>5, <2>6, <2>7 DEF Returned
<1> QED BY <1>6, <1>7

\* The end of append_value.
LEMMA ReturnPrintedEffect ==
  ASSUME Shape, ReturnPrinted
  PROVE  walk = "print" /\ Returned(TRUE) /\ Top.todo = {} /\ answer' = answer
<1>1. /\ Typed /\ walk = "print" /\ Depth > 0 /\ UNCHANGED <<heap, answer>> /\ Top.todo = {}
      /\ stack' = Front(stack) /\ marked' = marked \ Objects(Top)
      /\ walk' = IF stack' = <<>> THEN "idle" ELSE "print"
  BY DEF Shape, FromOperands, ReturnPrinted, Unmarked, Typed, Depth
<1>2. /\ stack' \in Seq(Activation) /\ Depth' = Depth - 1
      /\ \A n \in 1..(Depth - 1) : stack'[n] = stack[n]
  BY <1>1, FrontEffect DEF Depth
<1>3. Depth \in Nat
  BY <1>1, TopTyped
<1>4. stack' = <<>> <=> Depth = 1
  BY <1>2, <1>3 DEF Depth
<1>5. Depth > 1 => stack[Depth - 1].equal = TRUE
  <2>1. Depth > 1 => Depth - 1 \in 1..Depth
    BY <1>3
  <2>2. \A n \in 1..Depth : stack[n] \in Activation /\ stack[n].equal
    BY <1>1 DEF Shape, Paired, Typed, Depth
  <2> QED BY <2>1, <2>2 DEF Activation
<1> QED BY <1>1, <1>2, <1>3, <1>4, <1>5 DEF Returned
-----------------------------------------------------------------------------
(***************************************************************************)
(* The shape of the walk is kept                                           *)
(***************************************************************************)
\* Every activation of the stack is an activation on objects.
LEMMA EachTyped ==
  ASSUME Typed, NEW n \in 1..Depth
  PROVE  /\ stack[n] \in Activation /\ stack[n].a \in Obj /\ stack[n].b \in Obj \cup {None}
         /\ stack[n].todo \subseteq Positions(stack[n].a) /\ Depth \in Nat
         /\ Objects(stack[n]) = {stack[n].a, stack[n].b} \ {None}
<1>1. stack \in Seq(Activation) /\ Depth \in Nat /\ n \in 1..Len(stack)
  BY DEF Typed, Depth
<1>2. stack[n] \in Activation
  BY <1>1
<1>3. stack[n].a \in Obj /\ stack[n].b \in Obj \cup {None}
  BY <1>2 DEF Activation
<1> QED BY <1>1, <1>2, <1>3 DEF Typed, Objects

\* The first activation, on the operands.
LEMMA StartedKeepsShape ==
  ASSUME Shape, NEW b, Started(b)
  PROVE  Shape'
<1>1. Typed /\ Depth = 0 /\ stack' \in Seq(Activation) /\ Depth' = 1 /\ heap' = heap
  BY DEF Shape, Started
<1>2. Left \in Obj /\ Right \in Obj /\ None \notin Obj /\ b \in Obj \cup {None}
  BY ValuesAssumption DEF Started
<1>3. /\ stack'[1].a = Left /\ stack'[1].b = b /\ stack'[1].todo = Positions(Left)
      /\ stack'[1].equal
  BY <1>1, <1>2, FrameTyped DEF Started, Typed
<1>4. \A n \in 1..Depth' : n = 1
  BY <1>1
<1>5. Typed'
  BY <1>1, <1>2, <1>3, <1>4 DEF Typed, Started, Positions
<1>6. FromOperands'
  BY <1>1, <1>2, <1>3 DEF Started, FromOperands
<1>7. Paired'
  BY <1>1, <1>2, <1>3, <1>4 DEF Started, Paired, Count, Positions
<1>8. Separate'
  BY <1>1, <1>4 DEF Separate
<1>9. Nested'
  BY <1>1, <1>2, <1>3, <1>4, BelowSelf, HeapFixed DEF Nested, Started
<1>10. MarksBelongToWalk'
  <2>1. marked = {}
    <3>1. DOMAIN stack = {}
      BY <1>1 DEF Typed, Depth
    <3> QED BY <3>1 DEF Shape, MarksBelongToWalk
  <2>2. DOMAIN stack' = {1}
    BY <1>1 DEF Depth
  <2>3. Objects(stack'[1]) = {Left, b} \ {None}
    BY <1>3 DEF Objects
  <2> QED BY <2>1, <2>2, <2>3 DEF MarksBelongToWalk, Started
<1> QED BY <1>5, <1>6, <1>7, <1>8, <1>9, <1>10 DEF Shape

\* The marks, activation by activation.
Marks(s) == UNION {Objects(s[n]) : n \in 1..Len(s)}

\* The marks of a sequence of activations are those of its elements.
LEMMA MarksOfActivations ==
  ASSUME NEW s \in Seq(Activation)
  PROVE  UNION {Objects(s[n]) : n \in DOMAIN s} = Marks(s)
BY DEF Marks

\* A position passed.
LEMMA TurnedKeepsShape ==
  ASSUME Shape, NEW i, NEW e \in BOOLEAN, Turned(i, e), walk = "print" => e,
         answer' \in {answer, "elided"}
  PROVE  Shape'
<1>1. /\ Typed /\ Depth \in Nat /\ Depth > 0 /\ Depth' = Depth /\ stack' \in Seq(Activation)
      /\ UNCHANGED <<heap, walk, marked>>
  BY TopTyped DEF Shape, Turned
<1>2. \A n \in 1..Depth : n < Depth => stack'[n] = stack[n]
  BY <1>1 DEF Turned, Below1
<1>3. \A n \in 1..Depth : stack'[n].a = stack[n].a /\ stack'[n].b = stack[n].b
                          /\ stack'[n].todo \subseteq stack[n].todo
  BY <1>1, <1>2, TopTyped DEF Turned
<1>4. \A n \in 1..Depth : Objects(stack'[n]) = Objects(stack[n])
  BY <1>3 DEF Objects
<1>5. Typed'
  BY <1>1, <1>3 DEF Typed, Positions
<1>6. FromOperands'
  BY <1>1, <1>3 DEF Shape, FromOperands
<1>7. Paired'
  <2>1. /\ \A o : Count(o)' = Count(o)
        /\ \A n \in 1..Depth : stack'[n].equal = stack[n].equal \/ stack'[n].equal = e
    BY <1>1, <1>2, HeapFixed DEF Turned
  <2> QED BY <1>1, <1>3, <2>1 DEF Shape, Paired
<1>8. Separate'
  BY <1>1, <1>4 DEF Shape, Separate
<1>9. Nested'
  BY <1>1, <1>2, <1>3, HeapFixed DEF Shape, Nested
<1>10. MarksBelongToWalk'
  <2>1. Marks(stack') = Marks(stack)
    BY <1>1, <1>4 DEF Marks, Depth
  <2> QED BY <1>1, <2>1, MarksOfActivations DEF Shape, Typed, MarksBelongToWalk
<1> QED BY <1>5, <1>6, <1>7, <1>8, <1>9, <1>10 DEF Shape
-----------------------------------------------------------------------------
\* An object entered: it is unmarked, so no activation has it yet.
LEMMA DescendedKeepsShape ==
  ASSUME Shape, NEW i, NEW v, NEW w, Descended(i, v, w)
  PROVE  Shape'
<1>1. /\ Typed /\ Depth \in Nat /\ Depth > 0 /\ Depth' = Depth + 1 /\ stack' \in Seq(Activation)
      /\ UNCHANGED <<heap, walk, answer>> /\ None \notin Obj
      /\ Top = stack[Depth] /\ Depth \in 1..Depth /\ i \in Positions(Top.a)
      /\ Marks(stack) = marked
  BY TopTyped, MarksOfActivations, ValuesAssumption
     DEF Shape, Descended, MarksBelongToWalk, Typed
<1>2. \A n \in 1..Depth : n < Depth => stack'[n] = stack[n]
  BY <1>1 DEF Descended, Below1
<1>3. \A n \in 1..Depth : stack'[n].a = stack[n].a /\ stack'[n].b = stack[n].b
                          /\ stack'[n].todo \subseteq stack[n].todo
  BY <1>1, <1>2 DEF Descended
<1>4. v \in Obj \ marked /\ w \in (Obj \cup {None}) \ marked
  BY <1>1 DEF Descended, Typed
<1>5. /\ stack'[Depth + 1].a = v /\ stack'[Depth + 1].b = w
      /\ stack'[Depth + 1].todo = Positions(v) /\ stack'[Depth + 1].equal
  BY <1>1, <1>4, FrameTyped DEF Descended, Typed
<1>6. 1..Depth' = (1..Depth) \cup {Depth + 1} /\ Depth + 1 \notin 1..Depth
  BY <1>1
<1>7. /\ \A n \in 1..Depth : Objects(stack'[n]) = Objects(stack[n])
      /\ Objects(stack'[Depth + 1]) = {v, w} \ {None}
  BY <1>3, <1>5 DEF Objects
<1>8. \A n \in 1..Depth : Objects(stack[n]) \subseteq marked
  BY <1>1 DEF Marks, Depth
<1>9. Typed'
  <2>1. marked' \subseteq Obj
    BY <1>1, <1>4 DEF Typed, Descended
  <2>2. \A n \in 1..Depth' : stack'[n].todo \subseteq Positions(stack'[n].a)
    BY <1>1, <1>3, <1>5, <1>6 DEF Typed
  <2> QED BY <1>1, <2>1, <2>2 DEF Typed, Positions
<1>10. FromOperands'
  BY <1>1, <1>3 DEF Shape, FromOperands
<1>11. Paired'
  <2>1. \A o : Count(o)' = Count(o)
    BY <1>1, HeapFixed
  <2>2. \A n \in 1..Depth : stack'[n].equal = stack[n].equal \/ stack'[n].equal
    BY <1>1, <1>2 DEF Descended
  <2> QED BY <1>1, <1>3, <1>5, <1>6, <2>1, <2>2 DEF Shape, Paired, Descended
<1>12. Separate'
  <2>1. ({v, w} \ {None}) \cap marked = {}
    BY <1>4
  <2> QED BY <1>6, <1>7, <1>8, <2>1 DEF Shape, Separate
<1>13. Nested'
  <2>1. \A o : Below(o)' = Below(o)
    BY <1>1, HeapFixed
  <2>2. \A m \in 1..Depth : v \in Below(stack[m].a)
    <3>1. Holds(Top.a, v)
      BY <1>1 DEF Descended, Holds
    <3>2. \A m \in 1..Depth : Top.a \in Below(stack[m].a)
      BY <1>1 DEF Shape, Nested
    <3> QED BY <1>4, <3>1, <3>2, BelowStep
  <2>3. walk = "eq" => w \in Obj /\ \A m \in 1..Depth : w \in Below(stack[m].b)
    <3>1. walk = "eq" => w \in Obj /\ Holds(Top.b, w)
      BY <1>1 DEF Descended, Holds
    <3>2. walk = "eq" => \A m \in 1..Depth : Top.b \in Below(stack[m].b)
      BY <1>1 DEF Shape, Nested
    <3> QED BY <3>1, <3>2, BelowStep
  <2>4. v \in Below(v) /\ (walk = "eq" => w \in Below(w))
    BY <1>4, <2>3, BelowSelf
  <2>5. \A n \in 1..Depth : stack'[n].equal
    BY <1>1, <1>2 DEF Shape, Nested, Descended
  <2>6. ASSUME NEW m \in 1..Depth', NEW n \in 1..Depth', m <= n
        PROVE  /\ stack'[n].a \in Below(stack'[m].a)
               /\ walk = "eq" => stack'[n].b \in Below(stack'[m].b)
    <3>1. CASE n \in 1..Depth
      <4>1. m \in 1..Depth
        BY <1>1, <2>6, <3>1
      <4> QED BY <1>3, <2>6, <3>1, <4>1 DEF Shape, Nested
    <3>2. CASE n = Depth + 1 /\ m \in 1..Depth
      BY <1>3, <1>5, <2>2, <2>3, <3>2
    <3>3. CASE n = Depth + 1 /\ m = Depth + 1
      BY <1>5, <2>4, <3>3
    <3> QED BY <1>6, <3>1, <3>2, <3>3
  <2> QED BY <1>1, <2>1, <2>5, <2>6 DEF Nested
<1>14. MarksBelongToWalk'
  <2>1. Marks(stack') = Marks(stack) \cup ({v, w} \ {None})
    BY <1>1, <1>6, <1>7 DEF Marks, Depth
  <2> QED BY <1>1, <2>1, MarksOfActivations DEF MarksBelongToWalk, Descended
<1> QED BY <1>9, <1>10, <1>11, <1>12, <1>13, <1>14 DEF Shape

\* An activation ended: what it unmarks, no other activation has.
LEMMA ReturnedKeepsShape ==
  ASSUME Shape, NEW e, Returned(e), e \/ walk = "eq",
         answer' \in {answer, "equal", "different"}
  PROVE  Shape'
<1>1. /\ Typed /\ Depth \in Nat /\ Depth > 0 /\ Depth' = Depth - 1 /\ stack' \in Seq(Activation)
      /\ heap' = heap /\ Top = stack[Depth] /\ Depth \in 1..Depth
      /\ Marks(stack) = marked /\ walk # "idle"
  BY TopTyped, MarksOfActivations DEF Shape, Returned, MarksBelongToWalk, Typed, FromOperands
<1>2. \A n \in 1..Depth' : n \in 1..Depth /\ n < Depth /\ n <= Depth - 1
  BY <1>1
<1>3. \A n \in 1..Depth' : n < Depth - 1 => stack'[n] = stack[n]
  BY <1>1 DEF Returned
<1>4. \A n \in 1..Depth' : stack'[n].a = stack[n].a /\ stack'[n].b = stack[n].b
                          /\ stack'[n].todo = stack[n].todo
                          /\ (stack'[n].equal = stack[n].equal \/ stack'[n].equal = e)
  BY <1>1, <1>2, <1>3 DEF Returned
<1>5. \A n \in 1..Depth' : Objects(stack'[n]) = Objects(stack[n])
  BY <1>4 DEF Objects
<1>6. Typed'
  <2>1. \A n \in 1..Depth' : stack'[n].todo \subseteq Positions(stack'[n].a)
    BY <1>1, <1>2, <1>4 DEF Typed
  <2> QED BY <1>1, <2>1 DEF Typed, Positions, Returned
<1>7. FromOperands'
  BY <1>1, <1>2, <1>4 DEF Shape, FromOperands, Returned
<1>8. Paired'
  <2>1. \A o : Count(o)' = Count(o)
    BY <1>1, HeapFixed
  <2>2. Depth' > 0 => walk' = walk
    BY <1>1 DEF Returned
  <2>3. CASE Depth' = 0
    BY <2>3 DEF Paired
  <2>4. CASE Depth' > 0
    BY <1>1, <1>2, <1>4, <2>1, <2>2, <2>4 DEF Shape, Paired
  <2> QED BY <1>1, <2>3, <2>4
<1>9. Separate'
  BY <1>2, <1>5 DEF Shape, Separate
<1>10. Nested'
  <2>1. \A o : Below(o)' = Below(o)
    BY <1>1, HeapFixed
  <2>2. walk' = "eq" => walk = "eq"
    BY DEF Returned
  <2>3. \A n \in 1..(Depth' - 1) : n \in 1..Depth' /\ n < Depth - 1 /\ n \in 1..(Depth - 1)
    BY <1>1
  <2> QED BY <1>2, <1>3, <1>4, <2>1, <2>2, <2>3 DEF Shape, Nested
<1>11. MarksBelongToWalk'
  <2>1. 1..Depth = (1..Depth') \cup {Depth}
    BY <1>1
  <2>2. \A n \in 1..Depth' : Objects(stack[n]) \cap Objects(stack[Depth]) = {}
    <3>1. \A n \in 1..Depth' : n \in 1..Depth /\ n # Depth
      BY <1>1
    <3> QED BY <1>1, <3>1 DEF Shape, Separate
  <2>3. Marks(stack') = UNION {Objects(stack[n]) : n \in 1..Depth'}
    BY <1>5 DEF Marks, Depth
  <2>4. Marks(stack) = (UNION {Objects(stack[n]) : n \in 1..Depth'}) \cup Objects(stack[Depth])
    BY <2>1 DEF Marks, Depth
  <2>5. Marks(stack') = Marks(stack) \ Objects(Top)
    BY <1>1, <2>2, <2>3, <2>4
  <2> QED BY <1>1, <2>5, MarksOfActivations DEF MarksBelongToWalk, Returned
<1> QED BY <1>6, <1>7, <1>8, <1>9, <1>10, <1>11 DEF Shape

\* There is no activation at the start.
LEMMA ShapeInit ==
  ASSUME Init
  PROVE  Shape
<1>1. /\ heap \in [Obj -> Array \cup Map]
      /\ marked = {} /\ walk = "idle" /\ stack = <<>> /\ answer = "none"
  BY DEF Init
<1>2. Depth = 0 /\ stack \in Seq(Activation) /\ DOMAIN stack = {}
  BY <1>1 DEF Depth
<1> QED BY <1>1, <1>2 DEF Shape, Typed, FromOperands, Paired, Separate, Nested, MarksBelongToWalk

\* Only the answer changes.
LEMMA SameKeepsShape ==
  ASSUME Shape, UNCHANGED <<heap, marked, walk, stack>>,
         answer' \in {"none", "equal", "different", "whole", "elided"}
  PROVE  Shape'
<1>1. /\ \A o : Positions(o)' = Positions(o) /\ Count(o)' = Count(o) /\ Below(o)' = Below(o)
      /\ Depth' = Depth
  BY HeapFixed DEF Depth
<1>2. Typed' /\ FromOperands' /\ Paired'
  BY <1>1 DEF Shape, Typed, FromOperands, Paired
<1>3. Separate' /\ Nested' /\ MarksBelongToWalk'
  BY <1>1 DEF Shape, Separate, Nested, MarksBelongToWalk
<1> QED BY <1>2, <1>3 DEF Shape

\* Every step keeps the shape.
LEMMA ShapeStep ==
  ASSUME Shape, [Next]_vars
  PROVE  Shape'
<1>1. CASE OpEq
  <2>1. CASE Started(Right)
    BY <2>1, StartedKeepsShape
  <2>2. CASE UNCHANGED <<heap, marked, walk, stack>> /\ answer' = Word(Verdict(Left, Right))
    BY <2>2, SameKeepsShape DEF Word
  <2> QED BY <1>1, <2>1, <2>2, OpEqEffect
<1>2. CASE OpPrint
  BY <1>2, OpPrintEffect, StartedKeepsShape
<1>3. CASE CompareItem
  <2>1. /\ walk = "eq" /\ answer' = answer
        /\ \/ \E i, v, w : Turned(i, i \in Positions(Top.b) /\ Verdict(v, w))
           \/ \E i, v, w : Descended(i, v, w)
    BY <1>3, CompareEffect
  <2>2. ASSUME NEW i, NEW v, NEW w, Turned(i, i \in Positions(Top.b) /\ Verdict(v, w))
        PROVE  Shape'
    <3>1. PICK e \in BOOLEAN : e = (i \in Positions(Top.b) /\ Verdict(v, w))
      OBVIOUS
    <3>2. Turned(i, e)
      BY <2>2, <3>1
    <3> QED BY <2>1, <3>2, TurnedKeepsShape
  <2> QED BY <2>1, <2>2, DescendedKeepsShape
<1>4. CASE ReturnEqual
  <2>1. walk = "eq" /\ Returned(Top.equal) /\ answer' \in {answer, "equal", "different"}
    BY <1>4, ReturnEqualEffect DEF Word
  <2> QED BY <2>1, ReturnedKeepsShape
<1>5. CASE PrintItem
  <2>1. walk = "print" /\ Depth > 0 /\ Typed
    BY <1>5, PrintEffect DEF Shape
  <2>2. Top.equal = TRUE
    BY <2>1, TopTyped DEF Shape, Paired
  <2>3. \/ \E i : Turned(i, TRUE) /\ answer' \in {answer, "elided"}
        \/ \E i, v, w : Descended(i, v, w)
    BY <1>5, <2>2, PrintEffect
  <2> QED BY <2>3, TurnedKeepsShape, DescendedKeepsShape
<1>6. CASE ReturnPrinted
  BY <1>6, ReturnPrintedEffect, ReturnedKeepsShape
<1>7. CASE UNCHANGED vars
  BY <1>7, SameKeepsShape DEF vars, Shape, Typed
<1> QED BY <1>1, <1>2, <1>3, <1>4, <1>5, <1>6, <1>7 DEF Next, Step

\* The activations of a walk keep their shape.
THEOREM WalkShape == Spec => []Shape
BY ShapeInit, ShapeStep, PTL DEF Spec
-----------------------------------------------------------------------------
(***************************************************************************)
(* Comparison                                                              *)
(***************************************************************************)
\* A comparison settled without descent is right about what is the same.
LEMMA SettledSame ==
  ASSUME NEW v \in Obj, NEW w \in Obj, SameStructure(v, w), Settled(v, w)
  PROVE  Verdict(v, w)
<1>1. heap[v].kind = heap[w].kind /\ Positions(v) = Positions(w)
  BY SameUnfold DEF AlikeObjects
<1> QED BY <1>1 DEF Settled, Verdict, Count

\* So are its elements.
LEMMA ElementsSame ==
  ASSUME NEW o, NEW p, SameStructure(o, p), NEW i \in Positions(o)
  PROVE  /\ i \in Positions(p)
         /\ \/ heap[o].items[i] = heap[p].items[i]
            \/ /\ heap[o].items[i] \in Obj /\ heap[p].items[i] \in Obj
               /\ SameStructure(heap[o].items[i], heap[p].items[i])
BY SameUnfold DEF AlikeObjects, AlikeValues, Same

\* Below the operands is all that a comparison comes to.
LEMMA WithinOperands ==
  ASSUME Shape, NEW n \in 1..Depth
  PROVE  /\ stack[n].a \in Below(Left) /\ Top.a \in Below(stack[n].a)
         /\ walk = "eq" => stack[n].b \in Below(Right) /\ Top.b \in Below(stack[n].b)
<1>1. Typed /\ Depth \in Nat /\ Depth > 0 /\ 1 \in 1..Depth /\ 1 <= n /\ Depth \in 1..Depth /\ n <= Depth
  BY TopTyped DEF Shape, Typed, Depth
<1>2. Top = stack[Depth]
  BY <1>1, TopTyped
<1> QED BY <1>1, <1>2 DEF Shape, Nested, FromOperands

\* A mark is an object of some activation.
LEMMA MarkOfActivation ==
  ASSUME Shape, NEW o \in marked
  PROVE  \E n \in 1..Depth : o = stack[n].a \/ (walk = "eq" /\ o = stack[n].b)
<1>1. PICK n \in 1..Depth : o \in Objects(stack[n])
  <2>1. o \in Marks(stack)
    BY MarksOfActivations DEF Shape, Typed, MarksBelongToWalk
  <2> QED BY <2>1 DEF Marks, Depth
<1>2. o = stack[n].a \/ (o = stack[n].b /\ o # None)
  BY <1>1 DEF Objects
<1>3. walk \in {"eq", "print"}
  BY DEF Shape, Typed, FromOperands, Depth
<1> QED BY <1>2, <1>3 DEF Shape, Paired

\* Where operands are apart, a comparison meets no mark and no object that is
\* on both sides.
LEMMA NoMarkMet ==
  ASSUME Shape, walk = "eq", Apart, Depth > 0, NEW i, i \in Positions(Top.a), i \in Positions(Top.b)
  PROVE  /\ heap[Top.a].items[i] \notin marked /\ heap[Top.b].items[i] \notin marked
         /\ heap[Top.a].items[i] = heap[Top.b].items[i] => heap[Top.a].items[i] \notin Obj
<1>1. PICK v : v = heap[Top.a].items[i]
  OBVIOUS
<1>2. PICK w : w = heap[Top.b].items[i]
  OBVIOUS
<1>3. Left \in Obj /\ Right \in Obj
  BY ValuesAssumption
<1>4. Holds(Top.a, v) /\ Holds(Top.b, w)
  BY <1>1, <1>2 DEF Holds
<1>5. Top.a \in Below(Left) /\ Top.b \in Below(Right) /\ marked \subseteq Obj
  BY WithinOperands, TopTyped DEF Shape, Typed
<1>6. /\ v \in Obj => v \in Below(Left)
      /\ w \in Obj => w \in Below(Right)
  BY <1>4, <1>5, BelowStep
<1>7. ASSUME v \in marked PROVE FALSE
  <2>1. PICK n \in 1..Depth : v = stack[n].a \/ v = stack[n].b
    BY <1>7, MarkOfActivation
  <2>2. CASE v = stack[n].a
    <3>1. Top.a \in Below(v)
      BY <2>2, WithinOperands
    <3> QED BY <1>3, <1>4, <1>5, <1>7, <3>1, CycleClosed DEF Apart
  <2>3. CASE v = stack[n].b
    BY <1>5, <1>6, <1>7, <2>3, WithinOperands DEF Apart
  <2> QED BY <2>1, <2>2, <2>3
<1>8. ASSUME w \in marked PROVE FALSE
  <2>1. PICK n \in 1..Depth : w = stack[n].a \/ w = stack[n].b
    BY <1>8, MarkOfActivation
  <2>2. CASE w = stack[n].b
    <3>1. Top.b \in Below(w)
      BY <2>2, WithinOperands
    <3> QED BY <1>3, <1>4, <1>5, <1>8, <3>1, CycleClosed DEF Apart
  <2>3. CASE w = stack[n].a
    BY <1>5, <1>6, <1>8, <2>3, WithinOperands DEF Apart
  <2> QED BY <2>1, <2>2, <2>3
<1> QED BY <1>1, <1>2, <1>6, <1>7, <1>8 DEF Apart

\* An activation that has passed all its positions has compared two objects
\* of the same structure.
LEMMA TopSame ==
  ASSUME Shape, Alike, walk = "eq", Apart, Depth > 0, Top.equal, Top.todo = {}
  PROVE  SameStructure(Top.a, Top.b) /\ <<Top.a, Top.b>> \in Same
<1>1. /\ Top = stack[Depth] /\ Depth \in 1..Depth /\ Top.a \in Obj /\ Top.b \in Obj
      /\ heap[Top.a].kind = heap[Top.b].kind /\ Count(Top.a) = Count(Top.b)
      /\ heap \in [Obj -> Array \cup Map] /\ Depth \in Nat
  BY TopTyped DEF Shape, Typed, Paired
<1>2. \A i \in Positions(Top.a) :
         i \in Positions(Top.b) /\ AlikeValues(Same, heap[Top.a].items[i], heap[Top.b].items[i])
  BY <1>1 DEF Alike, Entered
<1>3. Positions(Top.a) = Positions(Top.b)
  BY <1>1, <1>2, SamePositions
<1>4. AlikeObjects(Same, Top.a, Top.b)
  BY <1>1, <1>2, <1>3 DEF AlikeObjects
<1> QED BY <1>1, <1>4, SameFold DEF Same

\* A comparison starts.
LEMMA StartedKeepsEq ==
  ASSUME IInv, Started(Right)
  PROVE  Agree' /\ NoFalseDifference' /\ Alike' /\ FoundSame'
<1>1. /\ Depth' = 1 /\ (walk' = "eq" \/ walk' = "print")
      /\ heap' = heap /\ Left \in Obj /\ Right \in Obj /\ heap \in [Obj -> Array \cup Map]
  BY ValuesAssumption DEF Started, IInv, Shape, Typed
<1>2. stack'[1].a = Left /\ stack'[1].b = Right /\ stack'[1].todo = Positions(Left) /\ stack'[1].equal
  BY <1>1, FrameTyped DEF Started
<1>3. Depth' = 1
  BY DEF Started
<1>4. (\A o : Positions(o)' = Positions(o)) /\ \A o, p : SameStructure(o, p)' = SameStructure(o, p)
  BY <1>1, HeapFixed
<1>5. Agree'
  BY <1>2, <1>3, <1>4 DEF Agree
<1>6. Alike'
  <2> SUFFICES ASSUME NEW n \in 1..Depth'
               PROVE  Positions(stack'[n].a) \ stack'[n].todo = {}
    BY <1>4 DEF Alike
  <2>1. n = 1
    BY <1>3
  <2> QED BY <1>2, <2>1
<1> QED BY <1>1, <1>5, <1>6 DEF NoFalseDifference, FoundSame, Compared

\* A comparison passes a position.
LEMMA TurnedKeepsEq ==
  ASSUME IInv, walk = "eq", Top.equal, answer' = answer, NEW i, NEW v, NEW w, NEW e \in BOOLEAN,
         v = heap[Top.a].items[i], w = heap[Top.b].items[i],
         e = (i \in Positions(Top.b) /\ Verdict(v, w)),
         i \notin Positions(Top.b) \/ Settled(v, w),
         Turned(i, e)
  PROVE  Agree' /\ NoFalseDifference' /\ Alike' /\ FoundSame'
<1>1. /\ Shape /\ Typed /\ Depth \in Nat /\ Depth > 0 /\ Depth' = Depth
      /\ UNCHANGED <<heap, walk, marked>> /\ Top = stack[Depth] /\ Depth \in 1..Depth
      /\ i \in Positions(Top.a)
  BY TopTyped DEF IInv, Shape, Turned
<1>2. \A n \in 1..Depth : n < Depth => stack'[n] = stack[n]
  BY <1>1 DEF Turned, Below1
<1>3. /\ \A n \in 1..Depth : stack'[n].a = stack[n].a /\ stack'[n].b = stack[n].b
      /\ stack'[Depth].todo = stack[Depth].todo \ {i} /\ stack'[Depth].equal = e
  BY <1>1, <1>2 DEF Turned
<1>4. /\ \A o : Positions(o)' = Positions(o)
      /\ \A o, p : SameStructure(o, p)' = SameStructure(o, p)
      /\ Same' = Same /\ Apart' = Apart
  BY <1>1, HeapFixed
<1>5. Agree'
  <2>1. ASSUME SameStructure(Left, Right) PROVE e
    <3>1. SameStructure(Top.a, Top.b)
      BY <1>1, <2>1 DEF IInv, Agree
    <3>2. i \in Positions(Top.b) /\ (v = w \/ (v \in Obj /\ w \in Obj /\ SameStructure(v, w)))
      BY <1>1, <3>1, ElementsSame
    <3> QED BY <3>2, SettledSame DEF Verdict
  <2> QED BY <1>1, <1>2, <1>3, <1>4, <2>1 DEF IInv, Agree
<1>6. Alike'
  <2> SUFFICES ASSUME Apart, NEW n \in 1..Depth, stack'[n].equal,
                      NEW j \in Positions(stack'[n].a) \ stack'[n].todo
               PROVE  /\ j \in Positions(stack'[n].b)
                      /\ \/ Entered(n, j)'
                         \/ AlikeValues(Same, heap[stack'[n].a].items[j], heap[stack'[n].b].items[j])
    BY <1>1, <1>4 DEF Alike, AlikeValues
  <2>1. CASE n < Depth
    <3>1. stack'[n] = stack[n] /\ n + 1 \in 1..Depth
      BY <1>1, <1>2, <2>1
    <3>2. Entered(n, j)' <=> Entered(n, j)
      BY <1>1, <1>3, <3>1 DEF Entered
    <3> QED BY <1>1, <3>1, <3>2 DEF IInv, Alike
  <2>2. CASE n = Depth /\ j # i
    <3>1. j \in Positions(Top.a) \ Top.todo /\ ~Entered(Depth, j)
      BY <1>1, <1>3, <2>2 DEF Entered
    <3>2. j \in Positions(Top.b) /\ AlikeValues(Same, heap[Top.a].items[j], heap[Top.b].items[j])
      BY <1>1, <3>1 DEF IInv, Alike
    <3> QED BY <1>1, <1>3, <2>2, <3>2
  <2>3. CASE n = Depth /\ j = i
    <3>1. i \in Positions(Top.b) /\ Verdict(v, w)
      BY <1>3, <2>3
    <3>2. v = w
      BY <1>1, <3>1, NoMarkMet DEF Verdict
    <3> QED BY <1>1, <1>3, <2>3, <3>1, <3>2 DEF AlikeValues
  <2> QED BY <1>1, <2>1, <2>2, <2>3
<1> QED BY <1>1, <1>5, <1>6 DEF NoFalseDifference, FoundSame, Compared

\* A comparison enters a pair of elements.
LEMMA DescendedKeepsEq ==
  ASSUME IInv, walk = "eq", Top.equal, NEW i, NEW v, NEW w, Descended(i, v, w)
  PROVE  Agree' /\ NoFalseDifference' /\ Alike' /\ FoundSame'
<1>1. /\ Shape /\ Typed /\ Depth \in Nat /\ Depth > 0 /\ Depth' = Depth + 1
      /\ UNCHANGED <<heap, walk, answer>> /\ Top = stack[Depth] /\ Depth \in 1..Depth
      /\ i \in Positions(Top.a) /\ i \in Positions(Top.b) /\ v # w /\ v \in Obj /\ w \in Obj
      /\ v = heap[Top.a].items[i] /\ w = heap[Top.b].items[i]
  BY TopTyped DEF IInv, Shape, Descended
<1>0. /\ \A n \in 1..(Depth - 1) : stack'[n] = stack[n]
      /\ stack'[Depth].a = Top.a /\ stack'[Depth].b = Top.b
      /\ stack'[Depth].todo = Top.todo \ {i} /\ stack'[Depth].equal
      /\ stack'[Depth + 1] = Frame(v, w)
  BY DEF Descended, Below1
<1>2. \A n \in 1..Depth : n < Depth => stack'[n] = stack[n]
  BY <1>0, <1>1
<1>3. /\ \A n \in 1..Depth : stack'[n].a = stack[n].a /\ stack'[n].b = stack[n].b
      /\ stack'[Depth].todo = stack[Depth].todo \ {i} /\ stack'[Depth].equal
  BY <1>0, <1>1, <1>2
<1>4. /\ stack'[Depth + 1].a = v /\ stack'[Depth + 1].b = w
      /\ stack'[Depth + 1].todo = Positions(v) /\ stack'[Depth + 1].equal
  <2>1. heap \in [Obj -> Array \cup Map] /\ v \in Obj /\ w \in Obj \cup {None}
    BY <1>1 DEF Typed
  <2>2. /\ Frame(v, w).a = v /\ Frame(v, w).b = w /\ Frame(v, w).todo = Positions(v)
        /\ Frame(v, w).equal
    BY <2>1, FrameTyped
  <2> QED BY <1>0, <2>2
<1>5. /\ \A o : Positions(o)' = Positions(o)
      /\ \A o, p : SameStructure(o, p)' = SameStructure(o, p)
      /\ Same' = Same /\ Apart' = Apart
  BY <1>1, HeapFixed
<1>6. \A n \in 1..Depth' : n \in 1..Depth \/ n = Depth + 1
  BY <1>1
<1>7. Agree'
  <2>1. ASSUME SameStructure(Left, Right) PROVE SameStructure(v, w)
    <3>1. SameStructure(Top.a, Top.b)
      BY <1>1, <2>1 DEF IInv, Agree
    <3> QED BY <1>1, <3>1, ElementsSame
  <2>2. \A n \in 1..Depth : stack'[n].equal = stack[n].equal \/ stack'[n].equal
    BY <1>1, <1>2, <1>3
  <2> QED BY <1>1, <1>3, <1>4, <1>5, <1>6, <2>1, <2>2 DEF IInv, Agree
<1>8. Alike'
  <2> SUFFICES ASSUME Apart, NEW n \in 1..Depth', stack'[n].equal,
                      NEW j \in Positions(stack'[n].a) \ stack'[n].todo
               PROVE  /\ j \in Positions(stack'[n].b)
                      /\ \/ Entered(n, j)'
                         \/ AlikeValues(Same, heap[stack'[n].a].items[j], heap[stack'[n].b].items[j])
    BY <1>1, <1>5 DEF Alike, AlikeValues
  <2>1. CASE n \in 1..Depth /\ n < Depth
    <3>1. stack'[n] = stack[n] /\ n + 1 \in 1..Depth
      BY <1>1, <1>2, <2>1
    <3>2. Entered(n, j)' <=> Entered(n, j)
      BY <1>1, <1>3, <3>1, <2>1 DEF Entered
    <3> QED BY <1>1, <2>1, <3>1, <3>2 DEF IInv, Alike
  <2>2. CASE n = Depth /\ j # i
    <3>1. j \in Positions(Top.a) \ Top.todo /\ ~Entered(Depth, j)
      BY <1>1, <1>3, <2>2 DEF Entered
    <3>2. j \in Positions(Top.b) /\ AlikeValues(Same, heap[Top.a].items[j], heap[Top.b].items[j])
      BY <1>1, <3>1 DEF IInv, Alike
    <3> QED BY <1>1, <1>3, <2>2, <3>2
  <2>3. CASE n = Depth /\ j = i
    <3>1. Entered(n, j)'
      BY <1>1, <1>3, <1>4, <2>3 DEF Entered
    <3> QED BY <1>1, <1>3, <2>3, <3>1
  <2>4. CASE n = Depth + 1
    BY <1>4, <2>4
  <2> QED BY <1>1, <1>6, <2>1, <2>2, <2>3, <2>4
<1> QED BY <1>1, <1>7, <1>8 DEF NoFalseDifference, FoundSame, Compared

\* A comparison of two objects ends.
LEMMA ReturnedKeepsEq ==
  ASSUME IInv, walk = "eq", Returned(Top.equal), Top.todo = {} \/ ~Top.equal,
         answer' = IF Depth = 1 THEN Word(Top.equal) ELSE answer
  PROVE  Agree' /\ NoFalseDifference' /\ Alike' /\ FoundSame'
<1>1. /\ Shape /\ Typed /\ Depth \in Nat /\ Depth > 0 /\ Depth' = Depth - 1 /\ heap' = heap
      /\ Top = stack[Depth] /\ Depth \in 1..Depth
      /\ walk' = IF Depth = 1 THEN "idle" ELSE "eq"
  BY TopTyped DEF IInv, Shape, Returned
<1>2. \A n \in 1..Depth' : n \in 1..Depth /\ n < Depth /\ n <= Depth - 1 /\ n + 1 \in 1..Depth
  BY <1>1
<1>3. \A n \in 1..Depth' : n < Depth - 1 => stack'[n] = stack[n]
  BY <1>1 DEF Returned
<1>4. \A n \in 1..Depth' :
         /\ stack'[n].a = stack[n].a /\ stack'[n].b = stack[n].b /\ stack'[n].todo = stack[n].todo
         /\ stack[n].equal
         /\ n = Depth - 1 => stack'[n].equal = Top.equal
  <2>1. \A n \in 1..(Depth - 1) : stack[n].equal
    BY <1>1 DEF Shape, Nested
  <2> QED BY <1>1, <1>2, <1>3, <2>1 DEF Returned
<1>5. /\ \A o : Positions(o)' = Positions(o)
      /\ \A o, p : SameStructure(o, p)' = SameStructure(o, p)
      /\ Same' = Same /\ Apart' = Apart
  BY <1>1, HeapFixed
<1>6. SameStructure(Left, Right) => Top.equal
  BY <1>1 DEF IInv, Agree
<1>7. Depth = 1 => Top.a = Left /\ Top.b = Right
  BY <1>1 DEF Shape, FromOperands
<1>8. Apart /\ Top.equal => SameStructure(Top.a, Top.b) /\ <<Top.a, Top.b>> \in Same
  BY <1>1, TopSame DEF IInv
<1>9. Agree'
  <2>1. \A n \in 1..Depth' : stack'[n].equal = stack[n].equal \/ stack'[n].equal = Top.equal
    BY <1>2, <1>3, <1>4, <1>1
  <2> QED BY <1>1, <1>2, <1>4, <1>5, <1>6, <2>1 DEF IInv, Agree
<1>10. Alike'
  <2> SUFFICES ASSUME Apart, NEW n \in 1..Depth', stack'[n].equal, Depth # 1,
                      NEW j \in Positions(stack'[n].a) \ stack'[n].todo
               PROVE  /\ j \in Positions(stack'[n].b)
                      /\ \/ Entered(n, j)'
                         \/ AlikeValues(Same, heap[stack'[n].a].items[j], heap[stack'[n].b].items[j])
    BY <1>1, <1>5 DEF Alike, AlikeValues
  <2>1. /\ j \in Positions(stack[n].a) \ stack[n].todo /\ n \in 1..Depth
        /\ stack'[n].a = stack[n].a /\ stack'[n].b = stack[n].b
    BY <1>2, <1>4
  <2>2. /\ j \in Positions(stack[n].b)
        /\ Entered(n, j) \/ AlikeValues(Same, heap[stack[n].a].items[j], heap[stack[n].b].items[j])
    BY <1>4, <2>1 DEF IInv, Alike
  <2>3. CASE n < Depth - 1
    <3>1. n + 1 \in 1..Depth' /\ n < Depth'
      BY <1>1, <2>1, <2>3
    <3>2. Entered(n, j)' <=> Entered(n, j)
      BY <1>1, <1>4, <2>1, <3>1 DEF Entered
    <3> QED BY <2>1, <2>2, <3>2
  <2>4. CASE n = Depth - 1
    <3>1. Top.equal /\ stack[n + 1] = Top
      BY <1>1, <1>4, <2>4
    <3>2. Entered(n, j) => AlikeValues(Same, heap[stack[n].a].items[j], heap[stack[n].b].items[j])
      BY <1>8, <3>1 DEF Entered, AlikeValues
    <3> QED BY <2>1, <2>2, <3>2
  <2> QED BY <1>1, <1>2, <2>3, <2>4
<1>11. NoFalseDifference' /\ FoundSame'
  <2>1. CASE Depth = 1
    <3>1. answer' = Word(Top.equal)
      BY <2>1
    <3> QED BY <1>5, <1>6, <1>7, <1>8, <2>1, <3>1 DEF NoFalseDifference, FoundSame, Compared, Word
  <2>2. CASE Depth # 1
    BY <1>1, <2>2 DEF NoFalseDifference, FoundSame, Compared
  <2> QED BY <2>1, <2>2
<1> QED BY <1>9, <1>10, <1>11
-----------------------------------------------------------------------------
(***************************************************************************)
(* Printing                                                                *)
(***************************************************************************)
\* An activation that has passed all its positions without an elision has
\* printed an object on no cycle.
LEMMA TopWhole ==
  ASSUME Shape, PrintedWhole, walk = "print", answer = "whole", Depth > 0, Top.todo = {}
  PROVE  ~Cyclic(Top.a)
<1>1. Top = stack[Depth] /\ Depth \in 1..Depth /\ Top.a \in Obj /\ Depth \in Nat
  BY TopTyped DEF Shape
<1>2. SUFFICES ASSUME Cyclic(Top.a) PROVE FALSE
  OBVIOUS
<1>3. PICK v \in Obj : Holds(Top.a, v) /\ Cyclic(v)
  BY <1>1, <1>2, CyclicUnfold
<1>4. PICK i \in Positions(Top.a) : heap[Top.a].items[i] = v
  BY <1>3 DEF Holds
<1>5. Entered(Depth, i) \/ v \in Atom \/ ~Cyclic(v)
  BY <1>1, <1>4 DEF PrintedWhole
<1>6. ~Entered(Depth, i)
  BY <1>1 DEF Entered
<1> QED BY <1>3, <1>5, <1>6, ValuesAssumption

\* Printing starts.
LEMMA StartedKeepsPrint ==
  ASSUME IInv, Started(None)
  PROVE  PrintedWhole' /\ FoundWhole' /\ Answering'
<1>1. /\ Depth' = 1 /\ walk' = "print" /\ answer' = "whole" /\ heap' = heap
      /\ Left \in Obj /\ heap \in [Obj -> Array \cup Map]
  BY ValuesAssumption DEF Started, IInv, Shape, Typed
<1>2. stack'[1].a = Left /\ stack'[1].todo = Positions(Left)
  BY <1>1, FrameTyped DEF Started
<1>3. \A o : Positions(o)' = Positions(o)
  BY <1>1, HeapFixed
<1>4. PrintedWhole'
  <2> SUFFICES ASSUME NEW n \in 1..Depth'
               PROVE  Positions(stack'[n].a) \ stack'[n].todo = {}
    BY <1>3 DEF PrintedWhole
  <2>1. n = 1
    BY <1>1
  <2> QED BY <1>2, <2>1
<1> QED BY <1>1, <1>4 DEF FoundWhole, Printed, Answering

\* An object is met again only on a cycle: the marked objects are those whose
\* printing is under way.
LEMMA MarkMetOnCycle ==
  ASSUME Shape, walk = "print", Depth > 0, NEW i \in Positions(Top.a), NEW v \in marked,
         v = heap[Top.a].items[i]
  PROVE  Cyclic(Left)
<1>1. PICK n \in 1..Depth : v = stack[n].a
  BY MarkOfActivation
<1>2. Top.a \in Below(Left) /\ Top.a \in Below(v) /\ v \in Obj
  <2>1. Depth \in 1..Depth /\ Top = stack[Depth]
    BY TopTyped DEF Shape
  <2> QED BY <1>1, <2>1, WithinOperands DEF Shape, Typed
<1>3. Holds(Top.a, v)
  BY DEF Holds
<1> QED BY <1>2, <1>3, CycleClosed, ValuesAssumption

\* Printing passes a position.
LEMMA TurnedKeepsPrint ==
  ASSUME IInv, walk = "print", NEW i, NEW v, v = heap[Top.a].items[i], v \in Atom \cup marked,
         answer' = IF v \in Obj THEN "elided" ELSE answer, Turned(i, Top.equal)
  PROVE  PrintedWhole' /\ FoundWhole' /\ Answering'
<1>1. /\ Shape /\ Typed /\ Depth \in Nat /\ Depth > 0 /\ Depth' = Depth
      /\ UNCHANGED <<heap, walk, marked>> /\ Top = stack[Depth] /\ Depth \in 1..Depth
      /\ i \in Positions(Top.a) /\ answer \in {"whole", "elided"}
      /\ answer = "elided" => Cyclic(Left)
  BY TopTyped DEF IInv, Shape, Turned, Answering
<1>2. \A n \in 1..Depth : n < Depth => stack'[n] = stack[n]
  BY <1>1 DEF Turned, Below1
<1>3. /\ \A n \in 1..Depth : stack'[n].a = stack[n].a
      /\ stack'[Depth].todo = stack[Depth].todo \ {i}
  BY <1>1, <1>2 DEF Turned
<1>4. (\A o : Positions(o)' = Positions(o)) /\ \A o : Cyclic(o)' = Cyclic(o)
  BY <1>1, HeapFixed
<1>5. Answering'
  <2>1. v \in Obj => Cyclic(Left)
    BY <1>1, ValuesAssumption, MarkMetOnCycle
  <2>2. Cyclic(Left)' = Cyclic(Left)
    BY <1>4
  <2> QED BY <1>1, <2>1, <2>2 DEF Answering
<1>6. PrintedWhole'
  <2> SUFFICES ASSUME v \notin Obj, answer = "whole", NEW n \in 1..Depth,
                      NEW j \in Positions(stack'[n].a) \ stack'[n].todo
               PROVE  \/ Entered(n, j)' \/ heap[stack'[n].a].items[j] \in Atom
                      \/ ~Cyclic(heap[stack'[n].a].items[j])
    BY <1>1, <1>4 DEF PrintedWhole
  <2>1. CASE n < Depth
    <3>1. stack'[n] = stack[n] /\ n + 1 \in 1..Depth
      BY <1>1, <1>2, <2>1
    <3>2. Entered(n, j)' <=> Entered(n, j)
      BY <1>1, <1>3, <3>1 DEF Entered
    <3> QED BY <1>1, <3>1, <3>2 DEF IInv, PrintedWhole
  <2>2. CASE n = Depth /\ j # i
    <3>1. j \in Positions(Top.a) \ Top.todo /\ ~Entered(Depth, j)
      BY <1>1, <1>3, <2>2 DEF Entered
    <3> QED BY <1>1, <1>3, <2>2, <3>1 DEF IInv, PrintedWhole
  <2>3. CASE n = Depth /\ j = i
    BY <1>1, <1>3, <2>3 DEF Typed
  <2> QED BY <1>1, <2>1, <2>2, <2>3
<1> QED BY <1>1, <1>5, <1>6 DEF FoundWhole, Printed

\* Printing enters an object.
LEMMA DescendedKeepsPrint ==
  ASSUME IInv, walk = "print", NEW i, NEW v, Descended(i, v, None)
  PROVE  PrintedWhole' /\ FoundWhole' /\ Answering'
<1>1. /\ Shape /\ Typed /\ Depth \in Nat /\ Depth > 0 /\ Depth' = Depth + 1
      /\ UNCHANGED <<heap, walk, answer>> /\ Top = stack[Depth] /\ Depth \in 1..Depth
      /\ v \in Obj /\ v = heap[Top.a].items[i] /\ heap \in [Obj -> Array \cup Map]
  BY TopTyped DEF IInv, Shape, Descended, Typed
<1>0. /\ \A n \in 1..(Depth - 1) : stack'[n] = stack[n]
      /\ stack'[Depth].a = Top.a /\ stack'[Depth].todo = Top.todo \ {i}
      /\ stack'[Depth + 1] = Frame(v, None)
  BY DEF Descended, Below1
<1>2. \A n \in 1..Depth : n < Depth => stack'[n] = stack[n]
  BY <1>0, <1>1
<1>3. \A n \in 1..Depth : stack'[n].a = stack[n].a
  BY <1>0, <1>1, <1>2
<1>4. stack'[Depth + 1].a = v /\ stack'[Depth + 1].todo = Positions(v)
  <2>1. Frame(v, None).a = v /\ Frame(v, None).todo = Positions(v)
    BY <1>1, FrameTyped
  <2> QED BY <1>0, <2>1
<1>5. (\A o : Positions(o)' = Positions(o)) /\ \A o : Cyclic(o)' = Cyclic(o)
  BY <1>1, HeapFixed
<1>6. \A n \in 1..Depth' : n \in 1..Depth \/ n = Depth + 1
  BY <1>1
<1>7. PrintedWhole'
  <2> SUFFICES ASSUME answer = "whole", NEW n \in 1..Depth',
                      NEW j \in Positions(stack'[n].a) \ stack'[n].todo
               PROVE  \/ Entered(n, j)' \/ heap[stack'[n].a].items[j] \in Atom
                      \/ ~Cyclic(heap[stack'[n].a].items[j])
    BY <1>1, <1>5 DEF PrintedWhole
  <2>1. CASE n \in 1..Depth /\ n < Depth
    <3>1. stack'[n] = stack[n] /\ n + 1 \in 1..Depth
      BY <1>1, <1>2, <2>1
    <3>2. Entered(n, j)' <=> Entered(n, j)
      BY <1>1, <1>3, <3>1, <2>1 DEF Entered
    <3> QED BY <1>1, <2>1, <3>1, <3>2 DEF IInv, PrintedWhole
  <2>2. CASE n = Depth /\ j # i
    <3>1. j \in Positions(Top.a) \ Top.todo /\ ~Entered(Depth, j)
      BY <1>0, <1>1, <2>2 DEF Entered
    <3> QED BY <1>1, <1>3, <2>2, <3>1 DEF IInv, PrintedWhole
  <2>3. CASE n = Depth /\ j = i
    <3>1. Entered(n, j)'
      BY <1>0, <1>1, <1>4, <2>3 DEF Entered
    <3> QED BY <3>1
  <2>4. CASE n = Depth + 1
    BY <1>4, <2>4
  <2> QED BY <1>1, <1>6, <2>1, <2>2, <2>3, <2>4
<1>8. Answering'
  <2>1. Cyclic(Left)' = Cyclic(Left)
    BY <1>5
  <2> QED BY <1>1, <2>1 DEF IInv, Answering
<1> QED BY <1>1, <1>7, <1>8 DEF FoundWhole, Printed

\* The printing of an object ends.
LEMMA ReturnedKeepsPrint ==
  ASSUME IInv, walk = "print", Returned(TRUE), Top.todo = {}, answer' = answer
  PROVE  PrintedWhole' /\ FoundWhole' /\ Answering'
<1>1. /\ Shape /\ Typed /\ Depth \in Nat /\ Depth > 0 /\ Depth' = Depth - 1 /\ heap' = heap
      /\ Top = stack[Depth] /\ Depth \in 1..Depth
      /\ walk' = IF Depth = 1 THEN "idle" ELSE "print"
  BY TopTyped DEF IInv, Shape, Returned
<1>2. \A n \in 1..Depth' : n \in 1..Depth /\ n < Depth /\ n <= Depth - 1 /\ n + 1 \in 1..Depth
  BY <1>1
<1>3. \A n \in 1..Depth' : n < Depth - 1 => stack'[n] = stack[n]
  BY <1>1 DEF Returned
<1>4. \A n \in 1..Depth' : stack'[n].a = stack[n].a /\ stack'[n].todo = stack[n].todo
  BY <1>1, <1>2, <1>3 DEF Returned
<1>5. (\A o : Positions(o)' = Positions(o)) /\ \A o : Cyclic(o)' = Cyclic(o)
  BY <1>1, HeapFixed
<1>6. answer = "whole" => ~Cyclic(Top.a)
  BY <1>1, TopWhole DEF IInv
<1>7. PrintedWhole'
  <2> SUFFICES ASSUME answer = "whole", NEW n \in 1..Depth',
                      NEW j \in Positions(stack'[n].a) \ stack'[n].todo
               PROVE  \/ Entered(n, j)' \/ heap[stack'[n].a].items[j] \in Atom
                      \/ ~Cyclic(heap[stack'[n].a].items[j])
    BY <1>1, <1>5 DEF PrintedWhole
  <2>1. j \in Positions(stack[n].a) \ stack[n].todo /\ n \in 1..Depth /\ stack'[n].a = stack[n].a
    BY <1>2, <1>4
  <2>2. \/ Entered(n, j) \/ heap[stack[n].a].items[j] \in Atom
        \/ ~Cyclic(heap[stack[n].a].items[j])
    BY <2>1 DEF IInv, PrintedWhole
  <2>3. CASE n < Depth - 1
    <3>1. n + 1 \in 1..Depth' /\ n < Depth'
      BY <1>1, <2>1, <2>3
    <3>2. walk # "eq" /\ walk' # "eq"
      BY <1>1
    <3>3. Entered(n, j)' <=> Entered(n, j)
      BY <1>1, <1>4, <2>1, <3>1, <3>2 DEF Entered
    <3> QED BY <2>1, <2>2, <3>3
  <2>4. CASE n = Depth - 1
    <3>1. stack[n + 1] = Top
      BY <1>1, <2>4
    <3> QED BY <1>6, <2>1, <2>2, <3>1 DEF Entered
  <2> QED BY <1>1, <1>2, <2>3, <2>4
<1>8. Depth = 1 => Top.a = Left
  BY <1>1 DEF Shape, FromOperands
<1>9. Cyclic(Left)' = Cyclic(Left)
  BY <1>5
<1>10. FoundWhole'
  BY <1>1, <1>6, <1>8, <1>9 DEF FoundWhole, Printed
<1>11. Answering'
  BY <1>1, <1>9 DEF IInv, Answering
<1> QED BY <1>7, <1>10, <1>11
-----------------------------------------------------------------------------
(***************************************************************************)
(* The invariant is inductive                                              *)
(***************************************************************************)
\* A comparison settled at once finds equal only what is the same object.
LEMMA SettledAtOnce ==
  ASSUME IInv, walk = "idle", Settled(Left, Right), UNCHANGED <<heap, marked, walk, stack>>,
         answer' = Word(Verdict(Left, Right))
  PROVE  /\ Agree' /\ NoFalseDifference' /\ Alike' /\ FoundSame'
         /\ PrintedWhole' /\ FoundWhole' /\ Answering'
<1>1. Left \in Obj /\ Right \in Obj /\ walk' = "idle" /\ answer' \in {"equal", "different"}
  BY ValuesAssumption DEF Word
<1>2. SameStructure(Left, Right)' = SameStructure(Left, Right)
  BY HeapFixed
<1>3. SameStructure(Left, Right) => Verdict(Left, Right)
  BY <1>1, SettledSame
<1>4. Verdict(Left, Right) => SameStructure(Left, Right)
  <2>1. marked = {}
    <3>1. Depth = 0 /\ stack \in Seq(Activation)
      BY DEF IInv, Shape, FromOperands, Typed
    <3>2. DOMAIN stack = {}
      BY <3>1 DEF Depth
    <3> QED BY <3>2 DEF IInv, Shape, MarksBelongToWalk
  <2> QED BY <1>1, <2>1, SameReflexive DEF Verdict
<1>5. Agree' /\ Alike' /\ PrintedWhole' /\ FoundWhole' /\ Answering'
  BY <1>1 DEF Agree, Alike, PrintedWhole, FoundWhole, Printed, Answering
<1>6. NoFalseDifference' /\ FoundSame'
  BY <1>2, <1>3, <1>4 DEF NoFalseDifference, FoundSame, Word
<1> QED BY <1>5, <1>6

\* A step of a comparison says nothing of what is printed ...
LEMMA ComparingKeepsPrint ==
  ASSUME walk' # "print", walk' = "eq" => answer' = "none", answer' \in {"none", "equal", "different"}
  PROVE  PrintedWhole' /\ FoundWhole' /\ Answering'
BY DEF PrintedWhole, FoundWhole, Printed, Answering

\* ... and one of printing nothing of what is equal.
LEMMA PrintingKeepsEq ==
  ASSUME walk' # "eq", answer' \in {"whole", "elided"}
  PROVE  Agree' /\ NoFalseDifference' /\ Alike' /\ FoundSame'
BY DEF Agree, Alike, NoFalseDifference, FoundSame, Compared

\* Nothing has been compared or printed at the start.
LEMMA InvariantInit ==
  ASSUME Init
  PROVE  IInv
<1>1. Shape
  BY ShapeInit
<1>2. walk = "idle" /\ answer = "none"
  BY DEF Init
<1> QED BY <1>1, <1>2 DEF IInv, Answering, Agree, NoFalseDifference, Alike, FoundSame, Compared,
                          PrintedWhole, FoundWhole, Printed

\* Every operation, turn of a loop and return keeps the invariant.
LEMMA InvariantStep ==
  ASSUME IInv, [Next]_vars
  PROVE  IInv'
<1>1. Shape /\ Shape'
  BY ShapeStep DEF IInv
<1>2. walk = "eq" => answer = "none"
  BY DEF IInv, Answering
<1>3. walk = "print" => answer \in {"whole", "elided"}
  BY DEF IInv, Answering
<1>4. SUFFICES /\ Agree' /\ NoFalseDifference' /\ Alike' /\ FoundSame'
               /\ PrintedWhole' /\ FoundWhole' /\ Answering'
  BY <1>1 DEF IInv
<1>5. CASE OpEq
  <2>1. CASE Started(Right)
    <3>1. Right # None
      BY ValuesAssumption
    <3>2. walk' = "eq" /\ answer' = "none"
      BY <2>1, <3>1 DEF Started
    <3> QED BY <2>1, <3>2, StartedKeepsEq, ComparingKeepsPrint
  <2>2. CASE /\ Settled(Left, Right) /\ walk = "idle" /\ UNCHANGED <<heap, marked, walk, stack>>
             /\ answer' = Word(Verdict(Left, Right))
    BY <2>2, SettledAtOnce
  <2> QED BY <1>1, <1>5, <2>1, <2>2, OpEqEffect
<1>6. CASE CompareItem
  <2>1. walk = "eq" /\ walk' = "eq" /\ answer' = answer /\ Top.equal
    BY <1>1, <1>6, CompareEffect DEF CompareItem
  <2>2. PICK i \in Top.todo :
          LET v == heap[Top.a].items[i]
              w == heap[Top.b].items[i]
          IN  \/ /\ Turned(i, i \in Positions(Top.b) /\ Verdict(v, w))
                 /\ i \notin Positions(Top.b) \/ Settled(v, w)
              \/ Descended(i, v, w)
    BY <1>1, <1>6, CompareEffect
  <2>3. PICK v, w : v = heap[Top.a].items[i] /\ w = heap[Top.b].items[i]
    OBVIOUS
  <2>4. PICK e \in BOOLEAN : e = (i \in Positions(Top.b) /\ Verdict(v, w))
    OBVIOUS
  <2>5. \/ Turned(i, e) /\ (i \notin Positions(Top.b) \/ Settled(v, w))
        \/ Descended(i, v, w)
    BY <2>2, <2>3, <2>4
  <2>6. Agree' /\ NoFalseDifference' /\ Alike' /\ FoundSame'
    BY <2>1, <2>3, <2>4, <2>5, TurnedKeepsEq, DescendedKeepsEq
  <2> QED BY <1>2, <2>1, <2>6, ComparingKeepsPrint
<1>7. CASE ReturnEqual
  <2>1. /\ walk = "eq" /\ Returned(Top.equal) /\ (Top.todo = {} \/ ~Top.equal)
        /\ answer' = IF Depth = 1 THEN Word(Top.equal) ELSE answer
    BY <1>1, <1>7, ReturnEqualEffect
  <2>2. walk' = IF Depth = 1 THEN "idle" ELSE "eq"
    BY <2>1 DEF Returned
  <2>3. Agree' /\ NoFalseDifference' /\ Alike' /\ FoundSame'
    BY <2>1, ReturnedKeepsEq
  <2>4. PrintedWhole' /\ FoundWhole' /\ Answering'
    BY <1>2, <2>1, <2>2, ComparingKeepsPrint DEF Word
  <2> QED BY <2>3, <2>4
<1>8. CASE OpPrint
  <2>1. Started(None) /\ walk' = "print" /\ answer' = "whole"
    BY <1>1, <1>8, OpPrintEffect DEF OpPrint
  <2> QED BY <2>1, StartedKeepsPrint, PrintingKeepsEq
<1>9. CASE PrintItem
  <2>1. walk = "print" /\ walk' = "print"
    BY <1>9 DEF PrintItem
  <2>2. PICK i \in Top.todo :
          LET v == heap[Top.a].items[i]
          IN  \/ /\ Turned(i, Top.equal) /\ v \in Atom \cup marked
                 /\ answer' = IF v \in Obj THEN "elided" ELSE answer
              \/ Descended(i, v, None)
    BY <1>1, <1>9, PrintEffect
  <2>3. PICK v : v = heap[Top.a].items[i]
    OBVIOUS
  <2>4. CASE /\ Turned(i, Top.equal) /\ v \in Atom \cup marked
             /\ answer' = IF v \in Obj THEN "elided" ELSE answer
    <3>1. PrintedWhole' /\ FoundWhole' /\ Answering'
      BY <2>1, <2>3, <2>4, TurnedKeepsPrint
    <3> QED BY <1>3, <2>1, <2>4, <3>1, PrintingKeepsEq
  <2>5. CASE Descended(i, v, None)
    <3>1. PrintedWhole' /\ FoundWhole' /\ Answering'
      BY <2>1, <2>5, DescendedKeepsPrint
    <3>2. answer' = answer
      BY <2>5 DEF Descended
    <3> QED BY <1>3, <2>1, <3>1, <3>2, PrintingKeepsEq
  <2> QED BY <2>2, <2>3, <2>4, <2>5
<1>10. CASE ReturnPrinted
  <2>1. walk = "print" /\ Returned(TRUE) /\ Top.todo = {} /\ answer' = answer
    BY <1>1, <1>10, ReturnPrintedEffect
  <2>2. walk' # "eq"
    BY <2>1 DEF Returned
  <2> QED BY <1>3, <2>1, <2>2, ReturnedKeepsPrint, PrintingKeepsEq
<1>11. CASE UNCHANGED vars
  <2>1. /\ UNCHANGED <<heap, marked, walk, stack, answer>> /\ Depth' = Depth
        /\ \A o : Positions(o)' = Positions(o)
        /\ \A o : Cyclic(o)' = Cyclic(o)
        /\ \A o, p : SameStructure(o, p)' = SameStructure(o, p)
        /\ Same' = Same /\ Apart' = Apart
    BY <1>11, HeapFixed DEF vars, Depth
  <2>2. Agree' /\ NoFalseDifference' /\ FoundSame'
    BY <2>1 DEF IInv, Agree, NoFalseDifference, FoundSame, Compared
  <2>3. Alike'
    BY <2>1 DEF IInv, Alike, Entered, AlikeValues
  <2>4. PrintedWhole'
    BY <2>1 DEF IInv, PrintedWhole, Entered
  <2>5. FoundWhole' /\ Answering'
    BY <2>1 DEF IInv, FoundWhole, Printed, Answering
  <2> QED BY <2>2, <2>3, <2>4, <2>5
<1> QED BY <1>5, <1>6, <1>7, <1>8, <1>9, <1>10, <1>11 DEF Next, Step

\* The walks keep the invariant.
THEOREM InvariantHolds == Spec => []IInv
BY InvariantInit, InvariantStep, PTL DEF Spec
-----------------------------------------------------------------------------
(***************************************************************************)
(* What follows                                                            *)
(***************************************************************************)
\* The walks keep their types: every activation is one on objects, with
\* positions of the object it visits still to come.
THEOREM TypeCorrect == Spec => []TypeOK
<1>1. IInv => TypeOK
  <2> SUFFICES ASSUME IInv PROVE TypeOK
    OBVIOUS
  <2>1. Typed /\ DOMAIN stack = 1..Depth
    BY DEF IInv, Shape, Typed, Depth
  <2>2. \A n \in 1..Depth : stack[n].equal \in BOOLEAN
    BY <2>1, EachTyped DEF Activation
  <2> QED BY <2>1, <2>2, EachTyped DEF TypeOK, Typed
<1> QED BY <1>1, InvariantHolds, PTL

\* No walk leaves a mark behind, whichever way it returns from its loops
\* (value.c:186, 205, 271, 295): the set of marks is that of the objects
\* whose activations are still on the C stack.
THEOREM MarksAreReturned == Spec => []MarksBelongToWalk
<1>1. IInv => MarksBelongToWalk
  BY DEF IInv, Shape
<1> QED BY <1>1, InvariantHolds, PTL

\* value_equals never calls two values of the same structure different, on
\* shared and cyclic heaps of any size.
THEOREM NeverFalselyDifferent == Spec => []NoFalseDifference
<1>1. IInv => NoFalseDifference
  BY DEF IInv
<1> QED BY <1>1, InvariantHolds, PTL

\* On operands that contain neither themselves nor a common object,
\* value_equals is exactly the comparison of structures.
THEOREM ExactOnApart == Spec => []ExactWhenApart
<1>1. IInv => ExactWhenApart
  BY DEF IInv, ExactWhenApart, NoFalseDifference, FoundSame, Compared, Apart, Word
<1> QED BY <1>1, InvariantHolds, PTL

\* append_value writes "[...]" or "{...}" exactly for values that contain
\* themselves: never for one that is merely shared, and a printing that
\* elided nothing has met no cycle.
THEOREM ElisionIsExact == Spec => []ElidesExactlyCycles
<1>1. IInv => ElidesExactlyCycles
  BY DEF IInv, ElidesExactlyCycles, Answering, FoundWhole, Printed
<1> QED BY <1>1, InvariantHolds, PTL
=============================================================================
