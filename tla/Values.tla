------------------------------- MODULE Values ------------------------------
(***************************************************************************)
(* The recursive walks over values of src/src/value.c: comparison          *)
(* (value_equals with array_equals and map_equals, reached from OP_EQ and  *)
(* OP_NEQ) and printing (append_value, reached from OP_PRINT and from      *)
(* value_to_owned_cstring).  A heap of arrays and maps may be shared and   *)
(* cyclic; both walks keep from running in circles with the same mark bit  *)
(* the collector uses.  One frame of `stack` is one C activation.  Numbers *)
(* and strings are atoms, equal when they are the same atom (NaN, which    *)
(* differs from itself, is left out).                                      *)
(***************************************************************************)
EXTENDS Integers, Sequences, FiniteSets, SequencesExt, FiniteSetsExt

CONSTANTS Obj, Atom,       \* heap objects; numbers, strings, booleans, nil
          Key,             \* keys of map entries
          MaxLen,          \* bound: elements of one array
          MaxCells,        \* bound: elements and entries of the whole heap
          Left, Right,     \* operands of the instruction; Left is printed
          None             \* no right-hand side

ASSUME ValuesAssumption ==
    /\ Obj \cap Atom = {} /\ {Left, Right} \subseteq Obj
    /\ MaxLen \in Nat /\ MaxCells \in Nat
    /\ None \notin Obj /\ IsFiniteSet(Key)

VARIABLES heap,    \* Obj -> what the object holds
          marked,  \* the objects whose obj.marked is set
          walk,    \* "idle", or the walk under way: "eq" or "print"
          stack,   \* its activations, innermost last
          answer   \* of the last walk: "equal" or "different"; "whole", or
                   \* "elided" when the text has a "[...]" or "{...}"

vars == <<heap, marked, walk, stack, answer>>

Value == Obj \cup Atom
Array == [kind : {"array"}, items : UNION {[1..n -> Value] : n \in 0..MaxLen}]
Map   == [kind : {"map"}, items : UNION {[ks -> Value] : ks \in SUBSET Key}]

Positions(o) == DOMAIN heap[o].items
Count(o) == Cardinality(Positions(o))

\* Mutant of Frame: the loop runs over the other map's entries.
FrameOfOther(a, b) == [a |-> a, b |-> b, equal |-> TRUE,
                       todo |-> Positions(IF b = None THEN a ELSE b)]

\* An activation of array_equals, map_equals (b is compared with a) or
\* append_value (b is None): the positions still to visit, and `equal`.
Frame(a, b) == [a |-> a, b |-> b, todo |-> Positions(a), equal |-> TRUE]
Objects(f) == {f.a, f.b} \ {None}

\* Arrays are visited in index order; the order of a map's slots depends on
\* the hashes and on the table's size, so every order is possible.
Visit(f) == IF heap[f.a].kind = "map" THEN f.todo
            ELSE {i \in f.todo : \A j \in f.todo : i <= j}


Past(f, i) == [f EXCEPT !.todo = @ \ {i}]

TypeOK ==
    /\ heap \in [Obj -> Array \cup Map]
    /\ marked \subseteq Obj
    /\ walk \in {"idle", "eq", "print"}
    /\ \A n \in DOMAIN stack :
          /\ stack[n].a \in Obj /\ stack[n].b \in Obj \cup {None}
          /\ stack[n].todo \subseteq Positions(stack[n].a)
          /\ stack[n].equal \in BOOLEAN
    /\ answer \in {"none", "equal", "different", "whole", "elided"}

Init == /\ heap \in {h \in [Obj -> Array \cup Map] :
                        MapThenSumSet(LAMBDA o : Cardinality(DOMAIN h[o].items), Obj)
                            <= MaxCells}
        /\ marked = {} /\ walk = "idle" /\ stack = <<>> /\ answer = "none"
-----------------------------------------------------------------------------
(* value_equals(a, b) *)

\* The comparison needs no descent: atoms, different types, the same object,
\* a marked object on either side, different counts.
Settled(a, b) ==
    \/ a \notin Obj \/ b \notin Obj
    \/ heap[a].kind # heap[b].kind
    \/ a = b \/ a \in marked \/ b \in marked
    \/ Count(a) # Count(b)

\* Mutant of Verdict: a marked object counts as different.
VerdictMarkDiffers(a, b) == a = b

\* ... and then this is its answer.
Verdict(a, b) ==
    \/ a = b
    \/ /\ a \in Obj /\ b \in Obj
       /\ heap[a].kind = heap[b].kind
       /\ a \in marked \/ b \in marked

Top == stack[Len(stack)]
SetTop(f) == [stack EXCEPT ![Len(stack)] = f]

Word(equal) == IF equal THEN "equal" ELSE "different"

\* OP_EQ and OP_NEQ.
OpEq ==
    /\ walk = "idle"
    /\ IF Settled(Left, Right)
       THEN /\ answer' = Word(Verdict(Left, Right))
            /\ UNCHANGED <<marked, walk, stack>>
       ELSE /\ walk' = "eq" /\ stack' = <<Frame(Left, Right)>>
            /\ marked' = marked \cup {Left, Right}
            /\ answer' = "none"
    /\ UNCHANGED heap

\* One turn of the loop: the element at i of both sides; a key the other map
\* does not have ends the loop.
CompareItem ==
    /\ walk = "eq" /\ Top.equal
    /\ \E i \in Visit(Top) :
         LET there == i \in Positions(Top.b)
             a == heap[Top.a].items[i]
             b == heap[Top.b].items[i]
             rest == Past(Top, i)
         IN  IF ~there \/ Settled(a, b)
             THEN /\ stack' = SetTop([rest EXCEPT !.equal = there /\ Verdict(a, b)])
                  /\ UNCHANGED marked
             ELSE /\ stack' = Append(SetTop(rest), Frame(a, b))
                  /\ marked' = marked \cup {a, b}
    /\ UNCHANGED <<heap, walk, answer>>

\* Mutant of Unmarked: only the left object is unmarked.
UnmarkedLeft(f) == marked \ {f.a}

\* Mutant of Unmarked: a difference returns from inside the loop.
UnmarkedIfEqual(f) == IF f.equal THEN marked \ Objects(f) ELSE marked

\* Mutant of Unmarked: what was printed stays marked.
UnmarkedIfCompared(f) == IF f.b = None THEN marked ELSE marked \ Objects(f)

Unmarked(f) == marked \ Objects(f)

\* The activation ends: both marks go, the caller's `equal` takes the answer.
ReturnEqual ==
    /\ walk = "eq" /\ (Top.todo = {} \/ ~Top.equal)
    /\ marked' = Unmarked(Top)
    /\ LET below == Front(stack) IN
       IF below = <<>>
       THEN stack' = <<>> /\ walk' = "idle" /\ answer' = Word(Top.equal)
       ELSE /\ stack' = [below EXCEPT ![Len(below)].equal = Top.equal]
            /\ UNCHANGED <<walk, answer>>
    /\ UNCHANGED heap
-----------------------------------------------------------------------------
(* append_value(v) *)

\* OP_PRINT, and value_to_owned_cstring for a concatenation.
OpPrint ==
    /\ walk = "idle"
    /\ walk' = "print" /\ stack' = <<Frame(Left, None)>>
    /\ marked' = marked \cup {Left}
    /\ answer' = "whole"
    /\ UNCHANGED heap

PrintItem ==
    /\ walk = "print"
    /\ \E i \in Visit(Top) :
         LET v == heap[Top.a].items[i]
             rest == SetTop(Past(Top, i))
         IN  IF v \in Atom \cup marked
             THEN /\ stack' = rest
                  /\ answer' = IF v \in Obj THEN "elided" ELSE answer
                  /\ UNCHANGED marked
             ELSE /\ stack' = Append(rest, Frame(v, None))
                  /\ marked' = marked \cup {v}
                  /\ UNCHANGED answer
    /\ UNCHANGED <<heap, walk>>

ReturnPrinted ==
    /\ walk = "print" /\ Top.todo = {}
    /\ marked' = Unmarked(Top)
    /\ stack' = Front(stack)
    /\ walk' = IF stack' = <<>> THEN "idle" ELSE "print"
    /\ UNCHANGED <<heap, answer>>

Step == CompareItem \/ ReturnEqual \/ PrintItem \/ ReturnPrinted
Next == OpEq \/ OpPrint \/ Step

Spec == Init /\ [][Next]_vars
\* The interpreter thread goes on until the instruction is done.
FairSpec == Spec /\ WF_vars(Step)
-----------------------------------------------------------------------------
(* What the two walks promise *)

Holds(o, p) == \E i \in Positions(o) : heap[o].items[i] = p

\* The objects that o leads to, itself included: the least closed set with o.
Closed(S) == \A p \in S, q \in Obj : Holds(p, q) => q \in S
Below(o) == {q \in Obj : \A S \in SUBSET Obj : o \in S /\ Closed(S) => q \in S}
Cyclic(o) == \E p \in Below(o) : \E q \in Obj : Holds(p, q) /\ p \in Below(q)

\* Two objects have the same structure when no path of keys and indices tells
\* them apart: some relation holds of them that every step inwards keeps.
AlikeValues(R, v, w) == v = w \/ <<v, w>> \in R
AlikeObjects(R, o, p) ==
    /\ heap[o].kind = heap[p].kind
    /\ Positions(o) = Positions(p)
    /\ \A i \in Positions(o) : AlikeValues(R, heap[o].items[i], heap[p].items[i])
SameStructure(o, p) ==
    \E R \in SUBSET (Obj \X Obj) :
        <<o, p>> \in R /\ \A r \in R : AlikeObjects(R, r[1], r[2])

Compared == walk = "idle" /\ answer \in {"equal", "different"}
Printed  == walk = "idle" /\ answer \in {"whole", "elided"}

(* Two values of the same structure, however they share or contain         *)
(* themselves, are never called different: value_equals, value.c:300.      *)
NoFalseDifference ==
    Compared /\ SameStructure(Left, Right) => answer = "equal"

(* When neither operand contains itself and the two share no object, the   *)
(* answer is exactly that of a comparison of structures: the marks a       *)
(* comparison leaves on its way (value.c:260, 278) do not reach the answer. *)
ExactWhenApart ==
    Compared /\ ~Cyclic(Left) /\ ~Cyclic(Right) /\ Below(Left) \cap Below(Right) = {}
        => answer = Word(SameStructure(Left, Right))

(* Every mark belongs to an activation on the stack, so a finished walk,   *)
(* whatever way it left its loops, leaves no mark to the collector or to   *)
(* the next walk (value.c:186, 205, 271, 295).                             *)
MarksBelongToWalk == marked = UNION {Objects(stack[n]) : n \in DOMAIN stack}

(* "[...]" and "{...}" are written exactly for values that contain         *)
(* themselves; an object reached twice by sharing alone is written out     *)
(* both times (value.c:178, 191).                                          *)
ElidesExactlyCycles ==
    Printed => (answer = "elided" <=> Cyclic(Left))

=============================================================================
