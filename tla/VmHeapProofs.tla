---------------------------- MODULE VmHeapProofs ---------------------------
(***************************************************************************)
(* Proofs about VmHeap, for any set of objects, any stack size and any     *)
(* thresholds: types, that nothing in use is freed, that nothing else      *)
(* survives a collection, and that the machine implements ManagedHeap, of  *)
(* which the last theorem says that its reachable objects exist.           *)
(***************************************************************************)
EXTENDS VmHeap, FiniteSetTheorems, TLAPS

Allocating == pc \in {"mark", "sweep", "new"}
Building   == pc = "fill"
TwoStage   == instr \in {"keys", "split"}

\* Between instructions no C variable holds anything.
IdleClean == ~Allocating /\ ~Building /\ pc # "exit" => NoInstr

\* What an instruction drops at its end is on the stack, or about to be.
ArgsOnStack ==
    Allocating \/ Building =>
       /\ instr # "none"
       /\ args <= Sp + (IF TwoStage /\ container = Nil THEN 1 ELSE 0)
       /\ instr \in {"array", "map"} => left <= args
       /\ Building => container # Nil
       /\ Allocating /\ container # Nil => TwoStage /\ left > 0

\* While a collection is possible, whatever the C code will touch is a root.
HeldRooted == Allocating \/ (Building /\ TwoStage) => Held \subseteq Roots

\* The mark walk: what is marked or waiting is registered, covers the roots,
\* and includes what marked objects refer to.
MarkFrontier ==
    /\ pc # "mark" => pending = {}
    /\ marked \subseteq objects
    /\ pc = "mark" => /\ pending \subseteq objects
                      /\ Roots \subseteq marked \cup pending
                      /\ \A o \in marked : Refs(o) \subseteq marked \cup pending

IInv == /\ TypeOK
        /\ IdleClean
        /\ ArgsOnStack
        /\ HeldRooted
        /\ MarksClear
        /\ MarkFrontier
        /\ NoDangling

\* Only what the program can reach is ever marked.
MarkedReachable == pc \in {"mark", "sweep"} => marked \cup pending \subseteq MH!Reach
-----------------------------------------------------------------------------
(***************************************************************************)
(* Operand stacks                                                          *)
(***************************************************************************)
\* The objects on a stack after a push.
LEMMA ObjsAppend ==
  ASSUME NEW s \in Seq(Value), NEW v \in Value
  PROVE  /\ Append(s, v) \in Seq(Value) /\ Len(Append(s, v)) = Len(s) + 1
         /\ Objs(Append(s, v)) = Objs(s) \cup ({v} \cap Obj)
<1>1. Append(s, v) \in Seq(Value) /\ Len(Append(s, v)) = Len(s) + 1
  OBVIOUS
<1>2. \A i \in 1..Len(s) : Append(s, v)[i] = s[i]
  OBVIOUS
<1>3. Append(s, v)[Len(s) + 1] = v
  OBVIOUS
<1>4. 1..(Len(s) + 1) = (1..Len(s)) \cup {Len(s) + 1}
  OBVIOUS
<1> QED BY <1>1, <1>2, <1>3, <1>4 DEF Objs

\* A prefix of a stack holds no object the stack does not hold.
LEMMA ObjsPrefix ==
  ASSUME NEW s \in Seq(Value), NEW n \in 0..Len(s)
  PROVE  /\ SubSeq(s, 1, n) \in Seq(Value) /\ Len(SubSeq(s, 1, n)) = n
         /\ Objs(SubSeq(s, 1, n)) \subseteq Objs(s)
         /\ \A i \in 1..n : SubSeq(s, 1, n)[i] = s[i]
<1>1. SubSeq(s, 1, n) \in Seq(Value) /\ Len(SubSeq(s, 1, n)) = n
  OBVIOUS
<1>2. \A i \in 1..n : SubSeq(s, 1, n)[i] = s[i] /\ i \in 1..Len(s)
  OBVIOUS
<1> QED BY <1>1, <1>2 DEF Objs

\* An object at a position of a stack is one of its objects.
LEMMA ObjsElement ==
  ASSUME NEW s \in Seq(Value), NEW i \in 1..Len(s)
  PROVE  s[i] \in Value /\ (s[i] \in Obj => s[i] \in Objs(s))
BY DEF Objs

\* Overwriting a position brings in no object but the new value.
LEMMA ObjsReplace ==
  ASSUME NEW s \in Seq(Value), NEW i \in 1..Len(s), NEW v \in Value
  PROVE  /\ [s EXCEPT ![i] = v] \in Seq(Value) /\ Len([s EXCEPT ![i] = v]) = Len(s)
         /\ Objs([s EXCEPT ![i] = v]) \subseteq Objs(s) \cup ({v} \cap Obj)
<1>1. [s EXCEPT ![i] = v] \in Seq(Value) /\ Len([s EXCEPT ![i] = v]) = Len(s)
  OBVIOUS
<1>2. \A j \in 1..Len(s) : [s EXCEPT ![i] = v][j] = IF j = i THEN v ELSE s[j]
  OBVIOUS
<1> QED BY <1>1, <1>2 DEF Objs

\* Padding with nil (OP_DEFINE_LOCAL) brings in no object.
LEMMA ObjsPadded ==
  ASSUME NEW s \in Seq(Value), NEW i \in Nat \ {0}
  PROVE  /\ Padded(s, i) \in Seq(Value)
         /\ Len(Padded(s, i)) = IF i > Len(s) THEN i ELSE Len(s)
         /\ Objs(Padded(s, i)) \subseteq Objs(s)
<1> DEFINE m == IF i > Len(s) THEN i ELSE Len(s)
<1>1. m \in Nat /\ Len(s) \in Nat /\ Len(s) <= m
  OBVIOUS
<1>2. Padded(s, i) = [j \in 1..m |-> IF j <= Len(s) THEN s[j] ELSE Nil]
  BY DEF Padded
<1>3. \A j \in 1..m : j <= Len(s) => j \in 1..Len(s) /\ s[j] \in Value
  BY <1>1
<1>4. \A j \in 1..m : (IF j <= Len(s) THEN s[j] ELSE Nil) \in Value
  BY <1>3 DEF Value
<1>5. Padded(s, i) \in Seq(Value) /\ Len(Padded(s, i)) = m
  BY <1>1, <1>2, <1>4
<1>6. \A j \in 1..m : Padded(s, i)[j] \in Obj => j \in 1..Len(s) /\ Padded(s, i)[j] = s[j]
  BY <1>1, <1>2, <1>3, GcAssumption
<1> QED BY <1>5, <1>6 DEF Objs

\* A push leaves a stack of values within its limit, with nothing new but v.
LEMMA PushEffect ==
  ASSUME NEW s \in Seq(Value), Len(s) <= StackMax, NEW v \in Value, PushOrFail(s, v)
  PROVE  /\ stack' \in Seq(Value) /\ Len(stack') <= StackMax
         /\ pc' \in {"run", "halted"}
         /\ Objs(stack') \subseteq Objs(s) \cup ({v} \cap Obj)
<1>1. CASE Len(s) < StackMax
  <2>1. stack' = Append(s, v) /\ pc' = "run"
    BY <1>1 DEF PushOrFail
  <2> QED BY <1>1, <2>1, ObjsAppend, VmAssumption
<1>2. CASE ~(Len(s) < StackMax)
  <2>1. stack' = <<>> /\ pc' = "halted"
    BY <1>2 DEF PushOrFail, Fail
  <2> QED BY <2>1, VmAssumption DEF Objs
<1> QED BY <1>1, <1>2
-----------------------------------------------------------------------------
(***************************************************************************)
(* What the instructions that do not allocate do                           *)
(***************************************************************************)
Typed == /\ stack \in Seq(Value) /\ Sp <= StackMax
         /\ globals \in [Global -> Value \cup {NoEntry}]

\* The thread stays outside the collector and drops, copies and moves only
\* references it had.
PlainEffect == /\ pc = "run" /\ pc' \in {"run", "halted"}
               /\ UNCHANGED <<objects, kind, cap, fields, bytes, collector, locals>>
               /\ Typed'
               /\ Roots' \subseteq Roots

\* Assigning a global brings in no object but the value assigned.
LEMMA GlobalsReplace ==
  ASSUME Typed, NEW g \in Global, NEW v \in Value, globals' = [globals EXCEPT ![g] = v]
  PROVE  /\ globals' \in [Global -> Value \cup {NoEntry}]
         /\ GlobalObjs' \subseteq GlobalObjs \cup ({v} \cap Obj)
BY DEF Typed, GlobalObjs

\* The value of a defined global is a value of the machine.
LEMMA GlobalValue ==
  ASSUME Typed, NEW g \in Global, globals[g] # NoEntry
  PROVE  globals[g] \in Value /\ (globals[g] \in Obj => globals[g] \in GlobalObjs)
BY DEF Typed, GlobalObjs

\* The common case: a prefix of the stack, with a value from the roots pushed.
LEMMA PushRootEffect ==
  ASSUME Typed, StackOnly, UNCHANGED globals,
         NEW n \in 0..Sp, NEW v \in Value, v \in Obj => v \in Roots,
         PushOrFail(SubSeq(stack, 1, n), v)
  PROVE  PlainEffect
<1>1. /\ SubSeq(stack, 1, n) \in Seq(Value) /\ Len(SubSeq(stack, 1, n)) = n
      /\ Objs(SubSeq(stack, 1, n)) \subseteq Objs(stack)
  BY ObjsPrefix DEF Typed, Sp
<1>2. n <= StackMax
  BY VmAssumption DEF Typed, Sp
<1>3. /\ stack' \in Seq(Value) /\ Len(stack') <= StackMax /\ pc' \in {"run", "halted"}
      /\ Objs(stack') \subseteq Objs(SubSeq(stack, 1, n)) \cup ({v} \cap Obj)
  BY <1>1, <1>2, PushEffect
<1>4. Roots' \subseteq Roots
  BY <1>1, <1>3 DEF Roots, GlobalObjs
<1> QED BY <1>3, <1>4 DEF PlainEffect, StackOnly, Typed, Sp

\* A sequence is its own longest prefix.
LEMMA WholePrefix ==
  ASSUME NEW s \in Seq(Value)
  PROVE  s = SubSeq(s, 1, Len(s))
OBVIOUS

\* The instructions that touch only stack and globals leave the heap alone
\* and move references from root to root.
LEMMA PlainHasEffect ==
  ASSUME Typed, Plain
  PROVE  PlainEffect
<1> Sp \in Nat /\ Sp \in 0..Sp /\ stack = SubSeq(stack, 1, Sp)
  BY WholePrefix DEF Typed, Sp
<1> Nil \in Value /\ Nil \notin Obj
  BY GcAssumption DEF Value
<1>1. ASSUME PushConst PROVE PlainEffect
  BY <1>1, PushRootEffect DEF PushConst
<1>2. ASSUME Pop PROVE PlainEffect
  <2>1. Sp - 1 \in 0..Sp
    BY <1>2 DEF Pop
  <2>2. stack' \in Seq(Value) /\ Len(stack') = Sp - 1 /\ Objs(stack') \subseteq Objs(stack)
    BY <1>2, <2>1, ObjsPrefix DEF Pop, Drop, Typed, Sp
  <2>3. Roots' \subseteq Roots
    BY <1>2, <2>2 DEF Pop, Roots, GlobalObjs
  <2> QED BY <1>2, <2>2, <2>3, VmAssumption DEF Pop, PlainEffect, StackOnly, Typed, Sp
<1>3. ASSUME RuntimeError PROVE PlainEffect
  <2>1. stack' = <<>> /\ pc' = "halted" /\ globals' = globals
    BY <1>3 DEF RuntimeError, Fail
  <2>2. Objs(stack') = {}
    BY <2>1 DEF Objs
  <2> QED BY <1>3, <2>1, <2>2, VmAssumption
          DEF RuntimeError, PlainEffect, StackOnly, Typed, Sp, Roots, GlobalObjs
<1>4. ASSUME Halt PROVE PlainEffect
  BY <1>4 DEF Halt, PlainEffect, StackOnly, Typed, Sp, Roots, GlobalObjs, Objs
<1>5. ASSUME NEW n \in 1..3, Consume(n) PROVE PlainEffect
  <2>1. Sp - n \in 0..Sp
    BY <1>5 DEF Consume
  <2> QED BY <1>5, <2>1, PushRootEffect DEF Consume, Drop
<1>6. ASSUME NEW i \in 1..Sp, GetLocal(i) PROVE PlainEffect
  <2>1. stack[i] \in Value /\ (stack[i] \in Obj => stack[i] \in Roots)
    BY ObjsElement DEF Typed, Sp, Roots
  <2> QED BY <1>6, <2>1, PushRootEffect DEF GetLocal
<1>7. ASSUME NEW i \in 1..Sp, SetLocal(i) PROVE PlainEffect
  <2>1. Top \in Value /\ (Top \in Obj => Top \in Objs(stack))
    BY ObjsElement DEF Typed, Sp, Top
  <2>2. /\ stack' \in Seq(Value) /\ Len(stack') = Sp
        /\ Objs(stack') \subseteq Objs(stack) \cup ({Top} \cap Obj)
    BY <1>7, <2>1, ObjsReplace DEF SetLocal, Typed, Sp
  <2>3. Roots' \subseteq Roots
    BY <1>7, <2>1, <2>2 DEF SetLocal, Roots, GlobalObjs
  <2> QED BY <1>7, <2>2, <2>3 DEF SetLocal, PlainEffect, StackOnly, Typed, Sp
<1>8. ASSUME NEW i \in 1..StackMax, DefineLocal(i) PROVE PlainEffect
  <2>1. Top \in Value /\ (Top \in Obj => Top \in Objs(stack))
    BY <1>8, ObjsElement DEF DefineLocal, Typed, Sp, Top
  <2>2. Sp - 1 \in 0..Sp
    BY <1>8 DEF DefineLocal
  <2>3. Drop(1) \in Seq(Value) /\ Len(Drop(1)) = Sp - 1 /\ Objs(Drop(1)) \subseteq Objs(stack)
    BY <2>2, ObjsPrefix DEF Drop, Typed, Sp
  <2>4. i \in Nat \ {0}
    OBVIOUS
  <2>5. /\ Padded(Drop(1), i) \in Seq(Value) /\ Objs(Padded(Drop(1), i)) \subseteq Objs(stack)
        /\ i \in 1..Len(Padded(Drop(1), i)) /\ Len(Padded(Drop(1), i)) <= StackMax
    BY <2>3, <2>4, ObjsPadded, VmAssumption DEF Typed, Sp
  <2>6. /\ stack' \in Seq(Value) /\ Len(stack') <= StackMax
        /\ Objs(stack') \subseteq Objs(Padded(Drop(1), i)) \cup ({Top} \cap Obj)
    BY <1>8, <2>1, <2>5, ObjsReplace DEF DefineLocal
  <2>7. Roots' \subseteq Roots
    BY <1>8, <2>1, <2>5, <2>6 DEF DefineLocal, Roots, GlobalObjs
  <2> QED BY <1>8, <2>6, <2>7 DEF DefineLocal, PlainEffect, StackOnly, Typed, Sp
<1>9. ASSUME NEW g \in Global, GetGlobal(g) PROVE PlainEffect
  <2>1. globals[g] \in Value /\ (globals[g] \in Obj => globals[g] \in Roots)
    BY <1>9, GlobalValue DEF GetGlobal, Roots
  <2> QED BY <1>9, <2>1, PushRootEffect DEF GetGlobal
<1>10. ASSUME NEW g \in Global, SetGlobal(g) PROVE PlainEffect
  <2>1. Top \in Value /\ (Top \in Obj => Top \in Objs(stack))
    BY <1>10, ObjsElement DEF SetGlobal, Typed, Sp, Top
  <2>2. /\ globals' \in [Global -> Value \cup {NoEntry}]
        /\ GlobalObjs' \subseteq GlobalObjs \cup ({Top} \cap Obj)
    BY <1>10, <2>1, GlobalsReplace DEF SetGlobal
  <2>3. Roots' \subseteq Roots
    BY <1>10, <2>1, <2>2 DEF SetGlobal, Roots
  <2> QED BY <1>10, <2>2, <2>3 DEF SetGlobal, PlainEffect, StackOnly, Typed, Sp
<1>11. ASSUME NEW g \in Global, DefineGlobal(g) PROVE PlainEffect
  <2>1. Top \in Value /\ (Top \in Obj => Top \in Objs(stack))
    BY <1>11, ObjsElement DEF DefineGlobal, Typed, Sp, Top
  <2>2. /\ globals' \in [Global -> Value \cup {NoEntry}]
        /\ GlobalObjs' \subseteq GlobalObjs \cup ({Top} \cap Obj)
    BY <1>11, <2>1, GlobalsReplace DEF DefineGlobal
  <2>3. Sp - 1 \in 0..Sp
    BY <1>11 DEF DefineGlobal
  <2>4. stack' \in Seq(Value) /\ Len(stack') = Sp - 1 /\ Objs(stack') \subseteq Objs(stack)
    BY <1>11, <2>3, ObjsPrefix DEF DefineGlobal, Drop, Typed, Sp
  <2>5. Roots' \subseteq Roots
    BY <2>1, <2>2, <2>4 DEF Roots
  <2> QED BY <1>11, <2>2, <2>4, <2>5, VmAssumption
          DEF DefineGlobal, PlainEffect, StackOnly, Typed, Sp
<1>12. ASSUME NEW n \in 0..StackMax, Unwind(n) PROVE PlainEffect
  <2>1. Top \in Value /\ (Top \in Obj => Top \in Roots)
    BY <1>12, ObjsElement DEF Unwind, Typed, Sp, Top, Roots
  <2>2. n \in 0..Sp
    BY <1>12 DEF Unwind
  <2> QED BY <1>12, <2>1, <2>2, PushRootEffect DEF Unwind
<1> QED BY <1>1, <1>2, <1>3, <1>4, <1>5, <1>6, <1>7, <1>8, <1>9, <1>10, <1>11, <1>12 DEF Plain
-----------------------------------------------------------------------------
(***************************************************************************)
(* What the instructions that use a container do                           *)
(***************************************************************************)
\* One cell of one object is overwritten.
LEMMA FieldWrite ==
  ASSUME GcTypeOK, NEW c \in Obj, NEW k, NEW v \in Value \cup {NoEntry},
         fields' = [fields EXCEPT ![c][k] = v]
  PROVE  /\ fields' \in [Obj -> [Slot -> Value \cup {NoEntry}]]
         /\ \A p \in Obj \ {c} : fields'[p] = fields[p]
         /\ Refs(c)' \subseteq Refs(c) \cup ({v} \cap Obj)
<1>1. fields \in [Obj -> [Slot -> Value \cup {NoEntry}]]
  BY DEF GcTypeOK
<1>2. fields' = [fields EXCEPT ![c] = [fields[c] EXCEPT ![k] = v]]
  OBVIOUS
<1>3. [fields[c] EXCEPT ![k] = v] \in [Slot -> Value \cup {NoEntry}]
  BY <1>1
<1>4. \A s \in Slot : fields'[c][s] = IF s = k THEN v ELSE fields[c][s]
  BY <1>1, <1>2
<1> QED BY <1>1, <1>2, <1>3, <1>4 DEF Refs

\* Both ways a container grows keep the counters natural and integer.
LEMMA Growth ==
  ASSUME GcTypeOK, NEW c \in Obj
  PROVE  /\ PushCap(c) \in Nat /\ SetCap(c) \in Nat
         /\ \A k : NewKeyBytes(c, k) \in Int
         /\ [cap EXCEPT ![c] = PushCap(c)] \in [Obj -> Nat]
         /\ [cap EXCEPT ![c] = SetCap(c)] \in [Obj -> Nat]
BY GcAssumption DEF GcTypeOK, PushCap, SetCap, NewKeyBytes

\* gc_array_push changes one array, and stores only the element given.
LEMMA ArrayPushEffect ==
  ASSUME GcTypeOK, NEW c \in Obj, NEW v \in Value, ArrayPush(c, v)
  PROVE  /\ fields' \in [Obj -> [Slot -> Value \cup {NoEntry}]]
         /\ cap' \in [Obj -> Nat] /\ bytes' \in Int
         /\ \A p \in Obj \ {c} : fields'[p] = fields[p]
         /\ Refs(c)' \subseteq Refs(c) \cup ({v} \cap Obj)
<1>1. fields' = [fields EXCEPT ![c][Count(c) + 1] = v]
  BY DEF ArrayPush
<1>2. cap' \in [Obj -> Nat] /\ bytes' \in Int
  BY Growth DEF ArrayPush, GcTypeOK
<1> QED BY <1>1, <1>2, FieldWrite

\* value_map_set changes one map, and stores only the value given.
LEMMA MapSetEffect ==
  ASSUME GcTypeOK, NEW c \in Obj, NEW k, NEW v \in Value, MapSet(c, k, v)
  PROVE  /\ fields' \in [Obj -> [Slot -> Value \cup {NoEntry}]]
         /\ cap' \in [Obj -> Nat] /\ bytes' \in Int
         /\ \A p \in Obj \ {c} : fields'[p] = fields[p]
         /\ Refs(c)' \subseteq Refs(c) \cup ({v} \cap Obj)
<1>1. fields' = [fields EXCEPT ![c][k] = v]
  BY DEF MapSet
<1>2. cap' \in [Obj -> Nat] /\ bytes' \in Int
  BY Growth DEF MapSet, GcTypeOK
<1> QED BY <1>1, <1>2, FieldWrite

\* At most one object changes, one the roots lead to; it receives references
\* from the roots, and the roots receive references from it.
ContainerEffect ==
    /\ pc = "run" /\ pc' \in {"run", "halted"}
    /\ UNCHANGED <<objects, kind, collector, locals>>
    /\ cap' \in [Obj -> Nat] /\ bytes' \in Int
    /\ fields' \in [Obj -> [Slot -> Value \cup {NoEntry}]]
    /\ Typed'
    /\ \E c \in objects \cap Roots :
         /\ \A p \in Obj \ {c} : fields'[p] = fields[p]
         /\ Refs(c)' \subseteq Refs(c) \cup Roots
         /\ Roots' \subseteq Roots \cup Refs(c)

\* Two operands replaced by a value that is a root or comes out of c.
LEMMA PushResultEffect ==
  ASSUME Typed, Sp >= 2, globals' = globals, NEW c, NEW v \in Value,
         v \in Obj => v \in Roots \cup Refs(c), PushOrFail(Drop(2), v)
  PROVE  Typed' /\ pc' \in {"run", "halted"} /\ Roots' \subseteq Roots \cup Refs(c)
<1>1. Sp - 2 \in 0..Len(stack)
  BY DEF Typed, Sp
<1>2. Drop(2) \in Seq(Value) /\ Len(Drop(2)) = Sp - 2 /\ Objs(Drop(2)) \subseteq Objs(stack)
  BY <1>1, ObjsPrefix DEF Drop, Typed
<1>3. Len(Drop(2)) <= StackMax
  BY <1>1, <1>2, VmAssumption DEF Typed, Sp
<1>4. /\ stack' \in Seq(Value) /\ Len(stack') <= StackMax /\ pc' \in {"run", "halted"}
      /\ Objs(stack') \subseteq Objs(Drop(2)) \cup ({v} \cap Obj)
  BY <1>2, <1>3, PushEffect
<1> QED BY <1>2, <1>4 DEF Typed, Sp, Roots, GlobalObjs

\* The two topmost stack values are values of the machine.
LEMMA TwoOperands ==
  ASSUME Typed, Sp >= 2
  PROVE  /\ Top \in Value /\ (Top \in Obj => Top \in Objs(stack))
         /\ stack[Sp - 1] \in Value /\ (stack[Sp - 1] \in Obj => stack[Sp - 1] \in Objs(stack))
<1>1. Sp \in 1..Len(stack) /\ Sp - 1 \in 1..Len(stack)
  BY DEF Typed, Sp
<1> QED BY <1>1, ObjsElement DEF Typed, Top

\* An indexed assignment writes a root into a container that is one.
LEMMA IndexSetEffect ==
  ASSUME TypeOK, Typed, NEW c, c \in Obj => c \in Roots, IndexSet(c)
  PROVE  ContainerEffect
<1>1. c \in objects /\ c \in Obj /\ c \in Roots /\ Sp >= 2
  BY DEF IndexSet, TypeOK, GcTypeOK
<1>2. Top \in Value /\ (Top \in Obj => Top \in Roots)
  BY <1>1, TwoOperands DEF Roots
<1>3. GcTypeOK
  BY DEF TypeOK
<1>4. /\ fields' \in [Obj -> [Slot -> Value \cup {NoEntry}]]
      /\ cap' \in [Obj -> Nat] /\ bytes' \in Int
      /\ \A p \in Obj \ {c} : fields'[p] = fields[p]
      /\ Refs(c)' \subseteq Refs(c) \cup ({Top} \cap Obj)
  <2>1. CASE \E k \in Slot : MapSet(c, k, Top)
    BY <1>1, <1>2, <1>3, <2>1, MapSetEffect
  <2>2. CASE /\ \E i \in Used(c) : fields' = [fields EXCEPT ![c][i] = Top]
             /\ UNCHANGED <<cap, bytes>>
    BY <1>1, <1>2, <1>3, <2>2, FieldWrite DEF GcTypeOK
  <2> QED BY <2>1, <2>2 DEF IndexSet
<1>5. /\ pc = "run" /\ UNCHANGED <<objects, kind, collector, locals, globals>>
      /\ PushOrFail(Drop(2), Top)
  BY DEF IndexSet, Store
<1>6. Typed' /\ pc' \in {"run", "halted"} /\ Roots' \subseteq Roots \cup Refs(c)
  BY <1>1, <1>2, <1>5, PushResultEffect
<1> QED BY <1>1, <1>2, <1>4, <1>5, <1>6 DEF ContainerEffect

\* The instructions on containers write at most one object in use.
LEMMA ContainersHaveEffect ==
  ASSUME TypeOK, Typed, Containers
  PROVE  ContainerEffect
<1> GcTypeOK /\ objects \subseteq Obj
  BY DEF TypeOK, GcTypeOK
<1> USE DEF Value
<1>1. ASSUME IndexGet PROVE ContainerEffect
  <2> PICK c : c = stack[Sp - 1]
    OBVIOUS
  <2>1. c \in objects /\ c \in Roots /\ Sp >= 2
    BY <1>1, TwoOperands DEF IndexGet, Roots
  <2>2. PICK v \in Value : (v \in Obj => v \in Refs(c)) /\ PushOrFail(Drop(2), v)
    <3>1. \A k \in Used(c) : /\ k \in Slot
                             /\ fields[c][k] \in Value
                             /\ fields[c][k] \in Obj => fields[c][k] \in Refs(c)
      BY <2>1 DEF Used, Refs, GcTypeOK
    <3> QED BY <1>1, <3>1, GcAssumption DEF IndexGet
  <2>3. /\ pc = "run" /\ UNCHANGED <<objects, kind, cap, fields, bytes, collector, locals, globals>>
    BY <1>1 DEF IndexGet, StackOnly
  <2>4. Typed' /\ pc' \in {"run", "halted"} /\ Roots' \subseteq Roots \cup Refs(c)
    BY <2>1, <2>2, <2>3, PushResultEffect
  <2>5. Refs(c)' = Refs(c)
    BY <2>3 DEF Refs
  <2> QED BY <2>1, <2>3, <2>4, <2>5 DEF ContainerEffect, GcTypeOK
<1>2. ASSUME Push PROVE ContainerEffect
  <2> PICK c : c = stack[Sp - 1]
    OBVIOUS
  <2>1. c \in objects /\ c \in Roots /\ c \in Value /\ Sp >= 2 /\ Top \in Value /\ (Top \in Obj => Top \in Roots)
    BY <1>2, TwoOperands DEF Push, Roots
  <2>2. /\ pc = "run" /\ UNCHANGED <<objects, kind, collector, locals, globals>>
        /\ ArrayPush(c, Top) /\ PushOrFail(Drop(2), c)
    BY <1>2 DEF Push, Store
  <2>3. Typed' /\ pc' \in {"run", "halted"} /\ Roots' \subseteq Roots \cup Refs(c)
    BY <2>1, <2>2, PushResultEffect
  <2>4. /\ fields' \in [Obj -> [Slot -> Value \cup {NoEntry}]]
        /\ cap' \in [Obj -> Nat] /\ bytes' \in Int
        /\ \A p \in Obj \ {c} : fields'[p] = fields[p]
        /\ Refs(c)' \subseteq Refs(c) \cup ({Top} \cap Obj)
    BY <2>1, <2>2, ArrayPushEffect
  <2> QED BY <2>1, <2>2, <2>3, <2>4 DEF ContainerEffect
<1>3. ASSUME Delete PROVE ContainerEffect
  <2> PICK c : c = stack[Sp - 1]
    OBVIOUS
  <2>1. c \in objects /\ c \in Roots /\ Sp >= 2
    BY <1>3, TwoOperands DEF Delete, Roots
  <2>2. /\ pc = "run" /\ UNCHANGED <<objects, kind, cap, bytes, collector, locals, globals>>
        /\ PushOrFail(Drop(2), Nil)
        /\ \E k \in Slot : fields' = [fields EXCEPT ![c][k] = NoEntry]
    BY <1>3 DEF Delete, Store, MapDelete
  <2>3. Typed' /\ pc' \in {"run", "halted"} /\ Roots' \subseteq Roots \cup Refs(c)
    BY <2>1, <2>2, PushResultEffect, GcAssumption
  <2>4. /\ fields' \in [Obj -> [Slot -> Value \cup {NoEntry}]]
        /\ \A p \in Obj \ {c} : fields'[p] = fields[p]
        /\ Refs(c)' \subseteq Refs(c)
    <3>1. PICK k \in Slot : fields' = [fields EXCEPT ![c][k] = NoEntry]
      BY <2>2
    <3>2. c \in Obj /\ NoEntry \in Value \cup {NoEntry} /\ {NoEntry} \cap Obj = {}
      BY <2>1, GcAssumption
    <3>3. /\ fields' \in [Obj -> [Slot -> Value \cup {NoEntry}]]
          /\ \A p \in Obj \ {c} : fields'[p] = fields[p]
          /\ Refs(c)' \subseteq Refs(c) \cup ({NoEntry} \cap Obj)
      BY <3>1, <3>2, FieldWrite
    <3> QED BY <3>2, <3>3
  <2> QED BY <2>1, <2>2, <2>3, <2>4 DEF ContainerEffect, GcTypeOK
<1>4. ASSUME NEW i \in 1..Sp, IndexSetLocal(i) PROVE ContainerEffect
  <2>1. stack[i] \in Obj => stack[i] \in Roots
    BY ObjsElement DEF Typed, Sp, Roots
  <2>2. PICK c : c = stack[i]
    OBVIOUS
  <2> QED BY <1>4, <2>1, <2>2, IndexSetEffect DEF IndexSetLocal
<1>5. ASSUME NEW g \in Global, IndexSetGlobal(g) PROVE ContainerEffect
  <2>1. globals[g] \in Obj => globals[g] \in Roots
    BY DEF Roots, GlobalObjs
  <2>2. PICK c : c = globals[g]
    OBVIOUS
  <2> QED BY <1>5, <2>1, <2>2, IndexSetEffect DEF IndexSetGlobal
<1> QED BY <1>1, <1>2, <1>3, <1>4, <1>5 DEF Containers
-----------------------------------------------------------------------------
(***************************************************************************)
(* How the instructions that allocate begin                                *)
(***************************************************************************)
\* An object has finitely many elements.
LEMMA CountIsNat ==
  ASSUME NEW o
  PROVE  Count(o) \in Nat
<1>1. IsFiniteSet(Slot)
  BY FS_Interval, GcAssumption DEF Slot
<1>2. Used(o) \subseteq Slot
  BY DEF Used
<1> QED BY <1>1, <1>2, FS_Subset, FS_CardinalityType DEF Count

\* Everything the instruction will read again stays among the roots, and a
\* collection it starts marks from all of them.
BeginEffect ==
    /\ pc = "run"
    /\ \/ pc' = "mark" /\ pending' = Roots'
       \/ pc' = "new" /\ pending' = pending
    /\ UNCHANGED <<objects, kind, cap, fields, marked, bytes, threshold, container>>
    /\ Typed'
    /\ Roots' \subseteq Roots
    /\ instr' \in Instr \ {"none"}
    /\ args' \in Nat /\ left' \in Nat
    /\ args' <= Len(stack') + (IF instr' \in {"keys", "split"} THEN 1 ELSE 0)
    /\ instr' \in {"array", "map"} => left' <= args'
    /\ held' \subseteq Obj /\ held' \subseteq Roots'

\* An instruction that allocates first decides whether to collect, and from
\* which roots; it changes no object.
LEMMA BeginHasEffect ==
  ASSUME Typed, NEW s \in Seq(Value), Len(s) <= StackMax, Objs(s) \subseteq Objs(stack),
         NEW k \in Instr \ {"none"}, NEW n \in Nat, NEW m \in Nat,
         n <= Len(s) + (IF k \in {"keys", "split"} THEN 1 ELSE 0),
         k \in {"array", "map"} => m <= n,
         NEW h, h \subseteq Objs(s),
         Begin(k, s, n, m, h)
  PROVE  BeginEffect
<1>3. /\ pc = "run" /\ stack' = s /\ UNCHANGED <<container, globals>>
      /\ MaybeCollect(Objs(s) \cup GlobalObjs)
      /\ instr' = k /\ args' = n /\ left' = m /\ held' = h
  BY DEF Begin
<1>4. Roots' = Objs(s) \cup GlobalObjs
  BY <1>3 DEF Roots, GlobalObjs
<1>6. h \subseteq Objs(s) /\ h \subseteq Obj
  BY DEF Objs
<1>8. /\ UNCHANGED <<objects, kind, cap, fields, marked, bytes, threshold>>
      /\ \/ pc' = "mark" /\ pending' = Objs(s) \cup GlobalObjs
         \/ pc' = "new" /\ pending' = pending
  BY <1>3 DEF MaybeCollect
<1>9. Typed'
  BY <1>3 DEF Typed, Sp
<1>10. Roots' \subseteq Roots
  BY <1>4 DEF Roots
<1> QED BY <1>3, <1>4, <1>6, <1>8, <1>9, <1>10 DEF BeginEffect

\* The operands of an instruction are roots while they stay on the stack.
LEMMA OperandsOnStack ==
  ASSUME Typed, NEW n \in Nat, n <= Sp
  PROVE  Operands(n) \subseteq Objs(stack)
BY DEF Operands, Objs, Typed, Sp

\* Whatever such an instruction reads later through C pointers is on the
\* stack it collects from.
LEMMA AllocatesHaveEffect ==
  ASSUME TypeOK, Typed, Allocates
  PROVE  BeginEffect
<1> stack \in Seq(Value) /\ Len(stack) <= StackMax /\ Sp = Len(stack) /\ Sp \in Nat
  BY DEF Typed, Sp
<1> USE DEF Instr
<1>1. ASSUME PushStr PROVE BeginEffect
  BY <1>1, BeginHasEffect DEF PushStr
<1>2. ASSUME Add PROVE BeginEffect
  <2>1. Sp - 2 \in 0..Len(stack)
    BY <1>2 DEF Add
  <2>2. Drop(2) \in Seq(Value) /\ Len(Drop(2)) = Sp - 2 /\ Objs(Drop(2)) \subseteq Objs(stack)
    BY <2>1, ObjsPrefix DEF Drop
  <2>3. Len(Drop(2)) <= StackMax
    BY <2>1, <2>2, VmAssumption
  <2> QED BY <1>2, <2>1, <2>2, <2>3, BeginHasEffect DEF Add
<1>3. ASSUME MapKeys PROVE BeginEffect
  <2>1. Count(Top) \in Nat
    BY CountIsNat
  <2>2. Sp \in 1..Len(stack)
    BY <1>3 DEF MapKeys, Sp
  <2>3. Top \in Objs(stack)
    BY <1>3, <2>2, ObjsElement DEF MapKeys, Typed, Top, TypeOK, GcTypeOK
  <2>4. 2 <= Sp + 1
    BY <1>3 DEF MapKeys
  <2> QED BY <1>3, <2>1, <2>3, <2>4, BeginHasEffect DEF MapKeys
<1>4. ASSUME NEW n \in 1..3, CallBuiltin(n) PROVE BeginEffect
  BY <1>4, OperandsOnStack, BeginHasEffect DEF CallBuiltin
<1>5. ASSUME NEW n \in 0..MaxItems, MakeArray(n) PROVE BeginEffect
  BY <1>5, OperandsOnStack, BeginHasEffect DEF MakeArray
<1>6. ASSUME NEW n \in 0..MaxItems, MakeMap(n) PROVE BeginEffect
  BY <1>6, OperandsOnStack, BeginHasEffect DEF MakeMap
<1>7. ASSUME NEW n \in 0..MaxItems, Split(n) PROVE BeginEffect
  BY <1>7, OperandsOnStack, BeginHasEffect DEF Split
<1> QED BY <1>1, <1>2, <1>3, <1>4, <1>5, <1>6, <1>7 DEF Allocates
-----------------------------------------------------------------------------
(***************************************************************************)
(* Preservation of the invariant                                           *)
(***************************************************************************)
\* The machine starts with the invariant.
LEMMA InvInit ==
  ASSUME Init
  PROVE  IInv
<1> USE DEF Init, GcInit, NoInstr
<1>1. Roots = {} /\ Held = {} /\ Survivors = {}
  BY GcAssumption DEF Roots, Objs, GlobalObjs, Held, Survivors, Sp
<1>2. TypeOK
  BY GcAssumption, VmAssumption DEF TypeOK, GcTypeOK, Value, Empty, Kind, Instr, Sp
<1> QED BY <1>1, <1>2 DEF IInv, IdleClean, ArgsOnStack, HeldRooted, MarksClear, MarkFrontier,
                          NoDangling, Allocating, Building

\* Instructions on stack and globals keep the invariant.
LEMMA PlainPreserves ==
  ASSUME IInv, PlainEffect
  PROVE  IInv'
<1> USE DEF IInv, PlainEffect, collector, locals
<1>1. NoInstr /\ NoInstr'
  BY DEF IdleClean, Allocating, Building, NoInstr
<1>2. Held' = {} /\ Survivors' = Survivors /\ Survivors = objects
  BY <1>1, GcAssumption DEF NoInstr, Held, Survivors
<1>3. TypeOK'
  BY DEF TypeOK, GcTypeOK, Typed, Sp
<1>4. NoDangling'
  BY <1>2 DEF NoDangling, Refs
<1> QED BY <1>1, <1>3, <1>4 DEF IdleClean, ArgsOnStack, HeldRooted, MarksClear, MarkFrontier,
                                Allocating, Building

\* Instructions on containers keep the invariant.
LEMMA ContainerPreserves ==
  ASSUME IInv, ContainerEffect
  PROVE  IInv'
<1> USE DEF IInv, ContainerEffect, collector, locals
<1>1. NoInstr /\ NoInstr'
  BY DEF IdleClean, Allocating, Building, NoInstr
<1>2. Held' = {} /\ Survivors' = objects /\ Survivors = objects /\ objects' = objects
  BY <1>1, GcAssumption DEF NoInstr, Held, Survivors
<1>3. TypeOK'
  BY DEF TypeOK, GcTypeOK, Typed, Sp
<1>4. NoDangling'
  <2>1. PICK c \in objects \cap Roots :
          /\ \A p \in Obj \ {c} : fields'[p] = fields[p]
          /\ Refs(c)' \subseteq Refs(c) \cup Roots
          /\ Roots' \subseteq Roots \cup Refs(c)
    OBVIOUS
  <2>2. Roots \subseteq objects /\ \A o \in objects : o \in Obj /\ Refs(o) \subseteq objects
    BY <1>2 DEF NoDangling, TypeOK, GcTypeOK
  <2>3. \A o \in objects : o # c => Refs(o)' = Refs(o)
    BY <2>1, <2>2 DEF Refs
  <2> QED BY <1>2, <2>1, <2>2, <2>3 DEF NoDangling
<1> QED BY <1>1, <1>3, <1>4 DEF IdleClean, ArgsOnStack, HeldRooted, MarksClear, MarkFrontier,
                                Allocating, Building

\* The start of an allocation keeps the invariant.
LEMMA BeginPreserves ==
  ASSUME IInv, BeginEffect
  PROVE  IInv'
<1> USE DEF IInv, BeginEffect
<1>1. NoInstr /\ container' = Nil
  BY DEF IdleClean, Allocating, Building, NoInstr
<1>2. Held' = held' /\ Survivors' = objects /\ Survivors = objects /\ objects' = objects
  BY <1>1, GcAssumption DEF Held, Survivors
<1>3. Roots \subseteq objects /\ marked' = {} /\ pending = {} /\ Roots' \subseteq objects
  BY <1>2 DEF NoDangling, MarksClear, MarkFrontier
<1>4. TypeOK'
  BY <1>3 DEF TypeOK, GcTypeOK, Typed, Sp
<1>5. NoDangling'
  BY <1>2, <1>3 DEF NoDangling, Refs
<1>6. ArgsOnStack'
  BY <1>1 DEF ArgsOnStack, Allocating, Building, TwoStage, Sp
<1>7. HeldRooted'
  BY <1>2 DEF HeldRooted
<1>8. MarkFrontier' /\ MarksClear' /\ IdleClean'
  BY <1>2, <1>3 DEF MarkFrontier, MarksClear, IdleClean, Allocating
<1> QED BY <1>4, <1>5, <1>6, <1>7, <1>8

\* A collection keeps the invariant: mark, sweep and end.
LEMMA CollectPreserves ==
  ASSUME IInv, Collect, UNCHANGED vmVars
  PROVE  IInv'
<1> USE DEF IInv, vmVars
<1>1. Roots' = Roots /\ Held' = Held /\ Sp' = Sp /\ TwoStage' = TwoStage
  BY DEF Roots, Objs, GlobalObjs, Held, Sp, TwoStage
<1>2. pc \in {"mark", "sweep"} /\ pc' \in {"mark", "sweep", "new"}
  BY DEF Collect, MarkObject, BeginSweep, FreeObject, EndCollect
<1>3. ArgsOnStack' /\ HeldRooted' /\ IdleClean'
  BY <1>1, <1>2 DEF ArgsOnStack, HeldRooted, IdleClean, Allocating, Building
<1>4. Held \subseteq Roots
  BY <1>2 DEF HeldRooted, Allocating
<1>5. /\ objects \subseteq Obj /\ marked \subseteq objects
  BY DEF TypeOK, GcTypeOK, MarkFrontier
<1>6. CASE \E o \in Obj : MarkObject(o)
  <2>1. PICK o \in Obj : MarkObject(o)
    BY <1>6
  <2>2. /\ pc = "mark" /\ pc' = "mark" /\ o \in pending
        /\ marked' = marked \cup {o}
        /\ pending' = (pending \ {o}) \cup (IF o \in marked THEN {} ELSE Refs(o))
        /\ UNCHANGED <<objects, kind, cap, fields, bytes, threshold>>
    BY <2>1 DEF MarkObject
  <2>3. /\ pending \subseteq objects /\ Roots \subseteq marked \cup pending
        /\ \A p \in marked : Refs(p) \subseteq marked \cup pending
        /\ \A p \in objects : Refs(p) \subseteq objects
        /\ Roots \cup Held \subseteq objects
    BY <2>2 DEF MarkFrontier, NoDangling, Survivors
  <2>4. \A p : Refs(p)' = Refs(p)
    BY <2>2 DEF Refs
  <2>5. TypeOK'
    BY <1>5, <2>2, <2>3 DEF TypeOK, GcTypeOK, Sp
  <2>6. MarkFrontier'
    <3>1. marked' \subseteq objects' /\ pending' \subseteq objects'
      BY <1>5, <2>2, <2>3
    <3>2. Roots' \subseteq marked' \cup pending'
      BY <1>1, <2>2, <2>3
    <3>3. \A p \in marked' : Refs(p)' \subseteq marked' \cup pending'
      BY <2>2, <2>3, <2>4
    <3> QED BY <2>2, <3>1, <3>2, <3>3 DEF MarkFrontier
  <2>7. NoDangling' /\ MarksClear'
    BY <1>1, <2>2, <2>3, <2>4 DEF NoDangling, MarksClear, Survivors
  <2> QED BY <1>3, <2>5, <2>6, <2>7
<1>7. CASE BeginSweep
  <2>1. /\ pc = "mark" /\ pc' = "sweep" /\ pending = {}
        /\ UNCHANGED <<objects, kind, cap, fields, marked, bytes, threshold, pending>>
    BY <1>7 DEF BeginSweep
  <2>2. /\ Roots \subseteq marked
        /\ \A p \in marked : Refs(p) \subseteq marked
    BY <2>1 DEF MarkFrontier
  <2>3. Survivors' = marked /\ \A p : Refs(p)' = Refs(p)
    BY <1>5, <2>1 DEF Survivors, Refs
  <2>4. NoDangling'
    BY <1>1, <1>4, <2>2, <2>3 DEF NoDangling
  <2> QED BY <1>3, <2>1, <2>4 DEF TypeOK, GcTypeOK, MarksClear, MarkFrontier, Sp
<1>8. CASE \E o \in Obj : FreeObject(o)
  <2>1. PICK o \in Obj : FreeObject(o)
    BY <1>8
  <2>2. /\ pc = "sweep" /\ pc' = "sweep" /\ o \notin marked
        /\ objects' = objects \ {o} /\ bytes' = bytes - Size(o)
        /\ kind' = [kind EXCEPT ![o] = "string"]
        /\ cap' = [cap EXCEPT ![o] = 0]
        /\ fields' = [fields EXCEPT ![o] = Empty]
        /\ UNCHANGED <<marked, threshold, pending>>
    BY <2>1 DEF FreeObject
  <2>3. Survivors = marked /\ Survivors' = marked
    BY <1>5, <2>2 DEF Survivors
  <2>4. \A p \in marked : Refs(p)' = Refs(p)
    BY <1>5, <2>2 DEF Refs, TypeOK, GcTypeOK
  <2>5. NoDangling'
    BY <1>1, <2>3, <2>4 DEF NoDangling
  <2>6. TypeOK'
    <3>1. Empty \in [Slot -> Value \cup {NoEntry}]
      BY DEF Empty
    <3>2. fields' \in [Obj -> [Slot -> Value \cup {NoEntry}]]
      BY <2>2, <3>1 DEF TypeOK, GcTypeOK
    <3>3. bytes' \in Int
      BY <2>2 DEF TypeOK, GcTypeOK, Size
    <3> QED BY <2>2, <3>2, <3>3 DEF TypeOK, GcTypeOK, Kind, Sp
  <2>7. MarkFrontier'
    BY <1>5, <2>2 DEF MarkFrontier
  <2> QED BY <1>3, <2>2, <2>5, <2>6, <2>7 DEF MarksClear
<1>9. CASE EndCollect
  <2>1. /\ pc = "sweep" /\ pc' = "new" /\ objects \subseteq marked
        /\ marked' = marked \ objects
        /\ threshold' = IF 2 * bytes > InitialThreshold THEN 2 * bytes ELSE InitialThreshold
        /\ UNCHANGED <<objects, kind, cap, fields, bytes, pending>>
    BY <1>9 DEF EndCollect
  <2>2. marked' = {} /\ Survivors = objects /\ Survivors' = objects
    BY <1>5, <2>1 DEF Survivors
  <2>3. threshold' \in Nat
    BY <2>1, GcAssumption DEF TypeOK, GcTypeOK
  <2>4. TypeOK'
    BY <2>1, <2>2, <2>3 DEF TypeOK, GcTypeOK, Sp
  <2>5. NoDangling'
    BY <1>1, <2>1, <2>2 DEF NoDangling, Refs
  <2> QED BY <1>3, <2>1, <2>2, <2>4, <2>5 DEF MarksClear, MarkFrontier
<1> QED BY <1>6, <1>7, <1>8, <1>9 DEF Collect
-----------------------------------------------------------------------------
(***************************************************************************)
(* The steps of an instruction after its collection, if any                *)
(***************************************************************************)
\* A new object o, with no references of its own, which the roots, the C code
\* and at most one object p in use may refer to.
NewEffect(o) ==
    /\ o \in Obj \ objects /\ objects' = objects \cup {o}
    /\ Roots' \cup Held' \subseteq Roots \cup Held \cup {o}
    /\ Refs(o)' = {}
    /\ \E p \in Roots \cup Held \cup {o} :
         /\ \A q \in Obj \ {o, p} : fields'[q] = fields[q]
         /\ Refs(p)' \subseteq Refs(p) \cup {o}

\* Element by element, the container takes references from the roots.
FillEffect ==
    /\ UNCHANGED <<objects, kind>>
    /\ Roots' = Roots /\ Held' = Held
    /\ \E c \in Held : /\ \A q \in Obj \ {c} : fields'[q] = fields[q]
                       /\ Refs(c)' \subseteq Refs(c) \cup Roots

\* The parts of the invariant that the effect does not settle.
OtherParts == TypeOK /\ IdleClean /\ ArgsOnStack /\ HeldRooted

\* register_object adds one object, which refers to nothing.
LEMMA RegisterEffect ==
  ASSUME GcTypeOK, NEW o \in Obj, NEW k \in Kind, NEW c \in Nat, Register(o, k, c),
         pc' # "mark"
  PROVE  /\ o \in Obj \ objects /\ objects' = objects \cup {o}
         /\ Refs(o)' = {} /\ \A q \in Obj \ {o} : fields'[q] = fields[q]
         /\ GcTypeOK' /\ UNCHANGED collector
<1>1. Empty \in [Slot -> Value \cup {NoEntry}] /\ \A s \in Slot : Empty[s] = NoEntry
  BY DEF Empty
<1>2. fields' = [fields EXCEPT ![o] = Empty]
  BY DEF Register
<1>3. fields' \in [Obj -> [Slot -> Value \cup {NoEntry}]] /\ fields'[o] = Empty
  BY <1>1, <1>2 DEF GcTypeOK
<1>4. Refs(o)' = {}
  BY <1>1, <1>3, GcAssumption DEF Refs
<1>5. \A q \in Obj \ {o} : fields'[q] = fields[q]
  BY <1>2 DEF GcTypeOK
<1>6. GcTypeOK'
  BY <1>3 DEF GcTypeOK, Register, collector
<1> QED BY <1>4, <1>5, <1>6 DEF Register

\* Dropping the arguments leaves a stack of values.
LEMMA DropArgs ==
  ASSUME IInv, Allocating \/ Building, ~TwoStage \/ container # Nil
  PROVE  /\ Drop(args) \in Seq(Value) /\ Len(Drop(args)) <= StackMax
         /\ Objs(Drop(args)) \subseteq Objs(stack)
<1>1. args \in Nat /\ args <= Sp /\ stack \in Seq(Value) /\ Sp <= StackMax
  BY DEF IInv, ArgsOnStack, TypeOK, Sp
<1>2. Sp - args \in 0..Len(stack)
  BY <1>1 DEF Sp
<1>3. Drop(args) \in Seq(Value) /\ Len(Drop(args)) = Sp - args /\ Objs(Drop(args)) \subseteq Objs(stack)
  BY <1>1, <1>2, ObjsPrefix DEF Drop
<1> QED BY <1>1, <1>3, VmAssumption DEF Sp

\* Capacities at creation are natural numbers.
LEMMA InitialIsNat ==
  ASSUME TypeOK
  PROVE  Initial \in Nat
BY GcAssumption DEF TypeOK, Initial, Instr

\* The second half of an allocation adds one object and makes it reachable
\* from the stack, the C code or the container being filled.
LEMMA NewHasEffect ==
  ASSUME IInv, NEW o \in Obj, New(o)
  PROVE  /\ pc = "new" /\ pc' \in {"run", "halted", "fill"}
         /\ UNCHANGED collector
         /\ NewEffect(o) /\ OtherParts'
<1> USE DEF IInv
<1>1. GcTypeOK /\ pc = "new" /\ Held \subseteq Roots /\ stack \in Seq(Value) /\ Sp <= StackMax
      /\ globals \in [Global -> Value \cup {NoEntry}] /\ Sp \in Nat /\ o \in Value
  BY DEF TypeOK, New, NewString, NewContainer, NewResult, NewPiece, HeldRooted, Allocating, Sp, Value
<1>2. CASE NewString(o)
  <2>1. /\ Register(o, "string", 1) /\ PushOrFail(Drop(args), o) /\ globals' = globals
        /\ NoInstr' /\ instr = "string"
    BY <1>2 DEF NewString, Finish, NoInstr
  <2>2. Drop(args) \in Seq(Value) /\ Len(Drop(args)) <= StackMax /\ Objs(Drop(args)) \subseteq Objs(stack)
    BY <1>1, <2>1, DropArgs DEF Allocating, TwoStage
  <2>3. /\ stack' \in Seq(Value) /\ Len(stack') <= StackMax /\ pc' \in {"run", "halted"}
        /\ Objs(stack') \subseteq Objs(Drop(args)) \cup ({o} \cap Obj)
    BY <1>1, <2>1, <2>2, PushEffect
  <2>4. /\ o \in Obj \ objects /\ objects' = objects \cup {o}
        /\ Refs(o)' = {} /\ \A q \in Obj \ {o} : fields'[q] = fields[q]
        /\ GcTypeOK' /\ UNCHANGED collector
    BY <1>1, <2>1, <2>3, RegisterEffect DEF Kind
  <2>5. Held' = {} /\ Roots' \subseteq Roots \cup {o}
    BY <2>1, <2>2, <2>3, GcAssumption DEF Held, NoInstr, Roots, GlobalObjs
  <2>6. NewEffect(o)
    BY <2>4, <2>5 DEF NewEffect
  <2>7. TypeOK'
    BY <1>1, <2>1, <2>3, <2>4 DEF TypeOK, NoInstr, Instr, Value, Sp
  <2> QED BY <1>1, <2>1, <2>3, <2>4, <2>6, <2>7
          DEF OtherParts, IdleClean, ArgsOnStack, HeldRooted, Allocating, Building
<1>3. CASE NewContainer(o)
  <2>1. /\ instr \in {"array", "map"} /\ Register(o, instr, Initial)
        /\ container' = o /\ pc' = "fill"
        /\ UNCHANGED <<stack, globals, instr, args, left, held>>
    BY <1>3 DEF NewContainer
  <2>2. /\ o \in Obj \ objects /\ objects' = objects \cup {o}
        /\ Refs(o)' = {} /\ \A q \in Obj \ {o} : fields'[q] = fields[q]
        /\ GcTypeOK' /\ UNCHANGED collector
    BY <1>1, <2>1, InitialIsNat, RegisterEffect DEF Kind
  <2>3. Roots' = Roots /\ Held' = held \cup {o} /\ held \subseteq Held
    BY <2>1 DEF Roots, Objs, GlobalObjs, Held
  <2>4. NewEffect(o)
    BY <2>2, <2>3 DEF NewEffect
  <2>5. TypeOK'
    BY <1>1, <2>1, <2>2 DEF TypeOK, Sp
  <2>6. ArgsOnStack'
    BY <1>1, <2>1, GcAssumption DEF ArgsOnStack, Allocating, Building, TwoStage, Sp
  <2> QED BY <1>1, <2>1, <2>2, <2>4, <2>5, <2>6
          DEF OtherParts, IdleClean, HeldRooted, Allocating, Building, TwoStage
<1>4. CASE NewResult(o)
  <2>1. /\ TwoStage /\ container = Nil /\ Register(o, "array", Initial) /\ globals' = globals
    BY <1>4 DEF NewResult, TwoStage
  <2>2. pc' \in {"fill", "halted"}
    BY <1>4 DEF NewResult, Fail
  <2>3. /\ o \in Obj \ objects /\ objects' = objects \cup {o}
        /\ Refs(o)' = {} /\ \A q \in Obj \ {o} : fields'[q] = fields[q]
        /\ GcTypeOK' /\ UNCHANGED collector
    BY <1>1, <2>1, <2>2, InitialIsNat, RegisterEffect DEF Kind
  <2>4. CASE Sp < StackMax
    <3>1. /\ stack' = Append(stack, o) /\ pc' = "fill" /\ container' = o
          /\ UNCHANGED <<instr, args, left, held>>
      BY <1>4, <2>4 DEF NewResult
    <3>2. /\ stack' \in Seq(Value) /\ Len(stack') = Sp + 1
          /\ Objs(stack') = Objs(stack) \cup {o}
      BY <1>1, <3>1, ObjsAppend DEF Sp
    <3>3. Roots' = Roots \cup {o} /\ Held' = held \cup {o} /\ held \subseteq Held
      BY <2>1, <3>1, <3>2 DEF Roots, GlobalObjs, Held
    <3>4. NewEffect(o)
      BY <2>3, <3>3 DEF NewEffect
    <3>5. TypeOK'
      BY <1>1, <2>1, <2>3, <2>4, <3>1, <3>2, VmAssumption DEF TypeOK, Sp
    <3>6. ArgsOnStack'
      BY <1>1, <2>1, <3>1, <3>2, GcAssumption DEF ArgsOnStack, Allocating, Building, TwoStage, Sp, TypeOK
    <3>7. HeldRooted'
      BY <1>1, <3>3 DEF HeldRooted
    <3> QED BY <1>1, <2>3, <3>1, <3>4, <3>5, <3>6, <3>7 DEF OtherParts, IdleClean, Building
  <2>5. CASE ~(Sp < StackMax)
    <3>1. stack' = <<>> /\ pc' = "halted" /\ NoInstr'
      BY <1>4, <2>5 DEF NewResult, Fail, NoInstr
    <3>2. Held' = {} /\ Roots' \subseteq Roots
      BY <2>1, <3>1, GcAssumption DEF Held, NoInstr, Roots, Objs, GlobalObjs
    <3>3. NewEffect(o)
      BY <2>3, <3>2 DEF NewEffect
    <3>4. TypeOK'
      BY <1>1, <2>1, <2>3, <3>1, VmAssumption DEF TypeOK, NoInstr, Instr, Value, Sp
    <3> QED BY <1>1, <2>3, <3>1, <3>3, <3>4
            DEF OtherParts, IdleClean, ArgsOnStack, HeldRooted, Allocating, Building
  <2> QED BY <2>4, <2>5
<1>5. CASE NewPiece(o)
  <2>1. PICK c : c = container
    OBVIOUS
  <2>2. /\ TwoStage /\ c # Nil /\ c = container /\ container' = c
        /\ o \notin objects /\ objects' = objects \cup {o}
        /\ kind' = [kind EXCEPT ![o] = "string"]
        /\ cap' = [cap EXCEPT ![o] = 1, ![c] = PushCap(c)]
        /\ bytes' = bytes + 2 + PushCap(c) - cap[c]
        /\ fields' = [fields EXCEPT ![o] = Empty, ![c][Count(c) + 1] = o]
        /\ left' = left - 1 /\ pc' = "fill"
        /\ UNCHANGED <<collector, stack, globals, instr, args, held>>
    BY <1>5, <2>1 DEF NewPiece, TwoStage
  <2>3. c \in Obj /\ c \in Held /\ c \in objects /\ c # o
    BY <1>1, <2>2 DEF TypeOK, Value, Held, NoDangling, Survivors
  <2>4. Roots' = Roots /\ Held' = Held
    BY <2>2 DEF Roots, Objs, GlobalObjs, Held
  <2>5. /\ fields' \in [Obj -> [Slot -> Value \cup {NoEntry}]]
        /\ \A q \in Obj \ {o, c} : fields'[q] = fields[q]
        /\ Refs(o)' = {} /\ Refs(c)' \subseteq Refs(c) \cup {o}
    <3>1. Empty \in [Slot -> Value \cup {NoEntry}] /\ \A s \in Slot : Empty[s] = NoEntry
      BY DEF Empty
    <3> DEFINE f == [fields EXCEPT ![o] = Empty]
    <3>2. /\ f \in [Obj -> [Slot -> Value \cup {NoEntry}]] /\ f[o] = Empty
          /\ \A q \in Obj \ {o} : f[q] = fields[q]
      BY <1>1, <3>1 DEF GcTypeOK
    <3>3. fields' = [f EXCEPT ![c][Count(c) + 1] = o]
      BY <2>2
    <3> DEFINE g == [f[c] EXCEPT ![Count(c) + 1] = o]
    <3>4. fields' = [f EXCEPT ![c] = g]
      BY <3>3
    <3> HIDE DEF f
    <3>5. /\ g \in [Slot -> Value \cup {NoEntry}]
          /\ \A s \in Slot : g[s] = IF s = Count(c) + 1 THEN o ELSE f[c][s]
      BY <1>1, <2>3, <3>2
    <3> HIDE DEF g
    <3>6. /\ fields' \in [Obj -> [Slot -> Value \cup {NoEntry}]]
          /\ fields'[o] = Empty /\ fields'[c] = g
          /\ \A q \in Obj \ {o, c} : fields'[q] = fields[q]
      BY <2>3, <3>2, <3>4, <3>5
    <3>7. f[c] = fields[c]
      BY <2>3, <3>2
    <3>8. Refs(o)' = {} /\ Refs(c)' \subseteq Refs(c) \cup {o}
      BY <3>1, <3>5, <3>6, <3>7, GcAssumption DEF Refs
    <3> QED BY <3>6, <3>8
  <2>6. NewEffect(o)
    BY <2>2, <2>3, <2>4, <2>5 DEF NewEffect
  <2>7. left > 0 /\ left \in Nat
    BY <1>1, <2>2 DEF ArgsOnStack, Allocating, TypeOK
  <2>8. GcTypeOK'
    <3>1. PushCap(c) \in Nat /\ cap[c] \in Nat
      BY <1>1, <2>3, Growth DEF GcTypeOK
    <3>2. bytes' \in Int
      BY <1>1, <2>2, <3>1 DEF GcTypeOK
    <3>3. cap \in [Obj -> Nat] /\ cap' = [cap EXCEPT ![o] = 1, ![c] = PushCap(c)]
      BY <1>1, <2>2 DEF GcTypeOK
    <3> HIDE DEF PushCap
    <3>4. cap' \in [Obj -> Nat]
      BY <3>1, <3>3
    <3> QED BY <1>1, <2>2, <2>5, <3>2, <3>4 DEF GcTypeOK, Kind, collector
  <2>9. TypeOK'
    BY <1>1, <2>2, <2>7, <2>8 DEF TypeOK, Sp
  <2>10. ArgsOnStack'
    BY <1>1, <2>2, <2>7 DEF ArgsOnStack, Allocating, Building, TwoStage, Sp
  <2>11. HeldRooted'
    BY <1>1, <2>4 DEF HeldRooted
  <2> QED BY <1>1, <2>2, <2>6, <2>9, <2>10, <2>11 DEF OtherParts, IdleClean, Building
<1> QED BY <1>2, <1>3, <1>4, <1>5 DEF New

\* References flow only from what was in use when the heap stays as it is.
LEMMA InUse ==
  ASSUME IInv, pc \notin {"mark", "sweep"}
  PROVE  /\ Survivors = objects /\ objects \subseteq Obj
         /\ Roots \subseteq objects /\ Held \subseteq objects
         /\ \A o \in objects : Refs(o) \subseteq objects
         /\ marked = {} /\ pending = {}
BY DEF IInv, NoDangling, Survivors, MarksClear, MarkFrontier, TypeOK, GcTypeOK

\* The second half of an allocation keeps the invariant.
LEMMA NewPreserves ==
  ASSUME IInv, NEW o \in Obj, New(o)
  PROVE  IInv'
<1>1. /\ pc = "new" /\ pc' \in {"run", "halted", "fill"} /\ UNCHANGED collector
      /\ NewEffect(o) /\ OtherParts'
  BY NewHasEffect
<1>2. /\ objects \subseteq Obj /\ Roots \subseteq objects /\ Held \subseteq objects
      /\ \A q \in objects : Refs(q) \subseteq objects
      /\ marked = {} /\ pending = {}
  BY <1>1, InUse
<1>3. PICK p \in Roots \cup Held \cup {o} :
         /\ \A q \in Obj \ {o, p} : fields'[q] = fields[q]
         /\ Refs(p)' \subseteq Refs(p) \cup {o}
  BY <1>1 DEF NewEffect
<1>4. Survivors' = objects \cup {o}
  BY <1>1 DEF Survivors, NewEffect
<1>5. \A q \in objects : q \in Obj /\ q # o
  BY <1>1, <1>2 DEF NewEffect
<1>6. \A q \in objects \cup {o} : Refs(q)' \subseteq objects \cup {o}
  <2>1. ASSUME NEW q \in objects \cup {o} PROVE Refs(q)' \subseteq objects \cup {o}
    <3>1. CASE q = o
      BY <1>1, <3>1 DEF NewEffect
    <3>2. CASE q # o /\ q = p
      BY <1>2, <1>3, <3>2
    <3>3. CASE q # o /\ q # p
      <4>1. fields'[q] = fields[q]
        BY <1>3, <1>5, <3>3
      <4> QED BY <1>2, <3>3, <4>1 DEF Refs
    <3> QED BY <3>1, <3>2, <3>3
  <2> QED BY <2>1
<1>7. NoDangling'
  BY <1>1, <1>2, <1>4, <1>6 DEF NoDangling, NewEffect
<1>8. MarksClear' /\ MarkFrontier'
  BY <1>1, <1>2 DEF MarksClear, MarkFrontier, collector
<1> QED BY <1>1, <1>7, <1>8 DEF IInv, OtherParts

\* Filling a container stores stack values into it.
LEMMA FillHasEffect ==
  ASSUME IInv, FillArray \/ FillMap
  PROVE  /\ pc = "fill" /\ pc' = "fill" /\ UNCHANGED collector
         /\ FillEffect /\ OtherParts'
<1> USE DEF IInv
<1>1. PICK c : c = container
  OBVIOUS
<1>2. PICK v : v = NextElement
  OBVIOUS
<1>3. /\ pc = "fill" /\ left > 0 /\ instr \in {"array", "map"} /\ left' = left - 1
      /\ UNCHANGED <<objects, kind, collector, pc, stack, globals, instr, args, container, held>>
      /\ ArrayPush(c, v) \/ \E k \in Slot : MapSet(c, k, v)
  BY <1>1, <1>2 DEF FillArray, FillMap, Filling
<1>4. c \in Obj /\ c \in Held
  BY <1>1, <1>3 DEF ArgsOnStack, Building, TypeOK, Value, Held
<1>5. v \in Value /\ (v \in Obj => v \in Roots)
  <2>1. left \in Nat /\ args \in Nat /\ left <= args /\ args <= Sp /\ stack \in Seq(Value)
    <3>1. ~TwoStage
      BY <1>3 DEF TwoStage
    <3>2. left \in Nat /\ args \in Nat /\ stack \in Seq(Value) /\ Sp \in Nat
      BY DEF TypeOK, Sp
    <3> QED BY <1>3, <3>1, <3>2 DEF ArgsOnStack, Building
  <2>2. Sp - left + 1 \in 1..Len(stack)
    BY <1>3, <2>1 DEF Sp
  <2> QED BY <1>2, <2>1, <2>2, ObjsElement DEF NextElement, Roots
<1>6. GcTypeOK
  BY DEF TypeOK
<1>7. /\ fields' \in [Obj -> [Slot -> Value \cup {NoEntry}]]
      /\ cap' \in [Obj -> Nat] /\ bytes' \in Int
      /\ \A p \in Obj \ {c} : fields'[p] = fields[p]
      /\ Refs(c)' \subseteq Refs(c) \cup ({v} \cap Obj)
  BY <1>3, <1>4, <1>5, <1>6, ArrayPushEffect, MapSetEffect
<1>8. Roots' = Roots /\ Held' = Held
  BY <1>3 DEF Roots, Objs, GlobalObjs, Held
<1>9. FillEffect
  BY <1>3, <1>4, <1>5, <1>7, <1>8 DEF FillEffect
<1>10. TypeOK'
  BY <1>3, <1>7 DEF TypeOK, GcTypeOK, collector, Sp
<1>11. ArgsOnStack' /\ IdleClean' /\ HeldRooted'
  BY <1>3, <1>10 DEF ArgsOnStack, IdleClean, HeldRooted, Allocating, Building, TwoStage, TypeOK, Sp
<1> QED BY <1>3, <1>9, <1>10, <1>11 DEF OtherParts

\* Filling a container keeps the invariant.
LEMMA FillPreserves ==
  ASSUME IInv, FillArray \/ FillMap
  PROVE  IInv'
<1>1. /\ pc = "fill" /\ pc' = "fill" /\ UNCHANGED collector
      /\ FillEffect /\ OtherParts'
  BY FillHasEffect
<1>2. /\ objects \subseteq Obj /\ Roots \subseteq objects /\ Held \subseteq objects
      /\ \A q \in objects : Refs(q) \subseteq objects
      /\ marked = {} /\ pending = {}
  BY <1>1, InUse
<1>3. PICK c \in Held : /\ \A q \in Obj \ {c} : fields'[q] = fields[q]
                        /\ Refs(c)' \subseteq Refs(c) \cup Roots
  BY <1>1 DEF FillEffect
<1>4. \A q \in objects : q # c => Refs(q)' = Refs(q)
  BY <1>2, <1>3 DEF Refs
<1>5. NoDangling'
  BY <1>1, <1>2, <1>3, <1>4 DEF NoDangling, Survivors, FillEffect
<1>6. MarksClear' /\ MarkFrontier'
  BY <1>1, <1>2 DEF MarksClear, MarkFrontier, collector
<1> QED BY <1>1, <1>5, <1>6 DEF IInv, OtherParts

\* Collecting between two pieces of keys() or split() keeps the invariant.
LEMMA NextPiecePreserves ==
  ASSUME IInv, NextPiece
  PROVE  IInv'
<1>1. /\ pc = "fill" /\ left > 0 /\ TwoStage /\ UNCHANGED vmVars
      /\ UNCHANGED <<objects, kind, cap, fields, marked, bytes, threshold>>
      /\ \/ pc' = "mark" /\ pending' = Roots
         \/ pc' = "new" /\ pending' = pending
  BY DEF NextPiece, Filling, MaybeCollect, TwoStage
<1>2. /\ objects \subseteq Obj /\ Roots \subseteq objects /\ Held \subseteq objects
      /\ \A q \in objects : Refs(q) \subseteq objects
      /\ marked = {} /\ pending = {}
  BY <1>1, InUse
<1>3. Roots' = Roots /\ Held' = Held /\ Survivors' = objects /\ \A q : Refs(q)' = Refs(q)
  BY <1>1 DEF Roots, Objs, GlobalObjs, Held, vmVars, Survivors, Refs
<1>4. TypeOK'
  BY <1>1, <1>2 DEF IInv, TypeOK, GcTypeOK, vmVars, Sp
<1>5. ArgsOnStack' /\ IdleClean' /\ HeldRooted'
  BY <1>1, <1>3 DEF IInv, ArgsOnStack, IdleClean, HeldRooted, Allocating, Building, TwoStage, vmVars, Sp
<1>6. NoDangling'
  BY <1>1, <1>2, <1>3 DEF NoDangling
<1>7. MarksClear' /\ MarkFrontier'
  BY <1>1, <1>2, <1>3 DEF MarksClear, MarkFrontier
<1> QED BY <1>4, <1>5, <1>6, <1>7 DEF IInv

\* The finished container takes the place of the arguments.
LEMMA FinishHasEffect ==
  ASSUME IInv, FinishFill
  PROVE  /\ pc = "fill" /\ pc' \in {"run", "halted"}
         /\ UNCHANGED <<objects, kind, cap, fields, bytes, collector>>
         /\ Typed' /\ NoInstr' /\ Held' = {}
         /\ Roots' \subseteq Roots \cup Held
<1>1. /\ pc = "fill" /\ PushOrFail(Drop(args), container) /\ NoInstr'
      /\ UNCHANGED <<objects, kind, cap, fields, bytes, collector, globals>>
  BY DEF FinishFill, Finish, NoInstr
<1>2. container # Nil /\ container \in Value /\ (container \in Obj => container \in Held)
  BY <1>1 DEF IInv, ArgsOnStack, Building, TypeOK, Held
<1>3. Drop(args) \in Seq(Value) /\ Len(Drop(args)) <= StackMax /\ Objs(Drop(args)) \subseteq Objs(stack)
  BY <1>1, <1>2, DropArgs DEF Building
<1>4. /\ stack' \in Seq(Value) /\ Len(stack') <= StackMax /\ pc' \in {"run", "halted"}
      /\ Objs(stack') \subseteq Objs(Drop(args)) \cup ({container} \cap Obj)
  BY <1>1, <1>2, <1>3, PushEffect
<1>5. Typed'
  BY <1>1, <1>4 DEF Typed, IInv, TypeOK, Sp
<1>6. Held' = {}
  BY <1>1, GcAssumption DEF NoInstr, Held
<1>7. Roots' \subseteq Roots \cup Held
  BY <1>1, <1>2, <1>3, <1>4 DEF Roots, GlobalObjs
<1> QED BY <1>1, <1>4, <1>5, <1>6, <1>7

\* The end of an instruction that built a container keeps the invariant.
LEMMA FinishPreserves ==
  ASSUME IInv, FinishFill
  PROVE  IInv'
<1>1. /\ pc = "fill" /\ pc' \in {"run", "halted"}
      /\ UNCHANGED <<objects, kind, cap, fields, bytes, collector>>
      /\ Typed' /\ NoInstr' /\ Held' = {}
      /\ Roots' \subseteq Roots \cup Held
  BY FinishHasEffect
<1>2. /\ objects \subseteq Obj /\ Roots \subseteq objects /\ Held \subseteq objects
      /\ \A q \in objects : Refs(q) \subseteq objects
      /\ marked = {} /\ pending = {}
  BY <1>1, InUse
<1>3. Survivors' = objects /\ \A q : Refs(q)' = Refs(q)
  BY <1>1 DEF Survivors, Refs
<1>4. NoDangling'
  BY <1>1, <1>2, <1>3 DEF NoDangling
<1>5. TypeOK'
  BY <1>1 DEF IInv, TypeOK, GcTypeOK, Typed, NoInstr, Instr, Value, collector, Sp
<1>6. MarksClear' /\ MarkFrontier'
  BY <1>1, <1>2 DEF MarksClear, MarkFrontier, collector
<1> QED BY <1>1, <1>4, <1>5, <1>6
        DEF IInv, IdleClean, ArgsOnStack, HeldRooted, Allocating, Building

\* Exiting for lack of memory keeps the invariant.
LEMMA OutOfMemoryPreserves ==
  ASSUME IInv, OutOfMemory
  PROVE  IInv'
<1>1. /\ pc = "new" /\ pc' = "exit"
      /\ UNCHANGED <<objects, kind, cap, fields, bytes, marked, threshold, pending, vmVars>>
  BY DEF OutOfMemory, collector
<1>2. Roots' = Roots /\ Held' = Held /\ Survivors' = Survivors /\ \A q : Refs(q)' = Refs(q)
  BY <1>1 DEF Roots, Objs, GlobalObjs, Held, vmVars, Survivors, Refs
<1> QED BY <1>1, <1>2 DEF IInv, TypeOK, GcTypeOK, vmVars, Sp, NoDangling, MarksClear, MarkFrontier,
                         IdleClean, ArgsOnStack, HeldRooted, Allocating, Building

\* vm_free keeps the invariant.
LEMMA VmFreePreserves ==
  ASSUME IInv, VmFree
  PROVE  IInv' /\ Roots' \cup Held' = {}
<1>1. /\ pc = "halted" /\ pc' = "freed" /\ stack' = <<>>
      /\ globals' = [g \in Global |-> NoEntry]
      /\ objects' = {} /\ bytes' = 0
      /\ kind' = [o \in Obj |-> "string"] /\ cap' = [o \in Obj |-> 0]
      /\ fields' = [o \in Obj |-> Empty]
      /\ UNCHANGED <<marked, threshold, pending, instr, args, left, container, held>>
  BY DEF VmFree, FreeAll, collector, locals
<1>2. NoInstr /\ NoInstr' /\ marked = {} /\ pending = {}
  BY <1>1, InUse DEF IInv, IdleClean, Allocating, Building, NoInstr
<1>3. Roots' = {} /\ Held' = {} /\ Survivors' = {}
  BY <1>1, <1>2, GcAssumption DEF Roots, Objs, GlobalObjs, Held, Survivors, NoInstr
<1>4. TypeOK'
  BY <1>1, <1>2, VmAssumption DEF IInv, TypeOK, GcTypeOK, Empty, Kind, Value, Sp
<1> QED BY <1>1, <1>2, <1>3, <1>4
        DEF IInv, IdleClean, ArgsOnStack, HeldRooted, MarksClear, MarkFrontier, NoDangling,
            Allocating, Building

\* A step that changes nothing keeps the invariant.
LEMMA StutterPreserves ==
  ASSUME IInv, UNCHANGED vars
  PROVE  IInv'
<1>1. UNCHANGED <<objects, kind, cap, fields, marked, bytes, threshold, pc, pending,
                  stack, globals, instr, args, left, container, held>>
  BY DEF vars, gcVars, vmVars
<1>2. Roots' = Roots /\ Held' = Held /\ Survivors' = Survivors /\ \A q : Refs(q)' = Refs(q)
  BY <1>1 DEF Roots, Objs, GlobalObjs, Held, Survivors, Refs
<1> QED BY <1>1, <1>2 DEF IInv, TypeOK, GcTypeOK, Sp, NoDangling, MarksClear, MarkFrontier,
                         IdleClean, ArgsOnStack, HeldRooted, Allocating, Building, TwoStage, NoInstr

\* Every step of the machine keeps the invariant.
LEMMA NextPreserves ==
  ASSUME IInv, [Next]_vars
  PROVE  IInv'
<1> TypeOK /\ Typed
  BY DEF IInv, TypeOK, Typed, Sp
<1>1. CASE Plain
  BY <1>1, PlainHasEffect, PlainPreserves
<1>2. CASE Containers
  BY <1>2, ContainersHaveEffect, ContainerPreserves
<1>3. CASE Allocates
  BY <1>3, AllocatesHaveEffect, BeginPreserves
<1>4. CASE Continues
  BY <1>4, NewPreserves, OutOfMemoryPreserves, FillPreserves, NextPiecePreserves, FinishPreserves
     DEF Continues
<1>5. CASE Collect /\ UNCHANGED vmVars
  BY <1>5, CollectPreserves
<1>6. CASE VmFree
  BY <1>6, VmFreePreserves
<1>7. CASE Done \/ UNCHANGED vars
  BY <1>7, StutterPreserves DEF Done
<1> QED BY <1>1, <1>2, <1>3, <1>4, <1>5, <1>6, <1>7 DEF Next

\* The inductive invariant of the machine (vm.c and gc.c together).
THEOREM Invariance == Spec => []IInv
<1>1. Init => IInv
  BY InvInit
<1>2. IInv /\ [Next]_vars => IInv'
  BY NextPreserves
<1> QED BY <1>1, <1>2, PTL DEF Spec

\* Every variable keeps its type, and the stack its bound.
THEOREM TypeCorrect == Spec => []TypeOK
<1>1. IInv => TypeOK
  BY DEF IInv
<1> QED BY <1>1, Invariance, PTL

\* No reference in use leads to freed memory, and none will after a sweep.
THEOREM NoUseAfterFree == Spec => []NoDangling
<1>1. IInv => NoDangling
  BY DEF IInv
<1> QED BY <1>1, Invariance, PTL

\* value_equals and append_value find every mark bit clear.
THEOREM MarksStayClear == Spec => []MarksClear
<1>1. IInv => MarksClear
  BY DEF IInv
<1> QED BY <1>1, Invariance, PTL
-----------------------------------------------------------------------------
(***************************************************************************)
(* Reachability: a collection keeps what is reachable and nothing else     *)
(***************************************************************************)
\* What a reachable object refers to is reachable.
LEMMA ReachStep ==
  /\ \A o \in (Roots \cup Held) \cap Obj : o \in MH!Reach
  /\ \A o \in MH!Reach : Refs(o) \subseteq MH!Reach
BY DEF MH!Reach, MH!Closed, MH!Refs, Refs

\* Whatever contains the roots and is closed contains all that is reachable.
LEMMA ReachLeast ==
  ASSUME NEW S \in SUBSET Obj, Roots \cup Held \subseteq S, \A o \in S : Refs(o) \subseteq S
  PROVE  MH!Reach \subseteq S
BY DEF MH!Reach, MH!Closed, MH!Refs, Refs

\* The roots of the machine are objects.
LEMMA RootsAreObjects ==
  ASSUME TypeOK
  PROVE  Roots \cup Held \subseteq Obj
BY DEF TypeOK, Roots, Objs, GlobalObjs, Held

\* Nothing that a collection decides on depends on anything it changes.
LEMMA ReachUnchanged ==
  ASSUME UNCHANGED <<fields, Roots, Held>>
  PROVE  MH!Reach' = MH!Reach
BY DEF MH!Reach, MH!Closed, MH!Refs

\* In a sweep, the marked objects include all that is reachable.
LEMMA SweepCover ==
  ASSUME IInv, pc = "sweep"
  PROVE  MH!Reach \subseteq marked
<1>1. marked \in SUBSET Obj /\ Survivors = marked
  BY DEF IInv, MarkFrontier, Survivors, TypeOK, GcTypeOK
<1>2. Roots \cup Held \subseteq marked /\ \A o \in marked : Refs(o) \subseteq marked
  BY <1>1 DEF IInv, NoDangling
<1> QED BY <1>1, <1>2, ReachLeast

\* Every step keeps marks on reachable objects only.
LEMMA MarkedReachableStep ==
  ASSUME IInv, IInv', MarkedReachable, [Next]_vars
  PROVE  MarkedReachable'
<1> USE DEF MarkedReachable
<1> TypeOK /\ Typed /\ TypeOK' /\ GcTypeOK /\ GcTypeOK'
  BY DEF IInv, TypeOK, Typed, Sp
<1>1. ASSUME pc' \notin {"mark", "sweep"} PROVE MarkedReachable'
  BY <1>1
<1>2. ASSUME marked' = {}, pending' \subseteq Roots' PROVE MarkedReachable'
  <2>1. Roots' \subseteq MH!Reach'
    <3>1. (Roots \cup Held \subseteq Obj)'
      BY DEF TypeOK, Roots, Objs, GlobalObjs, Held
    <3>2. \A o \in ((Roots \cup Held) \cap Obj)' : o \in MH!Reach'
      BY DEF MH!Reach, MH!Closed, MH!Refs
    <3> QED BY <3>1, <3>2
  <2> QED BY <1>2, <2>1
<1>3. CASE Plain
  BY <1>1, <1>3, PlainHasEffect DEF PlainEffect
<1>4. CASE Containers
  BY <1>1, <1>4, ContainersHaveEffect DEF ContainerEffect
<1>5. CASE Allocates
  <2>1. BeginEffect
    BY <1>5, AllocatesHaveEffect
  <2>2. marked' = {} /\ pending' \subseteq Roots'
    BY <2>1, InUse DEF BeginEffect
  <2> QED BY <1>2, <2>2
<1>6. CASE Continues
  <2>1. CASE \E o \in Obj : New(o)
    BY <1>1, <2>1, NewHasEffect
  <2>2. CASE OutOfMemory \/ FillArray \/ FillMap \/ FinishFill
    BY <1>1, <2>2, FillHasEffect, FinishHasEffect DEF OutOfMemory
  <2>3. CASE NextPiece
    <3>1. /\ pc = "fill" /\ marked' = marked /\ Roots' = Roots
          /\ pending' = Roots \/ pending' = pending
      BY <2>3 DEF NextPiece, Filling, MaybeCollect, vmVars, Roots, Objs, GlobalObjs
    <3> QED BY <1>2, <3>1, InUse
  <2> QED BY <1>6, <2>1, <2>2, <2>3 DEF Continues
<1>7. CASE Collect /\ UNCHANGED vmVars
  <2>1. Roots' = Roots /\ Held' = Held
    BY <1>7 DEF Roots, Objs, GlobalObjs, Held, vmVars
  <2>2. CASE \E o \in Obj : MarkObject(o)
    <3>1. PICK o \in Obj : MarkObject(o)
      BY <2>2
    <3>2. /\ pc = "mark" /\ o \in pending /\ fields' = fields
          /\ marked' = marked \cup {o}
          /\ pending' \subseteq pending \cup Refs(o)
      BY <3>1 DEF MarkObject
    <3>3. MH!Reach' = MH!Reach
      BY <2>1, <3>2, ReachUnchanged
    <3> QED BY <3>2, <3>3, ReachStep
  <2>3. CASE BeginSweep
    <3>1. pc = "mark" /\ UNCHANGED <<fields, marked, pending>>
      BY <2>3 DEF BeginSweep
    <3> QED BY <2>1, <3>1, ReachUnchanged
  <2>4. CASE \E o \in Obj : FreeObject(o)
    <3>1. PICK o \in Obj : FreeObject(o)
      BY <2>4
    <3>2. /\ pc = "sweep" /\ o \notin marked
          /\ fields' = [fields EXCEPT ![o] = Empty]
          /\ marked' = marked /\ pending' = pending
      BY <3>1 DEF FreeObject
    <3>3. marked \subseteq Obj /\ Survivors = marked /\ pending = {}
      BY <3>2 DEF IInv, MarkFrontier, Survivors, GcTypeOK
    <3>4. Roots \cup Held \subseteq marked /\ \A p \in marked : Refs(p) \subseteq marked
      BY <3>2, <3>3 DEF IInv, NoDangling
    <3>5. \A p \in marked : fields'[p] = fields[p]
      BY <3>2, <3>3 DEF GcTypeOK
    <3>6. ASSUME NEW S \in SUBSET Obj, Roots \cup Held \subseteq S,
                 \A p \in S : {fields'[p][s] : s \in Slot} \cap Obj \subseteq S
          PROVE  marked \subseteq S
      <4>1. Roots \cup Held \subseteq S \cap marked
        BY <3>4, <3>6
      <4>2. \A p \in S \cap marked : Refs(p) \subseteq S \cap marked
        BY <3>4, <3>5, <3>6 DEF Refs
      <4>3. MH!Reach \subseteq S \cap marked
        BY <4>1, <4>2, ReachLeast
      <4> QED BY <3>2, <4>3
    <3>7. marked \subseteq MH!Reach'
      BY <2>1, <3>3, <3>6 DEF MH!Reach, MH!Closed, MH!Refs
    <3> QED BY <3>2, <3>3, <3>7
  <2>5. CASE EndCollect
    BY <1>1, <2>5 DEF EndCollect
  <2> QED BY <1>7, <2>2, <2>3, <2>4, <2>5 DEF Collect
<1>8. CASE VmFree
  BY <1>1, <1>8 DEF VmFree
<1>9. CASE Done \/ UNCHANGED vars
  <2>1. UNCHANGED <<fields, Roots, Held, marked, pending, pc>>
    BY <1>9 DEF Done, vars, gcVars, vmVars, Roots, Objs, GlobalObjs, Held
  <2> QED BY <2>1, ReachUnchanged
<1> QED BY <1>3, <1>4, <1>5, <1>6, <1>7, <1>8, <1>9 DEF Next

\* mark_object never marks, nor is it ever called on, an object that the
\* program cannot reach.
THEOREM MarksOnlyReachable == Spec => []MarkedReachable
<1>1. Init => MarkedReachable
  BY DEF Init, GcInit, MarkedReachable
<1>2. IInv /\ IInv' /\ MarkedReachable /\ [Next]_vars => MarkedReachable'
  BY MarkedReachableStep
<1> QED BY <1>1, <1>2, Invariance, PTL DEF Spec

\* When the sweep is over, the registered objects are the reachable ones,
\* whatever cycles the garbage had.
THEOREM CollectsExactly == Spec => []CollectionExact
<1>1. ASSUME IInv, MarkedReachable PROVE CollectionExact
  <2>1. CASE pc = "sweep" /\ objects \subseteq marked
    <3>1. objects = marked
      BY <1>1, <2>1 DEF IInv, MarkFrontier
    <3>2. MH!Reach \subseteq marked
      BY <1>1, <2>1, SweepCover
    <3> QED BY <1>1, <2>1, <3>1, <3>2 DEF MarkedReachable, CollectionExact
  <2> QED BY <2>1 DEF CollectionExact
<1> QED BY <1>1, Invariance, MarksOnlyReachable, PTL
-----------------------------------------------------------------------------
(***************************************************************************)
(* The machine implements the managed heap                                 *)
(***************************************************************************)
\* The machine starts as a managed heap.
LEMMA RefinesInit ==
  ASSUME Init
  PROVE  MH!Init
<1>1. IInv
  BY InvInit
<1>2. objects = {} /\ fields = [o \in Obj |-> Empty]
  BY DEF Init, GcInit
<1>3. Roots \cup Held = {}
  BY <1>1, <1>2 DEF IInv, NoDangling, Survivors
<1>4. \A o \in Obj : MH!Refs(o) = {}
  BY <1>2, GcAssumption DEF MH!Refs, Empty
<1> QED BY <1>2, <1>3, <1>4 DEF MH!Init

\* A step that keeps the objects, moves references along what is in use and
\* writes into one object in use.
LEMMA RefinesMutate ==
  ASSUME TypeOK, objects' = objects,
         Roots' \cup Held' \subseteq MH!Reach,
         \/ fields' = fields
         \/ \E c \in MH!Reach : /\ \A p \in Obj \ {c} : fields'[p] = fields[p]
                                /\ Refs(c)' \subseteq MH!Reach
  PROVE  MH!Next
<1>1. ASSUME NEW c PROVE Refs(c)' = MH!Refs(c)'
  BY DEF Refs, MH!Refs
<1> QED BY <1>1 DEF MH!Next, MH!Mutate, MH!OnlyChanges

\* Every step of the machine is a step of the managed heap, or none.
LEMMA RefinesNext ==
  ASSUME IInv, IInv', [Next]_vars
  PROVE  [MH!Next]_MH!mhVars
<1> TypeOK /\ Typed /\ GcTypeOK
  BY DEF IInv, TypeOK, Typed, Sp
<1> /\ Roots \cup Held \subseteq MH!Reach
    /\ \A o \in MH!Reach : Refs(o) \subseteq MH!Reach
  BY RootsAreObjects, ReachStep
<1>1. CASE Plain
  <2>1. PlainEffect
    BY <1>1, PlainHasEffect
  <2>2. Held' = Held
    BY <2>1 DEF PlainEffect, locals, Held
  <2> QED BY <2>1, <2>2, RefinesMutate DEF PlainEffect
<1>2. CASE Containers
  <2>1. ContainerEffect
    BY <1>2, ContainersHaveEffect
  <2>2. Held' = Held
    BY <2>1 DEF ContainerEffect, locals, Held
  <2>3. PICK c \in objects \cap Roots :
          /\ \A p \in Obj \ {c} : fields'[p] = fields[p]
          /\ Refs(c)' \subseteq Refs(c) \cup Roots
          /\ Roots' \subseteq Roots \cup Refs(c)
    BY <2>1 DEF ContainerEffect
  <2>4. c \in MH!Reach /\ Refs(c)' \subseteq MH!Reach /\ Roots' \cup Held' \subseteq MH!Reach
    BY <2>2, <2>3
  <2> QED BY <2>1, <2>3, <2>4, RefinesMutate DEF ContainerEffect
<1>3. CASE Allocates
  <2>1. BeginEffect
    BY <1>3, AllocatesHaveEffect
  <2>2. NoInstr
    BY <2>1 DEF BeginEffect, IInv, IdleClean, Allocating, Building
  <2>3. Held' = held'
    BY <2>1, <2>2, GcAssumption DEF BeginEffect, Held, NoInstr
  <2> QED BY <2>1, <2>3, RefinesMutate DEF BeginEffect
<1>4. CASE Continues
  <2>1. CASE \E o \in Obj : New(o)
    <3>1. PICK o \in Obj : NewEffect(o)
      BY <2>1, NewHasEffect
    <3>2. PICK p \in Roots \cup Held \cup {o} :
            /\ \A q \in Obj \ {o, p} : fields'[q] = fields[q]
            /\ Refs(p)' \subseteq Refs(p) \cup {o}
      BY <3>1 DEF NewEffect
    <3>3. Roots' \cup Held' \subseteq MH!Reach \cup {o}
      BY <3>1 DEF NewEffect
    <3>4. Refs(p)' = MH!Refs(p)' /\ Refs(o)' = MH!Refs(o)'
      BY DEF Refs, MH!Refs
    <3>5. \/ MH!OnlyChanges(o)
          \/ \E c \in MH!Reach \ {o} : /\ \A q \in Obj \ {o, c} : fields'[q] = fields[q]
                                       /\ MH!Refs(c)' \subseteq MH!Reach \cup {o}
      <4>1. CASE p = o
        BY <3>2, <4>1 DEF MH!OnlyChanges
      <4>2. CASE p # o
        <5>1. p \in MH!Reach \ {o} /\ Refs(p)' \subseteq MH!Reach \cup {o}
          BY <3>2, <4>2
        <5> QED BY <3>2, <3>4, <5>1
      <4> QED BY <4>1, <4>2
    <3>6. MH!Allocate(o)
      BY <3>1, <3>3, <3>4, <3>5 DEF MH!Allocate, NewEffect
    <3> QED BY <3>6 DEF MH!Next
  <2>2. CASE OutOfMemory \/ NextPiece
    <3>1. UNCHANGED <<objects, fields, Roots, Held>>
      BY <2>2 DEF OutOfMemory, NextPiece, MaybeCollect, vmVars, Roots, Objs, GlobalObjs, Held
    <3> QED BY <3>1 DEF MH!mhVars
  <2>3. CASE FillArray \/ FillMap
    <3>1. FillEffect
      BY <2>3, FillHasEffect
    <3>2. PICK c \in Held : /\ \A q \in Obj \ {c} : fields'[q] = fields[q]
                            /\ Refs(c)' \subseteq Refs(c) \cup Roots
      BY <3>1 DEF FillEffect
    <3>3. c \in MH!Reach /\ Refs(c)' \subseteq MH!Reach
      BY <3>2
    <3> QED BY <3>1, <3>2, <3>3, RefinesMutate DEF FillEffect
  <2>4. CASE FinishFill
    <3>1. UNCHANGED <<objects, fields>> /\ Held' = {} /\ Roots' \subseteq Roots \cup Held
      BY <2>4, FinishHasEffect
    <3> QED BY <3>1, RefinesMutate
  <2> QED BY <1>4, <2>1, <2>2, <2>3, <2>4 DEF Continues
<1>5. CASE Collect /\ UNCHANGED vmVars
  <2>1. Roots' = Roots /\ Held' = Held
    BY <1>5 DEF Roots, Objs, GlobalObjs, Held, vmVars
  <2>2. CASE \E o \in Obj : FreeObject(o)
    <3>1. PICK o \in Obj : FreeObject(o)
      BY <2>2
    <3>2. /\ pc = "sweep" /\ o \in objects \ marked /\ objects' = objects \ {o}
          /\ fields' = [fields EXCEPT ![o] = Empty]
      BY <3>1 DEF FreeObject
    <3>3. o \notin MH!Reach
      BY <3>2, SweepCover
    <3>4. \A p \in Obj \ {o} : fields'[p] = fields[p]
      BY <3>2 DEF GcTypeOK
    <3>5. MH!Reclaim(o)
      BY <2>1, <3>2, <3>3, <3>4 DEF MH!Reclaim, MH!OnlyChanges
    <3> QED BY <3>5 DEF MH!Next
  <2>3. CASE (\E o \in Obj : MarkObject(o)) \/ BeginSweep \/ EndCollect
    <3>1. UNCHANGED <<objects, fields>>
      BY <2>3 DEF MarkObject, BeginSweep, EndCollect
    <3> QED BY <2>1, <3>1 DEF MH!mhVars
  <2> QED BY <1>5, <2>2, <2>3 DEF Collect
<1>6. CASE VmFree
  <2>1. objects' = {} /\ fields' = [o \in Obj |-> Empty]
    BY <1>6 DEF VmFree, FreeAll
  <2>2. Roots' \cup Held' = {}
    BY <1>6, VmFreePreserves
  <2>3. \A o \in Obj : MH!Refs(o)' = {}
    BY <2>1, GcAssumption DEF MH!Refs, Empty
  <2> QED BY <2>1, <2>2, <2>3 DEF MH!Next, MH!Shutdown
<1>7. CASE Done \/ UNCHANGED vars
  <2>1. UNCHANGED <<objects, fields, Roots, Held>>
    BY <1>7 DEF Done, vars, gcVars, vmVars, Roots, Objs, GlobalObjs, Held
  <2> QED BY <2>1 DEF MH!mhVars
<1> QED BY <1>1, <1>2, <1>3, <1>4, <1>5, <1>6, <1>7 DEF Next

\* Every behaviour of the machine is one of the managed heap: references flow
\* only along what is reachable, and only the unreachable is reclaimed.
THEOREM MachineIsManagedHeap == Spec => ManagedHeap
<1>1. Init => MH!Init
  BY RefinesInit
<1>2. IInv /\ IInv' /\ [Next]_vars => [MH!Next]_MH!mhVars
  BY RefinesNext
<1> QED BY <1>1, <1>2, Invariance, PTL DEF Spec, ManagedHeap, MH!Spec
-----------------------------------------------------------------------------
(***************************************************************************)
(* The byte counter covers the heap                                        *)
(***************************************************************************)
\* A container under construction has the type of its instruction, so what is
\* pushed into an array is not a key.
ContainerKind == container # Nil => kind[container] = IF instr = "map" THEN "map" ELSE "array"

CellsCovered == IsFiniteSet(Cells) /\ IsFiniteSet(KeyCells) /\ BytesCoverHeap

\* At most n cells, in a row, are new.
LEMMA CellsAdded ==
  ASSUME NEW S, IsFiniteSet(S), NEW o, NEW a \in Int, NEW n \in Nat,
         NEW T, T \subseteq S \cup ({o} \X (a..(a + n - 1)))
  PROVE  IsFiniteSet(T) /\ Cardinality(T) \in Nat /\ Cardinality(T) <= Cardinality(S) + n
<1> DEFINE R == {o} \X (a..(a + n - 1))
<1>1. IsFiniteSet(a..(a + n - 1)) /\ Cardinality(a..(a + n - 1)) = n
  BY FS_Interval
<1>2. IsFiniteSet({o}) /\ Cardinality({o}) = 1
  BY FS_Singleton
<1>3. IsFiniteSet(R) /\ Cardinality(R) = 1 * n
  BY <1>1, <1>2, FS_Product
<1>4. /\ Cardinality(S) \in Nat /\ Cardinality(R) \in Nat
      /\ IsFiniteSet(S \cap R) /\ Cardinality(S \cap R) \in Nat
  BY <1>3, FS_CardinalityType, FS_Intersection
<1>5. /\ IsFiniteSet(S \cup R)
      /\ Cardinality(S \cup R) = Cardinality(S) + Cardinality(R) - Cardinality(S \cap R)
  BY <1>3, FS_Union
<1>6. IsFiniteSet(T) /\ Cardinality(T) <= Cardinality(S \cup R)
  BY <1>5, FS_Subset
<1> QED BY <1>3, <1>4, <1>5, <1>6, FS_CardinalityType

\* At most one key is new.
LEMMA KeyAdded ==
  ASSUME NEW S, IsFiniteSet(S), NEW e, NEW T, T \subseteq S \cup {e}
  PROVE  /\ IsFiniteSet(T) /\ Cardinality(T) \in Nat /\ Cardinality(T) <= Cardinality(S) + 1
         /\ T \subseteq S => Cardinality(T) <= Cardinality(S)
<1>1. Cardinality(S) \in Nat
  BY FS_CardinalityType
<1>2. IsFiniteSet(S \cup {e}) /\ Cardinality(S \cup {e}) \in Nat
  BY FS_AddElement, FS_CardinalityType
<1>3. Cardinality(S \cup {e}) <= Cardinality(S) + 1
  <2>1. Cardinality(S \cup {e}) = IF e \in S THEN Cardinality(S) ELSE Cardinality(S) + 1
    BY FS_AddElement
  <2> QED BY <1>1, <2>1
<1>4. IsFiniteSet(T) /\ Cardinality(T) \in Nat /\ Cardinality(T) <= Cardinality(S \cup {e})
  BY <1>2, FS_Subset, FS_CardinalityType
<1> QED BY <1>1, <1>2, <1>3, <1>4, FS_Subset

\* What the counter may gain: the cells and keys that are new.
LEMMA CoverGrows ==
  ASSUME CellsCovered, bytes \in Int, NEW o, NEW a \in Int, NEW n \in Nat, NEW e, NEW d \in {0, 1},
         Cells' \subseteq Cells \cup ({o} \X (a..(a + n - 1))),
         KeyCells' \subseteq KeyCells \cup {e},
         d = 0 => KeyCells' \subseteq KeyCells,
         bytes' = bytes + n + d
  PROVE  CellsCovered'
<1>1. /\ IsFiniteSet(Cells') /\ Cardinality(Cells') \in Nat
      /\ Cardinality(Cells') <= Cardinality(Cells) + n
  BY CellsAdded DEF CellsCovered
<1>2. /\ IsFiniteSet(KeyCells') /\ Cardinality(KeyCells') \in Nat
      /\ Cardinality(KeyCells') <= Cardinality(KeyCells) + d
  <2>1. /\ IsFiniteSet(KeyCells') /\ Cardinality(KeyCells') \in Nat
        /\ Cardinality(KeyCells') <= Cardinality(KeyCells) + 1
        /\ KeyCells' \subseteq KeyCells => Cardinality(KeyCells') <= Cardinality(KeyCells)
    BY KeyAdded DEF CellsCovered
  <2>2. Cardinality(KeyCells) \in Nat
    BY FS_CardinalityType DEF CellsCovered
  <2> QED BY <2>1, <2>2
<1>3. Cardinality(Cells) \in Nat /\ Cardinality(KeyCells) \in Nat
  BY FS_CardinalityType DEF CellsCovered
<1> QED BY <1>1, <1>2, <1>3 DEF CellsCovered, BytesCoverHeap, HeapSize, KeyBytes

\* Changing the capacity of one object upwards adds cells behind its old ones.
LEMMA CapGrows ==
  ASSUME GcTypeOK, NEW c \in objects, NEW m \in Nat, m >= cap[c],
         objects' = objects, cap' = [cap EXCEPT ![c] = m]
  PROVE  /\ m - cap[c] \in Nat /\ cap[c] + 1 \in Int
         /\ Cells' \subseteq Cells \cup ({c} \X ((cap[c] + 1)..(cap[c] + 1 + (m - cap[c]) - 1)))
<1>1. c \in Obj /\ cap \in [Obj -> Nat]
  BY DEF GcTypeOK
<1>2. \A q \in objects : cap'[q] = IF q = c THEN m ELSE cap[q]
  BY <1>1 DEF GcTypeOK
<1>3. 0..m = (0..cap[c]) \cup ((cap[c] + 1)..(cap[c] + 1 + (m - cap[c]) - 1))
  BY <1>1
<1>4. ASSUME NEW q \in objects
      PROVE  {q} \X (0..cap'[q]) \subseteq
             Cells \cup ({c} \X ((cap[c] + 1)..(cap[c] + 1 + (m - cap[c]) - 1)))
  <2>1. {q} \X (0..cap[q]) \subseteq Cells
    BY DEF Cells
  <2>2. CASE q = c
    BY <1>2, <1>3, <2>1, <2>2
  <2>3. CASE q # c
    BY <1>2, <2>1, <2>3
  <2> QED BY <2>2, <2>3
<1> QED BY <1>1, <1>4 DEF Cells

\* Nothing is said about containers that are not maps, and a map that changes
\* in one slot gains at most that key.
LEMMA KeyWrite ==
  ASSUME GcTypeOK, NEW c \in objects, NEW k, NEW v,
         UNCHANGED <<objects, kind>>, fields' = [fields EXCEPT ![c][k] = v]
  PROVE  /\ KeyCells' \subseteq KeyCells \cup {<<c, k>>}
         /\ kind[c] # "map" \/ v = NoEntry \/ (k \in Slot /\ fields[c][k] # NoEntry)
               => KeyCells' \subseteq KeyCells
<1>1. /\ fields \in [Obj -> [Slot -> Value \cup {NoEntry}]] /\ objects \subseteq Obj
  BY DEF GcTypeOK
<1>2. \A q \in objects, s \in Slot : fields'[q][s] = IF q = c /\ s = k THEN v ELSE fields[q][s]
  BY <1>1
<1>3. KeyCells' = {e \in objects \X Slot : kind[e[1]] = "map" /\ fields'[e[1]][e[2]] # NoEntry}
  BY DEF KeyCells
<1>4. ASSUME NEW e \in KeyCells'
      PROVE  e \in KeyCells \/ (e = <<c, k>> /\ kind[c] = "map" /\ v # NoEntry)
  <2>1. /\ e = <<e[1], e[2]>> /\ e[1] \in objects /\ e[2] \in Slot /\ e \in objects \X Slot
        /\ kind[e[1]] = "map" /\ fields'[e[1]][e[2]] # NoEntry
    BY <1>3
  <2>2. CASE e[1] = c /\ e[2] = k
    BY <1>2, <2>1, <2>2
  <2>3. CASE ~(e[1] = c /\ e[2] = k)
    BY <1>2, <2>1, <2>3 DEF KeyCells
  <2> QED BY <2>2, <2>3
<1>5. k \in Slot /\ fields[c][k] # NoEntry /\ kind[c] = "map" => <<c, k>> \in KeyCells
  BY DEF KeyCells
<1> QED BY <1>4, <1>5

\* Arrays hold no keys, so growing one and storing into it costs cells only.
LEMMA ArrayPushCovered ==
  ASSUME GcTypeOK, CellsCovered, NEW c \in objects, kind[c] = "array", NEW v,
         UNCHANGED <<objects, kind>>, ArrayPush(c, v)
  PROVE  CellsCovered'
<1> DEFINE m == PushCap(c)
<1>1. c \in Obj /\ cap \in [Obj -> Nat] /\ m \in Nat /\ m >= cap[c] /\ bytes \in Int
  BY Growth, GcAssumption DEF GcTypeOK, PushCap
<1>2. /\ cap' = [cap EXCEPT ![c] = m] /\ bytes' = bytes + (m - cap[c]) + 0
      /\ fields' = [fields EXCEPT ![c][Count(c) + 1] = v]
  BY <1>1 DEF ArrayPush
<1>3. /\ m - cap[c] \in Nat /\ cap[c] + 1 \in Int
      /\ Cells' \subseteq Cells \cup ({c} \X ((cap[c] + 1)..(cap[c] + 1 + (m - cap[c]) - 1)))
  BY <1>1, <1>2, CapGrows
<1>4. KeyCells' \subseteq KeyCells
  BY <1>2, KeyWrite
<1> QED BY <1>1, <1>2, <1>3, <1>4, CoverGrows

\* Setting a key costs the cells the table grows by, and the key if it is new.
LEMMA MapSetCovered ==
  ASSUME GcTypeOK, CellsCovered, NEW c \in objects, NEW k \in Slot, NEW v,
         UNCHANGED <<objects, kind>>, MapSet(c, k, v)
  PROVE  CellsCovered'
<1> DEFINE m == SetCap(c)
           d == NewKeyBytes(c, k)
<1>1. /\ c \in Obj /\ cap \in [Obj -> Nat] /\ m \in Nat /\ m >= cap[c] /\ bytes \in Int
      /\ d \in {0, 1} /\ (d = 0 => fields[c][k] # NoEntry)
  BY Growth, GcAssumption DEF GcTypeOK, SetCap, NewKeyBytes
<1>2. /\ cap' = [cap EXCEPT ![c] = m] /\ bytes' = bytes + (m - cap[c]) + d
      /\ fields' = [fields EXCEPT ![c][k] = v]
  BY <1>1 DEF MapSet
<1>3. /\ m - cap[c] \in Nat /\ cap[c] + 1 \in Int
      /\ Cells' \subseteq Cells \cup ({c} \X ((cap[c] + 1)..(cap[c] + 1 + (m - cap[c]) - 1)))
  BY <1>1, <1>2, CapGrows
<1>4. KeyCells' \subseteq KeyCells \cup {<<c, k>>} /\ (d = 0 => KeyCells' \subseteq KeyCells)
  BY <1>1, <1>2, KeyWrite
<1> HIDE DEF m, d
<1> QED BY <1>1, <1>2, <1>3, <1>4, CoverGrows

\* Nothing is new, and the counter stays.
LEMMA SameCovered ==
  ASSUME CellsCovered, bytes \in Int, bytes' = bytes,
         Cells' \subseteq Cells, KeyCells' \subseteq KeyCells
  PROVE  CellsCovered'
<1>1. /\ IsFiniteSet(Cells') /\ Cardinality(Cells') \in Nat
      /\ Cardinality(Cells') <= Cardinality(Cells)
  BY FS_Subset, FS_CardinalityType DEF CellsCovered
<1>2. /\ IsFiniteSet(KeyCells') /\ Cardinality(KeyCells') \in Nat
      /\ Cardinality(KeyCells') <= Cardinality(KeyCells)
  BY FS_Subset, FS_CardinalityType DEF CellsCovered
<1>3. Cardinality(Cells) \in Nat /\ Cardinality(KeyCells) \in Nat
  BY FS_CardinalityType DEF CellsCovered
<1> QED BY <1>1, <1>2, <1>3 DEF CellsCovered, BytesCoverHeap, HeapSize, KeyBytes

LEMMA HeapSame ==
  ASSUME CellsCovered, UNCHANGED <<objects, kind, cap, fields, bytes>>
  PROVE  CellsCovered'
BY DEF CellsCovered, BytesCoverHeap, HeapSize, KeyBytes, Cells, KeyCells

\* Overwriting or deleting without counting: only where no key is added.
LEMMA WriteCovered ==
  ASSUME GcTypeOK, CellsCovered, NEW c \in objects, NEW k, NEW v,
         UNCHANGED <<objects, kind, cap, bytes>>, fields' = [fields EXCEPT ![c][k] = v],
         kind[c] # "map" \/ v = NoEntry
  PROVE  CellsCovered'
<1>1. Cells' \subseteq Cells /\ bytes \in Int
  BY DEF Cells, GcTypeOK
<1>2. KeyCells' \subseteq KeyCells
  BY KeyWrite
<1> QED BY <1>1, <1>2, SameCovered

\* A new object of capacity n has n + 1 cells and no key.
LEMMA RegisterCovered ==
  ASSUME GcTypeOK, CellsCovered, NEW o \in Obj, NEW k, NEW n \in Nat, Register(o, k, n)
  PROVE  CellsCovered'
<1>1. /\ o \notin objects /\ objects' = objects \cup {o} /\ objects \subseteq Obj
      /\ cap' = [cap EXCEPT ![o] = n] /\ kind' = [kind EXCEPT ![o] = k]
      /\ fields' = [fields EXCEPT ![o] = Empty]
      /\ bytes' = bytes + (n + 1) + 0 /\ bytes \in Int
      /\ fields \in [Obj -> [Slot -> Value \cup {NoEntry}]]
      /\ cap \in [Obj -> Nat] /\ kind \in [Obj -> Kind]
  BY DEF Register, GcTypeOK
<1>2. \A q \in objects : cap'[q] = cap[q] /\ kind'[q] = kind[q] /\ fields'[q] = fields[q]
  BY <1>1
<1>3. /\ cap'[o] = n /\ fields'[o] = Empty
      /\ \A s \in Slot : Empty[s] = NoEntry
  BY <1>1 DEF Empty
<1>4. Cells' \subseteq Cells \cup ({o} \X (0..(0 + (n + 1) - 1)))
  <2>1. Cells' = UNION {{q} \X (0..cap'[q]) : q \in objects \cup {o}}
    BY <1>1 DEF Cells
  <2>2. \A q \in objects : {q} \X (0..cap'[q]) \subseteq Cells
    BY <1>2 DEF Cells
  <2>3. {o} \X (0..cap'[o]) \subseteq {o} \X (0..(0 + (n + 1) - 1))
    BY <1>3
  <2> QED BY <2>1, <2>2, <2>3
<1>5. KeyCells' \subseteq KeyCells
  <2>1. ASSUME NEW e \in KeyCells' PROVE e \in KeyCells
    <3>1. /\ e \in (objects \cup {o}) \X Slot /\ e[1] \in objects \cup {o} /\ e[2] \in Slot
          /\ e = <<e[1], e[2]>>
          /\ kind'[e[1]] = "map" /\ fields'[e[1]][e[2]] # NoEntry
      BY <1>1, <2>1 DEF KeyCells
    <3>2. e[1] \in objects
      BY <1>3, <3>1
    <3> QED BY <1>2, <3>1, <3>2 DEF KeyCells
  <2> QED BY <2>1
<1> DEFINE N == n + 1
           a == 0
           d == 0
<1>6. /\ N \in Nat /\ a \in Int /\ d \in {0, 1} /\ bytes' = bytes + N + d
      /\ Cells' \subseteq Cells \cup ({o} \X (a..(a + N - 1)))
  BY <1>1, <1>4
<1>7. KeyCells' \subseteq KeyCells \cup {o}
  BY <1>5
<1> HIDE DEF N, a, d
<1> QED BY <1>1, <1>5, <1>6, <1>7, CoverGrows

\* Sweeping an object takes exactly its cells off the counter; its keys go too.
LEMMA FreeCovered ==
  ASSUME GcTypeOK, CellsCovered, NEW o \in Obj, FreeObject(o)
  PROVE  CellsCovered'
<1>1. /\ o \in objects /\ objects' = objects \ {o} /\ objects \subseteq Obj
      /\ cap' = [cap EXCEPT ![o] = 0] /\ kind' = [kind EXCEPT ![o] = "string"]
      /\ fields' = [fields EXCEPT ![o] = Empty]
      /\ bytes' = bytes - (1 + cap[o]) /\ bytes \in Int
      /\ fields \in [Obj -> [Slot -> Value \cup {NoEntry}]]
      /\ cap \in [Obj -> Nat] /\ kind \in [Obj -> Kind]
  BY DEF FreeObject, Size, GcTypeOK
<1>2. \A q \in objects \ {o} : cap'[q] = cap[q] /\ kind'[q] = kind[q] /\ fields'[q] = fields[q]
  BY <1>1
<1> DEFINE R == {o} \X (0..cap[o])
<1>3. IsFiniteSet(R) /\ Cardinality(R) = 1 + cap[o]
  <2>1. IsFiniteSet(0..cap[o]) /\ Cardinality(0..cap[o]) = cap[o] + 1
    BY <1>1, FS_Interval
  <2>2. IsFiniteSet({o}) /\ Cardinality({o}) = 1
    BY FS_Singleton
  <2>3. IsFiniteSet(R) /\ Cardinality(R) = 1 * (cap[o] + 1)
    BY <2>1, <2>2, FS_Product
  <2> QED BY <1>1, <2>3
<1>4. R \subseteq Cells
  BY <1>1 DEF Cells
<1>5. Cells' \subseteq Cells \ R
  <2>1. \A q \in objects \ {o} : {q} \X (0..cap'[q]) \subseteq Cells \ R
    BY <1>2 DEF Cells
  <2> QED BY <1>1, <2>1 DEF Cells
<1>6. /\ IsFiniteSet(Cells \ R) /\ Cardinality(Cells \ R) = Cardinality(Cells) - (1 + cap[o])
  <2>1. Cells \cap R = R
    BY <1>4
  <2> HIDE DEF R
  <2>2. IsFiniteSet(Cells)
    BY DEF CellsCovered
  <2>3. /\ IsFiniteSet(Cells \ R)
        /\ Cardinality(Cells \ R) = Cardinality(Cells) - Cardinality(Cells \cap R)
    BY <2>2, FS_Difference
  <2> QED BY <1>3, <2>1, <2>3
<1>7. /\ IsFiniteSet(Cells') /\ Cardinality(Cells') \in Nat
      /\ Cardinality(Cells') <= Cardinality(Cells \ R)
  BY <1>5, <1>6, FS_Subset, FS_CardinalityType
<1>8. KeyCells' \subseteq KeyCells
  BY <1>1, <1>2 DEF KeyCells
<1>9. /\ IsFiniteSet(KeyCells') /\ Cardinality(KeyCells') \in Nat
      /\ Cardinality(KeyCells') <= Cardinality(KeyCells)
  BY <1>8, FS_Subset, FS_CardinalityType DEF CellsCovered
<1>10. Cardinality(Cells) \in Nat /\ Cardinality(KeyCells) \in Nat
  BY FS_CardinalityType DEF CellsCovered
<1> QED BY <1>1, <1>6, <1>7, <1>9, <1>10 DEF CellsCovered, BytesCoverHeap, HeapSize, KeyBytes

\* A new piece of keys() or split() and the growth of its array, in one step.
LEMMA NewPieceCovered ==
  ASSUME GcTypeOK, CellsCovered, NEW o \in Obj, container \in objects,
         kind[container] = "array", NewPiece(o)
  PROVE  CellsCovered'
<1> DEFINE c == container
           m == PushCap(c)
<1>1. /\ o \notin objects /\ objects' = objects \cup {o} /\ objects \subseteq Obj /\ c \in Obj /\ c # o
      /\ kind' = [kind EXCEPT ![o] = "string"]
      /\ cap' = [cap EXCEPT ![o] = 1, ![c] = m]
      /\ bytes' = bytes + 2 + m - cap[c] /\ bytes \in Int
      /\ fields' = [fields EXCEPT ![o] = Empty, ![c][Count(c) + 1] = o]
      /\ fields \in [Obj -> [Slot -> Value \cup {NoEntry}]]
      /\ cap \in [Obj -> Nat] /\ kind \in [Obj -> Kind]
  BY DEF NewPiece, GcTypeOK
<1>2. m \in Nat /\ m >= cap[c]
  BY <1>1, Growth, GcAssumption DEF GcTypeOK, PushCap
<1>3. /\ \A q \in objects \ {c} : cap'[q] = cap[q] /\ fields'[q] = fields[q]
      /\ \A q \in objects : kind'[q] = kind[q]
      /\ cap'[c] = m /\ cap'[o] = 1 /\ kind'[o] = "string"
  BY <1>1
<1> DEFINE A == {c} \X ((cap[c] + 1)..(cap[c] + 1 + (m - cap[c]) - 1))
           B == {o} \X (0..(0 + 2 - 1))
<1>4. Cells' \subseteq (Cells \cup A) \cup B
  <2>1. 0..m = (0..cap[c]) \cup ((cap[c] + 1)..(cap[c] + 1 + (m - cap[c]) - 1))
    BY <1>1, <1>2
  <2>2. \A q \in objects : {q} \X (0..cap[q]) \subseteq Cells
    BY DEF Cells
  <2>3. ASSUME NEW q \in objects \cup {o}
        PROVE  {q} \X (0..cap'[q]) \subseteq (Cells \cup A) \cup B
    <3>1. CASE q = o
      BY <1>3, <3>1
    <3>2. CASE q = c
      BY <1>3, <2>1, <2>2, <3>2
    <3>3. CASE q # o /\ q # c
      BY <1>3, <2>2, <2>3, <3>3
    <3> QED BY <3>1, <3>2, <3>3
  <2>4. Cells' = UNION {{q} \X (0..cap'[q]) : q \in objects \cup {o}}
    BY <1>1 DEF Cells
  <2> QED BY <2>3, <2>4
<1>5. KeyCells' \subseteq KeyCells
  <2>1. ASSUME NEW e \in KeyCells' PROVE e \in KeyCells
    <3>1. /\ e[1] \in objects \cup {o} /\ e[2] \in Slot /\ e = <<e[1], e[2]>>
          /\ kind'[e[1]] = "map" /\ fields'[e[1]][e[2]] # NoEntry
      BY <1>1, <2>1 DEF KeyCells
    <3>2. e[1] \in objects \ {c}
      BY <1>3, <3>1
    <3> QED BY <1>3, <3>1, <3>2 DEF KeyCells
  <2> QED BY <2>1
<1>6. /\ m - cap[c] \in Nat /\ cap[c] + 1 \in Int
  BY <1>1, <1>2
<1> HIDE DEF m
<1>7. /\ IsFiniteSet(Cells \cup A)
      /\ Cardinality(Cells \cup A) \in Nat
      /\ Cardinality(Cells \cup A) <= Cardinality(Cells) + (m - cap[c])
  <2> DEFINE T == Cells \cup A
  <2>1. T \subseteq Cells \cup ({c} \X ((cap[c] + 1)..(cap[c] + 1 + (m - cap[c]) - 1)))
    OBVIOUS
  <2> HIDE DEF T, A
  <2>2. IsFiniteSet(T) /\ Cardinality(T) \in Nat /\ Cardinality(T) <= Cardinality(Cells) + (m - cap[c])
    BY <1>6, <2>1, CellsAdded DEF CellsCovered
  <2> QED BY <2>2 DEF T
<1>8. /\ IsFiniteSet(Cells') /\ Cardinality(Cells') \in Nat
      /\ Cardinality(Cells') <= Cardinality(Cells \cup A) + 2
  <2> DEFINE S == Cells \cup A
             T == Cells'
             a == 0
             n == 2
  <2>1. /\ T \subseteq S \cup ({o} \X (a..(a + n - 1))) /\ IsFiniteSet(S)
        /\ a \in Int /\ n \in Nat
    BY <1>4, <1>7
  <2> HIDE DEF S, T, a, n
  <2>2. IsFiniteSet(T) /\ Cardinality(T) \in Nat /\ Cardinality(T) <= Cardinality(S) + n
    BY <2>1, CellsAdded
  <2> QED BY <2>2 DEF S, T, n
<1>9. /\ IsFiniteSet(KeyCells') /\ Cardinality(KeyCells') \in Nat
      /\ Cardinality(KeyCells') <= Cardinality(KeyCells)
  BY <1>5, FS_Subset, FS_CardinalityType DEF CellsCovered
<1>10. Cardinality(Cells) \in Nat /\ Cardinality(KeyCells) \in Nat
  BY FS_CardinalityType DEF CellsCovered
<1> QED BY <1>1, <1>2, <1>7, <1>8, <1>9, <1>10 DEF CellsCovered, BytesCoverHeap, HeapSize, KeyBytes

\* The container of the instruction under way is a registered object.
LEMMA ContainerRegistered ==
  ASSUME IInv, container # Nil
  PROVE  container \in objects /\ container \in Obj /\ (pc = "sweep" => container \in marked)
BY DEF IInv, NoDangling, Survivors, Held, TypeOK, GcTypeOK, Value

\* Outside an allocation no container is being built.
LEMMA NoContainer ==
  ASSUME IInv, pc \in {"run", "halted"}
  PROVE  container = Nil
BY DEF IInv, IdleClean, Allocating, Building, NoInstr

\* Only a string, a container or the array of keys() and split() is new.
LEMMA ContainerKindNew ==
  ASSUME IInv, ContainerKind, NEW o \in Obj, New(o)
  PROVE  ContainerKind'
<1>1. kind \in [Obj -> Kind]
  BY DEF IInv, TypeOK, GcTypeOK
<1>2. CASE NewString(o)
  BY <1>2 DEF NewString, Finish, ContainerKind
<1>3. CASE NewContainer(o)
  BY <1>1, <1>3 DEF NewContainer, Register, ContainerKind
<1>4. CASE NewResult(o)
  <2>1. /\ kind' = [kind EXCEPT ![o] = "array"]
        /\ container' = Nil \/ (container' = o /\ instr' = instr /\ instr # "map")
    BY <1>4 DEF NewResult, Register
  <2> QED BY <1>1, <2>1 DEF ContainerKind
<1>5. CASE NewPiece(o)
  <2>1. /\ kind' = [kind EXCEPT ![o] = "string"] /\ o \notin objects
        /\ UNCHANGED <<instr, container>>
    BY <1>5 DEF NewPiece
  <2> QED BY <1>1, <2>1, ContainerRegistered DEF ContainerKind
<1> QED BY <1>2, <1>3, <1>4, <1>5 DEF New

\* Every step keeps the type of the container under construction.
LEMMA ContainerKindStep ==
  ASSUME IInv, ContainerKind, [Next]_vars
  PROVE  ContainerKind'
<1>1. CASE Plain
  <2>1. PlainEffect
    BY <1>1, PlainHasEffect DEF IInv, TypeOK, Typed, Sp
  <2> QED BY <2>1 DEF PlainEffect, locals, ContainerKind
<1>2. CASE Containers
  <2>1. UNCHANGED <<kind, instr, container>>
    BY <1>2 DEF Containers, IndexGet, Push, Delete, IndexSetLocal, IndexSetGlobal, IndexSet,
                StackOnly, Store, locals
  <2> QED BY <2>1 DEF ContainerKind
<1>3. CASE Allocates
  <2>1. BeginEffect
    BY <1>3, AllocatesHaveEffect DEF IInv, TypeOK, Typed, Sp
  <2> QED BY <2>1, NoContainer DEF BeginEffect, ContainerKind
<1>4. CASE Continues
  <2>1. CASE \E o \in Obj : New(o)
    BY <2>1, ContainerKindNew
  <2>2. CASE OutOfMemory \/ FillArray \/ FillMap \/ NextPiece
    BY <2>2 DEF OutOfMemory, FillArray, FillMap, NextPiece, MaybeCollect, vmVars, ContainerKind
  <2>3. CASE FinishFill
    BY <2>3 DEF FinishFill, Finish, ContainerKind
  <2> QED BY <1>4, <2>1, <2>2, <2>3 DEF Continues
<1>5. CASE Collect /\ UNCHANGED vmVars
  <2>1. UNCHANGED <<instr, container>>
    BY <1>5 DEF vmVars
  <2>2. CASE UNCHANGED kind
    BY <2>1, <2>2 DEF ContainerKind
  <2>3. CASE \E o \in Obj : FreeObject(o)
    <3>1. PICK o \in Obj : FreeObject(o)
      BY <2>3
    <3>2. /\ kind' = [kind EXCEPT ![o] = "string"] /\ kind \in [Obj -> Kind]
          /\ pc = "sweep" /\ o \notin marked
      BY <3>1 DEF FreeObject, IInv, TypeOK, GcTypeOK
    <3> QED BY <2>1, <3>2, ContainerRegistered DEF ContainerKind
  <2> QED BY <1>5, <2>2, <2>3 DEF Collect, MarkObject, BeginSweep, EndCollect
<1>6. CASE VmFree
  <2>1. container' = container /\ container = Nil
    BY <1>6, NoContainer DEF VmFree, locals
  <2> QED BY <2>1 DEF ContainerKind
<1>7. CASE Done \/ UNCHANGED vars
  BY <1>7 DEF Done, vars, gcVars, vmVars, ContainerKind
<1> QED BY <1>1, <1>2, <1>3, <1>4, <1>5, <1>6, <1>7 DEF Next

\* Stores: growth is counted, and what is not counted adds no key.
LEMMA ContainersCovered ==
  ASSUME IInv, CellsCovered, Containers
  PROVE  CellsCovered'
<1> GcTypeOK
  BY DEF IInv, TypeOK
<1>1. ASSUME IndexGet PROVE CellsCovered'
  BY <1>1, HeapSame DEF IndexGet, StackOnly
<1>2. ASSUME Push PROVE CellsCovered'
  <2>1. PICK c \in objects : kind[c] = "array" /\ ArrayPush(c, Top) /\ UNCHANGED <<objects, kind>>
    BY <1>2 DEF Push, Store
  <2> QED BY <2>1, ArrayPushCovered
<1>3. ASSUME Delete PROVE CellsCovered'
  <2>1. PICK c \in objects, k \in Slot :
          fields' = [fields EXCEPT ![c][k] = NoEntry] /\ UNCHANGED <<objects, kind, cap, bytes>>
    BY <1>3 DEF Delete, Store, MapDelete
  <2> QED BY <2>1, WriteCovered
<1>4. ASSUME NEW c, IndexSet(c) PROVE CellsCovered'
  <2>1. c \in objects /\ UNCHANGED <<objects, kind>>
    BY <1>4 DEF IndexSet, Store
  <2>2. CASE kind[c] = "map"
    <3>1. PICK k \in Slot : MapSet(c, k, Top)
      BY <1>4, <2>2 DEF IndexSet
    <3> QED BY <2>1, <3>1, MapSetCovered
  <2>3. CASE kind[c] # "map"
    <3>1. PICK k \in Used(c) : fields' = [fields EXCEPT ![c][k] = Top] /\ UNCHANGED <<cap, bytes>>
      BY <1>4, <2>3 DEF IndexSet
    <3> QED BY <2>1, <2>3, <3>1, WriteCovered
  <2> QED BY <2>2, <2>3
<1> QED BY <1>1, <1>2, <1>3, <1>4 DEF Containers, IndexSetLocal, IndexSetGlobal

\* New objects and the filling of containers.
LEMMA ContinuesCovered ==
  ASSUME IInv, ContainerKind, CellsCovered, Continues
  PROVE  CellsCovered'
<1> GcTypeOK /\ 1 \in Nat /\ Initial \in Nat
  BY InitialIsNat DEF IInv, TypeOK
<1>1. ASSUME NEW o \in Obj, New(o) PROVE CellsCovered'
  <2>1. CASE NewString(o) \/ NewContainer(o) \/ NewResult(o)
    <3>1. Register(o, "string", 1) \/ Register(o, instr, Initial) \/ Register(o, "array", Initial)
      BY <2>1 DEF NewString, NewContainer, NewResult
    <3> QED BY <3>1, RegisterCovered
  <2>2. CASE NewPiece(o)
    <3>1. container # Nil /\ instr # "map"
      BY <2>2 DEF NewPiece
    <3>2. container \in objects /\ kind[container] = "array"
      BY <3>1, ContainerRegistered DEF ContainerKind
    <3> QED BY <2>2, <3>2, NewPieceCovered
  <2> QED BY <1>1, <2>1, <2>2 DEF New
<1>2. ASSUME FillArray \/ FillMap PROVE CellsCovered'
  <2>1. container # Nil /\ UNCHANGED <<objects, kind>>
    BY <1>2 DEF FillArray, FillMap, Filling, IInv, ArgsOnStack, Building
  <2>2. container \in objects
    BY <2>1, ContainerRegistered
  <2>3. CASE FillArray
    <3>1. PICK c \in objects : c = container
      BY <2>2
    <3>2. kind[c] = "array" /\ ArrayPush(c, NextElement)
      BY <2>1, <2>3, <3>1 DEF FillArray, ContainerKind
    <3> QED BY <2>1, <3>2, ArrayPushCovered
  <2>4. CASE FillMap
    <3>1. PICK c \in objects, k \in Slot : MapSet(c, k, NextElement)
      BY <2>2, <2>4 DEF FillMap
    <3> QED BY <2>1, <3>1, MapSetCovered
  <2> QED BY <1>2, <2>3, <2>4
<1>3. ASSUME OutOfMemory \/ NextPiece \/ FinishFill PROVE CellsCovered'
  BY <1>3, HeapSame DEF OutOfMemory, NextPiece, MaybeCollect, FinishFill
<1> QED BY <1>1, <1>2, <1>3 DEF Continues

\* Every step keeps the counter at or above what is registered.
LEMMA CoverStep ==
  ASSUME IInv, ContainerKind, CellsCovered, [Next]_vars
  PROVE  CellsCovered'
<1> GcTypeOK
  BY DEF IInv, TypeOK
<1>1. CASE Plain
  <2>1. PlainEffect
    BY <1>1, PlainHasEffect DEF IInv, TypeOK, Typed, Sp
  <2> QED BY <2>1, HeapSame DEF PlainEffect
<1>2. CASE Containers
  BY <1>2, ContainersCovered
<1>3. CASE Allocates
  <2>1. BeginEffect
    BY <1>3, AllocatesHaveEffect DEF IInv, TypeOK, Typed, Sp
  <2> QED BY <2>1, HeapSame DEF BeginEffect
<1>4. CASE Continues
  BY <1>4, ContinuesCovered
<1>5. CASE Collect /\ UNCHANGED vmVars
  <2>1. ASSUME NEW o \in Obj, FreeObject(o) PROVE CellsCovered'
    BY <2>1, FreeCovered
  <2>2. CASE UNCHANGED <<objects, kind, cap, fields, bytes>>
    BY <2>2, HeapSame
  <2> QED BY <1>5, <2>1, <2>2 DEF Collect, MarkObject, BeginSweep, EndCollect
<1>6. CASE VmFree
  <2>1. objects' = {} /\ bytes' = 0
    BY <1>6 DEF VmFree, FreeAll
  <2>2. Cells' = {} /\ KeyCells' = {}
    BY <2>1 DEF Cells, KeyCells
  <2> QED BY <2>1, <2>2, FS_EmptySet DEF CellsCovered, BytesCoverHeap, HeapSize, KeyBytes
<1>7. CASE Done \/ UNCHANGED vars
  BY <1>7, HeapSame DEF Done, vars, gcVars
<1> QED BY <1>1, <1>2, <1>3, <1>4, <1>5, <1>6, <1>7 DEF Next

\* vm->bytes_allocated is never below what the registered objects and the keys
\* of maps take up: no subtraction in sweep or gc_map_grow wraps around.
THEOREM BytesAlwaysCover == Spec => []BytesCoverHeap
<1>1. Init => ContainerKind /\ CellsCovered
  <2> SUFFICES ASSUME Init PROVE ContainerKind /\ CellsCovered
    OBVIOUS
  <2>1. objects = {} /\ bytes = 0 /\ container = Nil
    BY DEF Init, GcInit, NoInstr
  <2>2. Cells = {} /\ KeyCells = {}
    BY <2>1 DEF Cells, KeyCells
  <2> QED BY <2>1, <2>2, FS_EmptySet DEF ContainerKind, CellsCovered, BytesCoverHeap, HeapSize, KeyBytes
<1>2. IInv /\ ContainerKind /\ CellsCovered /\ [Next]_vars => ContainerKind' /\ CellsCovered'
  BY ContainerKindStep, CoverStep
<1>3. CellsCovered => BytesCoverHeap
  BY DEF CellsCovered
<1> QED BY <1>1, <1>2, <1>3, Invariance, PTL DEF Spec
-----------------------------------------------------------------------------
(***************************************************************************)
(* ManagedHeap keeps its promise: its rules about where references may     *)
(* flow and what may be reclaimed are enough for memory safety, in a heap  *)
(* of any objects with any slots.                                          *)
(***************************************************************************)
CONSTANTS HeapObj, HeapSlot
VARIABLES heapAlive, heapRoots, heapFields

Heap == INSTANCE ManagedHeap WITH Obj <- HeapObj, Slot <- HeapSlot,
                                  alive <- heapAlive, roots <- heapRoots, fields <- heapFields

\* The reachable objects contain the roots and all that they refer to.
LEMMA ReachIsClosed ==
  ASSUME heapRoots \subseteq HeapObj
  PROVE  heapRoots \subseteq Heap!Reach /\ Heap!Closed(Heap!Reach)
BY DEF Heap!Reach, Heap!Closed, Heap!Refs

\* A set that is closed after a step bounds what is reachable after it.
LEMMA ReachBound ==
  ASSUME NEW S \in SUBSET HeapObj, heapRoots' \subseteq S, \A o \in S : Heap!Refs(o)' \subseteq S
  PROVE  Heap!Reach' \subseteq S
BY DEF Heap!Reach, Heap!Closed, Heap!Refs

HeapInv == heapRoots \subseteq HeapObj /\ Heap!Safe

\* Every step of a managed heap keeps the reachable objects alive.
LEMMA HeapStep ==
  ASSUME HeapInv, [Heap!Next]_Heap!mhVars
  PROVE  HeapInv'
<1> USE DEF HeapInv, Heap!Safe
<1>1. /\ heapRoots \subseteq Heap!Reach /\ Heap!Reach \in SUBSET HeapObj
      /\ \A o \in Heap!Reach : Heap!Refs(o) \subseteq Heap!Reach
  BY ReachIsClosed DEF Heap!Closed, Heap!Reach
<1>2. CASE Heap!Mutate
  <2>1. \A o \in Heap!Reach : Heap!Refs(o)' \subseteq Heap!Reach
    <3>1. CASE heapFields' = heapFields
      BY <1>1, <3>1 DEF Heap!Refs
    <3>2. CASE \E o \in Heap!Reach : Heap!OnlyChanges(o) /\ Heap!Refs(o)' \subseteq Heap!Reach
      <4>1. PICK o \in Heap!Reach : Heap!OnlyChanges(o) /\ Heap!Refs(o)' \subseteq Heap!Reach
        BY <3>2
      <4>2. \A p \in Heap!Reach : p # o => Heap!Refs(p)' = Heap!Refs(p)
        BY <1>1, <4>1 DEF Heap!OnlyChanges, Heap!Refs
      <4> QED BY <1>1, <4>1, <4>2
    <3> QED BY <1>2, <3>1, <3>2 DEF Heap!Mutate
  <2>2. Heap!Reach' \subseteq Heap!Reach
    BY <1>1, <1>2, <2>1, ReachBound DEF Heap!Mutate
  <2> QED BY <1>1, <1>2, <2>2 DEF Heap!Mutate
<1>3. ASSUME NEW o \in HeapObj, Heap!Allocate(o) PROVE HeapInv'
  <2>1. \A p \in Heap!Reach \cup {o} : Heap!Refs(p)' \subseteq Heap!Reach \cup {o}
    <3>1. Heap!Refs(o)' = {}
      BY <1>3 DEF Heap!Allocate
    <3>2. CASE Heap!OnlyChanges(o)
      <4>1. \A p \in Heap!Reach : p # o => Heap!Refs(p)' = Heap!Refs(p)
        BY <1>1, <3>2 DEF Heap!OnlyChanges, Heap!Refs
      <4> QED BY <1>1, <3>1, <4>1
    <3>3. CASE \E c \in Heap!Reach \ {o} : /\ \A q \in HeapObj \ {o, c} : heapFields'[q] = heapFields[q]
                                           /\ Heap!Refs(c)' \subseteq Heap!Reach \cup {o}
      <4>1. PICK c \in Heap!Reach \ {o} :
              /\ \A q \in HeapObj \ {o, c} : heapFields'[q] = heapFields[q]
              /\ Heap!Refs(c)' \subseteq Heap!Reach \cup {o}
        BY <3>3
      <4>2. \A p \in Heap!Reach : p # o /\ p # c => Heap!Refs(p)' = Heap!Refs(p)
        BY <1>1, <4>1 DEF Heap!Refs
      <4> QED BY <1>1, <3>1, <4>1, <4>2
    <3> QED BY <1>3, <3>2, <3>3 DEF Heap!Allocate
  <2>2. heapRoots' \subseteq Heap!Reach \cup {o} /\ heapAlive' = heapAlive \cup {o}
    BY <1>3 DEF Heap!Allocate
  <2>3. Heap!Reach' \subseteq Heap!Reach \cup {o}
    BY <1>1, <2>1, <2>2, ReachBound
  <2> QED BY <1>1, <2>2, <2>3
<1>4. ASSUME NEW o \in HeapObj, Heap!Reclaim(o) PROVE HeapInv'
  <2>1. o \notin Heap!Reach /\ heapAlive' = heapAlive \ {o} /\ heapRoots' = heapRoots /\ Heap!OnlyChanges(o)
    BY <1>4 DEF Heap!Reclaim
  <2>2. \A p \in Heap!Reach : Heap!Refs(p)' = Heap!Refs(p)
    BY <1>1, <2>1 DEF Heap!OnlyChanges, Heap!Refs
  <2>3. Heap!Reach' \subseteq Heap!Reach
    BY <1>1, <2>1, <2>2, ReachBound
  <2> QED BY <1>1, <2>1, <2>3
<1>5. CASE Heap!Shutdown
  <2>1. heapRoots' = {} /\ Heap!Reach' \subseteq {}
    BY <1>5, ReachBound DEF Heap!Shutdown
  <2> QED BY <2>1
<1>6. CASE UNCHANGED Heap!mhVars
  BY <1>6 DEF Heap!mhVars, Heap!Reach, Heap!Closed, Heap!Refs
<1> QED BY <1>2, <1>3, <1>4, <1>5, <1>6 DEF Heap!Next

\* In a managed heap, whatever the program can reach exists.
THEOREM HeapIsSafe == Heap!Spec => []Heap!Safe
<1>1. Heap!Init => HeapInv
  BY DEF Heap!Init, HeapInv, Heap!Safe, Heap!Reach, Heap!Closed
<1>2. HeapInv /\ [Heap!Next]_Heap!mhVars => HeapInv'
  BY HeapStep
<1>3. HeapInv => Heap!Safe
  BY DEF HeapInv
<1> QED BY <1>1, <1>2, <1>3, PTL DEF Heap!Spec
=============================================================================
