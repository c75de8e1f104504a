------------------------------- MODULE VmHeap ------------------------------
(***************************************************************************)
(* The virtual machine of src/src/vm.c as a client of the collector: every *)
(* instruction that moves references between the operand stack, the        *)
(* globals and the heap, with the points inside it where gc_new_* may      *)
(* collect.  Any program is allowed: the next instruction is free.  What   *)
(* an instruction holds in C variables only, the collector does not see.   *)
(***************************************************************************)
EXTENDS Gc, Sequences

CONSTANTS Global,    \* names of global variables
          StackMax,  \* FEMBOY_STACK_MAX
          MaxBytes   \* bound: no key is added once bytes has reached it

ASSUME VmAssumption == /\ IsFiniteSet(Global)
                       /\ StackMax \in Nat \ {0}
                       /\ MaxBytes \in Nat

VARIABLES stack,     \* vm->stack[0 .. sp-1]
          globals,   \* vm->globals, NoEntry for a name not defined yet
          instr,     \* the instruction under way that allocates
          args,      \* stack values it replaces by its result
          left,      \* elements it still has to put into its container
          container, \* the array or map it is building, Nil before that
          held       \* objects it reads through C pointers until it ends

locals == <<instr, args, left, container, held>>
vmVars == <<stack, globals, instr, args, left, container, held>>
vars   == <<gcVars, vmVars>>

Instr == {"none", "string", "array", "map", "keys", "split"}

Sp      == Len(stack)
Top     == stack[Sp]
Drop(n) == SubSeq(stack, 1, Sp - n)

\* mark_roots: the objects among the values of the stack s and of the globals.
Objs(s)    == {s[i] : i \in 1..Len(s)} \cap Obj
GlobalObjs == {globals[g] : g \in Global} \cap Obj
Roots      == Objs(stack) \cup GlobalObjs

\* The objects the C code of the current instruction can still touch.
Held == held \cup ({container} \cap Obj)

\* The types, and the stack within FEMBOY_STACK_MAX whatever is pushed.
TypeOK ==
    /\ GcTypeOK
    /\ pc \in {"run", "mark", "sweep", "new", "fill", "halted", "exit", "freed"}
    /\ stack \in Seq(Value) /\ Sp <= StackMax
    /\ globals \in [Global -> Value \cup {NoEntry}]
    /\ instr \in Instr
    /\ args \in Nat /\ left \in Nat
    /\ container \in Value
    /\ held \subseteq Obj

NoInstr == instr = "none" /\ args = 0 /\ left = 0 /\ container = Nil /\ held = {}

Init == /\ GcInit
        /\ stack = <<>>
        /\ globals = [g \in Global |-> NoEntry]
        /\ NoInstr
-----------------------------------------------------------------------------
\* runtime_error: clears the stack (main then releases everything).
Fail == stack' = <<>> /\ pc' = "halted"

\* Mutant of PushOrFail: the limit is checked one too late.
PushOrFailLate(s, v) == IF Len(s) <= StackMax THEN stack' = Append(s, v) /\ pc' = "run"
                                              ELSE Fail

\* PUSH_OR_FAIL on top of s; the instruction ends.
PushOrFail(s, v) == IF Len(s) < StackMax THEN stack' = Append(s, v) /\ pc' = "run"
                                         ELSE Fail

\* An instruction that touches the stack and the globals only.
StackOnly == /\ pc = "run"
             /\ UNCHANGED <<objects, kind, cap, fields, bytes, collector, locals>>

\* OP_PUSH_NUM, OP_PUSH_BOOL, OP_PUSH_NIL
PushConst == StackOnly /\ PushOrFail(stack, Nil) /\ UNCHANGED globals

\* OP_POP, OP_PRINT
Pop == /\ StackOnly /\ Sp > 0
       /\ stack' = Drop(1)
       /\ UNCHANGED <<pc, globals>>

\* OP_SUB .. OP_NOT, OP_ADD of numbers, OP_ARRAY_LEN, OP_MAP_HAS: n operands
\* replaced by a number or a boolean.
Consume(n) == /\ StackOnly /\ Sp >= n
              /\ PushOrFail(Drop(n), Nil)
              /\ UNCHANGED globals

\* The compiler only names slots below sp (i = base + slot + 1).
GetLocal(i) == StackOnly /\ PushOrFail(stack, stack[i]) /\ UNCHANGED globals

SetLocal(i) == /\ StackOnly
               /\ stack' = [stack EXCEPT ![i] = Top]
               /\ UNCHANGED <<pc, globals>>

\* OP_DEFINE_LOCAL pops v and pads with nil up to the slot, which may lie
\* above sp: a new variable, or one of a block left by another path.
Padded(s, i) == [j \in 1..(IF i > Len(s) THEN i ELSE Len(s)) |->
                    IF j <= Len(s) THEN s[j] ELSE Nil]

DefineLocal(i) ==
    /\ StackOnly /\ Sp > 0
    /\ stack' = [Padded(Drop(1), i) EXCEPT ![i] = Top]
    /\ UNCHANGED <<pc, globals>>

GetGlobal(g) == /\ StackOnly /\ globals[g] # NoEntry
                /\ PushOrFail(stack, globals[g])
                /\ UNCHANGED globals

SetGlobal(g) == /\ StackOnly /\ Sp > 0 /\ globals[g] # NoEntry
                /\ globals' = [globals EXCEPT ![g] = Top]
                /\ UNCHANGED <<pc, stack>>

DefineGlobal(g) == /\ StackOnly /\ Sp > 0
                   /\ globals' = [globals EXCEPT ![g] = Top]
                   /\ stack' = Drop(1)
                   /\ UNCHANGED pc

\* OP_RETURN and OP_THROW: the value on top survives, the stack above n (the
\* frame's base, or the sp the handler saved) does not.
Unwind(n) == /\ StackOnly /\ Sp > 0 /\ n < Sp
             /\ PushOrFail(SubSeq(stack, 1, n), Top)
             /\ UNCHANGED globals

\* goto runtime_error for an operand of the wrong type, an undefined variable,
\* an index out of bounds, an unhandled exception, an exhausted table.
RuntimeError == StackOnly /\ Fail /\ UNCHANGED globals

\* OP_HALT
Halt == StackOnly /\ pc' = "halted" /\ UNCHANGED <<stack, globals>>
-----------------------------------------------------------------------------
(***************************************************************************)
(* Instructions that read or write a container                             *)
(***************************************************************************)
\* OP_INDEX_GET: index on top, container below; nil for a key a map lacks.
IndexGet == /\ StackOnly /\ Sp >= 2 /\ stack[Sp - 1] \in objects
            /\ LET c == stack[Sp - 1] IN
                 \/ /\ kind[c] = "map" /\ Top \in objects /\ kind[Top] = "string"
                    /\ \E k \in Slot :
                         PushOrFail(Drop(2), IF k \in Used(c) THEN fields[c][k] ELSE Nil)
                 \/ /\ kind[c] = "array" /\ Top = Nil
                    /\ \E i \in Used(c) : PushOrFail(Drop(2), fields[c][i])
            /\ UNCHANGED globals

Store == /\ pc = "run"
         /\ UNCHANGED <<objects, kind, collector, locals, globals>>

\* OP_INDEX_SET_LOCAL and _GLOBAL: value on top, index below it, container in
\* the variable; the value stays on the stack.
IndexSet(c) ==
    /\ Store /\ Sp >= 2 /\ c \in objects
    /\ \/ /\ kind[c] = "map" /\ stack[Sp - 1] \in objects /\ kind[stack[Sp - 1]] = "string"
          /\ bytes < MaxBytes
          /\ \E k \in Slot : MapSet(c, k, Top)
       \/ /\ kind[c] = "array" /\ stack[Sp - 1] = Nil
          /\ \E i \in Used(c) : fields' = [fields EXCEPT ![c][i] = Top]
          /\ UNCHANGED <<cap, bytes>>
    /\ PushOrFail(Drop(2), Top)

IndexSetLocal(i)  == i <= Sp - 2 /\ IndexSet(stack[i])
IndexSetGlobal(g) == IndexSet(globals[g])

\* OP_ARRAY_PUSH: element on top, array below; the array stays.
Push == /\ Store /\ Sp >= 2
        /\ stack[Sp - 1] \in objects /\ kind[stack[Sp - 1]] = "array"
        /\ ArrayPush(stack[Sp - 1], Top)
        /\ PushOrFail(Drop(2), stack[Sp - 1])

\* OP_MAP_DELETE: key on top, map below, replaced by a boolean.
Delete == /\ Store /\ Sp >= 2
          /\ stack[Sp - 1] \in objects /\ kind[stack[Sp - 1]] = "map"
          /\ Top \in objects /\ kind[Top] = "string"
          /\ \E k \in Slot : MapDelete(stack[Sp - 1], k)
          /\ PushOrFail(Drop(2), Nil)
-----------------------------------------------------------------------------
(***************************************************************************)
(* Instructions that allocate.  Each starts with what it does to the stack *)
(* before its first gc_new_*, which collects from the roots as they then   *)
(* are, and continues in New once there is memory.                         *)
(***************************************************************************)
Operands(n) == {stack[i] : i \in (Sp - n + 1)..Sp} \cap Obj

\* Calls gc_new_* for the result of instruction k with stack s: n values of s
\* will be dropped, m elements put into the result, objects h read meanwhile.
Begin(k, s, n, m, h) ==
    /\ pc = "run"
    /\ stack' = s
    /\ MaybeCollect(Objs(s) \cup GlobalObjs)
    /\ instr' = k /\ args' = n /\ left' = m /\ held' = h
    /\ UNCHANGED <<container, globals>>

\* OP_PUSH_STR copies a constant of the chunk.
PushStr == Begin("string", stack, 0, 0, {})

\* OP_ADD with a string: both operands are popped and already concatenated
\* into a malloc'ed buffer when gc_take_string runs.
Add == /\ Sp >= 2 /\ \E o \in Operands(2) : o \in objects /\ kind[o] = "string"
       /\ Begin("string", Drop(2), 0, 0, {})

\* OP_CALL_BUILTIN (substr, charAt, upper, trim, replace, ...): the arguments
\* stay on the stack while the result is made from their characters.
CallBuiltin(n) == Sp >= n /\ Begin("string", stack, n, 0, Operands(n))

\* OP_MAKE_ARRAY, OP_MAKE_MAP: the n elements stay on the stack until they are
\* in the container.
MakeArray(n) == Sp >= n /\ n <= MaxItems /\ Begin("array", stack, n, n, Operands(n))
MakeMap(n)   == Sp >= n /\ bytes < MaxBytes /\ Begin("map", stack, n, n, Operands(n))

\* Mutant of MapKeys: the map is not pushed back.
MapKeysPopped == /\ Sp >= 1 /\ Top \in objects /\ kind[Top] = "map"
                 /\ Begin("keys", Drop(1), 1, Count(Top), {Top})

\* OP_MAP_KEYS pops the map and pushes it back; the array of its keys will be
\* pushed above it.
MapKeys == /\ Sp >= 1 /\ Top \in objects /\ kind[Top] = "map"
           /\ Begin("keys", stack, 2, Count(Top), {Top})

\* Mutant of Split: pops its strings before it makes the array.
SplitPopped(n) == /\ Sp >= 2 /\ n <= MaxItems
                  /\ \A o \in {Top, stack[Sp - 1]} : o \in objects /\ kind[o] = "string"
                  /\ Begin("split", Drop(2), 1, n, Operands(2))

\* OP_CALL_BUILTIN_MULTI, split(): the two strings stay on the stack, the array
\* of the pieces will be pushed above them.
Split(n) == /\ Sp >= 2 /\ n <= MaxItems
            /\ \A o \in {Top, stack[Sp - 1]} : o \in objects /\ kind[o] = "string"
            /\ Begin("split", stack, 3, n, Operands(2))

\* The instruction is over: its arguments make room for v.
Finish(v) == /\ PushOrFail(Drop(args), v)
             /\ instr' = "none" /\ args' = 0 /\ left' = 0 /\ container' = Nil /\ held' = {}

Initial == CASE instr = "array" -> IF left > 0 THEN left ELSE ArrayMinCap
             [] instr = "keys"  -> IF left > 0 THEN left ELSE ArrayMinCap
             [] instr = "split" -> ArrayMinCap
             [] OTHER           -> 0

\* The result of PUSH_STR, ADD, CALL_BUILTIN.
NewString(o) == /\ pc = "new" /\ instr = "string"
                /\ Register(o, "string", 1)
                /\ Finish(o)
                /\ UNCHANGED globals

\* The container of MAKE_ARRAY and MAKE_MAP, known to the C code only.
NewContainer(o) == /\ pc = "new" /\ instr \in {"array", "map"}
                   /\ Register(o, instr, Initial)
                   /\ container' = o /\ pc' = "fill"
                   /\ UNCHANGED <<stack, globals, instr, args, left, held>>

\* The array of keys() and split() is pushed before the first piece is made.
NewResult(o) == /\ pc = "new" /\ instr \in {"keys", "split"} /\ container = Nil
                /\ Register(o, "array", Initial)
                /\ IF Sp < StackMax
                      THEN /\ stack' = Append(stack, o) /\ pc' = "fill"
                           /\ container' = o
                           /\ UNCHANGED <<instr, args, left, held>>
                      ELSE /\ Fail
                           /\ instr' = "none" /\ args' = 0 /\ left' = 0
                           /\ container' = Nil /\ held' = {}
                /\ UNCHANGED globals

\* A key or a piece: a new string, stored into the array at once.
NewPiece(o) == /\ pc = "new" /\ instr \in {"keys", "split"} /\ container # Nil
               /\ o \notin objects /\ objects' = objects \cup {o}
               /\ kind' = [kind EXCEPT ![o] = "string"]
               /\ cap' = [cap EXCEPT ![o] = 1, ![container] = PushCap(container)]
               /\ bytes' = bytes + 2 + PushCap(container) - cap[container]
               /\ fields' = [fields EXCEPT ![o] = Empty, ![container][Count(container) + 1] = o]
               /\ left' = left - 1 /\ pc' = "fill"
               /\ UNCHANGED <<collector, stack, globals, instr, args, container, held>>

\* malloc has no memory: the process exits (oom in common.c).
OutOfMemory == /\ pc = "new" /\ objects = Obj
               /\ pc' = "exit"
               /\ UNCHANGED <<objects, kind, cap, fields, bytes, collector, vmVars>>

New(o) == NewString(o) \/ NewContainer(o) \/ NewResult(o) \/ NewPiece(o)

\* The loops of MAKE_ARRAY and MAKE_MAP: next element off the stack.
Filling == pc = "fill" /\ left > 0
NextElement == stack[Sp - left + 1]

FillArray == /\ Filling /\ instr = "array"
             /\ ArrayPush(container, NextElement)
             /\ left' = left - 1
             /\ UNCHANGED <<objects, kind, collector, pc, stack, globals, instr, args, container, held>>

FillMap == /\ Filling /\ instr = "map"
           /\ \E k \in Slot : MapSet(container, k, NextElement)
           /\ left' = left - 1
           /\ UNCHANGED <<objects, kind, collector, pc, stack, globals, instr, args, container, held>>

\* The loops of keys() and split(): the next piece may collect again.
NextPiece == /\ Filling /\ instr \in {"keys", "split"}
             /\ MaybeCollect(Roots)
             /\ UNCHANGED vmVars

FinishFill == /\ pc = "fill" /\ left = 0
              /\ Finish(container)
              /\ UNCHANGED <<objects, kind, cap, fields, bytes, collector, globals>>

\* vm_free, at the end of main.
VmFree == /\ pc = "halted" /\ pc' = "freed"
          /\ stack' = <<>>
          /\ globals' = [g \in Global |-> NoEntry]
          /\ FreeAll
          /\ UNCHANGED locals
-----------------------------------------------------------------------------
Done == pc \in {"freed", "exit"} /\ UNCHANGED vars

Plain == \/ PushConst \/ Pop \/ RuntimeError \/ Halt
         \/ \E n \in 1..3 : Consume(n)
         \/ \E i \in 1..Sp : GetLocal(i) \/ SetLocal(i)
         \/ \E i \in 1..StackMax : DefineLocal(i)
         \/ \E g \in Global : GetGlobal(g) \/ SetGlobal(g) \/ DefineGlobal(g)
         \/ \E n \in 0..StackMax : Unwind(n)

Containers == \/ IndexGet \/ Push \/ Delete
              \/ \E i \in 1..Sp : IndexSetLocal(i)
              \/ \E g \in Global : IndexSetGlobal(g)

Allocates == \/ PushStr \/ Add \/ MapKeys
             \/ \E n \in 1..3 : CallBuiltin(n)
             \/ \E n \in 0..MaxItems : MakeArray(n) \/ MakeMap(n) \/ Split(n)

Continues == \/ \E o \in Obj : New(o)
             \/ OutOfMemory \/ FillArray \/ FillMap \/ NextPiece \/ FinishFill

Next == \/ Plain \/ Containers \/ Allocates \/ Continues
        \/ Collect /\ UNCHANGED vmVars
        \/ VmFree \/ Done

Spec == Init /\ [][Next]_vars

\* A collection runs inside one C call, so once started it runs on.
FairSpec == Spec /\ WF_vars(Collect /\ UNCHANGED vmVars)
-----------------------------------------------------------------------------
\* The objects that will exist once the current instruction goes on.
Survivors == IF pc = "sweep" THEN objects \cap marked ELSE objects

\* Every reference the machine can follow, from the roots, from the C code of
\* the current instruction or from a surviving object, leads to a registered
\* object that survives: nothing in use is freed (gc.c sweep, vm.c 473-606).
NoDangling == /\ Roots \cup Held \subseteq Survivors
              /\ \A o \in Survivors : Refs(o) \subseteq Survivors

\* mark bits are clear outside a collection: value_equals and append_value use
\* the same bit, and an object marked from before would escape the mark walk
\* with its children unvisited.
MarksClear == pc \notin {"mark", "sweep"} => marked = {}

\* The byte counter covers the registered objects, so that neither the sweep
\* nor gc_map_grow can take a size_t below zero.
BytesCoverHeap == bytes >= HeapSize + KeyBytes

MH == INSTANCE ManagedHeap WITH alive <- objects, roots <- Roots \cup Held

\* A finished collection leaves no garbage: what is registered is reachable.
CollectionExact == pc = "sweep" /\ objects \subseteq marked => objects = MH!Reach

\* The machine as a whole is a managed heap.
ManagedHeap == MH!Spec

\* A collection starts only when the heap itself has grown past the threshold.
CollectsOnlyWhenHeapGrew == [][pc # "mark" /\ pc' = "mark" => HeapSize + KeyBytes > threshold]_vars

\* A collection ends.
CollectionEnds == pc \in {"mark", "sweep"} ~> pc = "new"
=============================================================================
