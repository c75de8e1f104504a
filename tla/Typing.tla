------------------------------- MODULE Typing ------------------------------
(***************************************************************************)
(* What the compiler knows about the machine at each instruction: the try  *)
(* blocks it is in, the variables in its slots, the values above them.  A  *)
(* typing gives such a shape to every place of the code.  Control is sound *)
(* because the code always has one, with the jumps still to be patched as  *)
(* its only holes, and because every step of the machine respects it.      *)
(***************************************************************************)
EXTENDS Control

\* temps values are above the slots of vars; with arg, the topmost of them
\* is the argument of a call; func tells f from the top level.
Shape == [tries : Seq(Nat), vars : Seq(Nat), temps : Nat, arg : BOOLEAN, func : BOOLEAN]

Ctx(tries, variables, temps, func) ==
    [tries |-> tries, vars |-> variables, temps |-> temps, arg |-> FALSE, func |-> func]

Opcode == {"PUSH", "POP", "DEFINE_GLOBAL", "BINARY", "GET_LOCAL", "SET_LOCAL", "DEFINE_LOCAL",
           "TRY_BEGIN", "TRY_END", "POP_HANDLERS", "THROW", "JUMP", "JUMP_IF_FALSE", "CALL",
           "RETURN", "HALT"}
Branching == {"JUMP", "JUMP_IF_FALSE", "TRY_BEGIN"}

\* The next instruction may run after one of these.
Falls(op) == op \notin {"JUMP", "THROW", "RETURN", "HALT"}

\* What the compiler leaves on the first instruction of a statement.
AsFirst(i) == [i EXCEPT !.stmt = Context]
Marks(s) == [tries |-> s.tries, vars |-> s.vars]

Instr == [op : Opcode, n : Int, var : Nat \cup {None}, stmt : {None} \cup [tries : Seq(Nat), vars : Seq(Nat)]]

Prefix(s, t) == Len(s) <= Len(t) /\ \A i \in 1..Len(s) : s[i] = t[i]

\* Where s is right, d is, too: d may have forgotten the last variables.
Weaker(s, d) == /\ d.func = s.func /\ d.tries = s.tries /\ d.temps = s.temps
                /\ d.arg => s.arg
                /\ Prefix(d.vars, s.vars)

\* Instruction i may run in shape s.
Legal(i, s) ==
    /\ i.op \in {"POP", "DEFINE_GLOBAL", "THROW", "RETURN", "JUMP_IF_FALSE", "SET_LOCAL", "CALL"} => s.temps > 0
    /\ i.op = "PUSH" => i.var \in {None, Param}
    /\ i.op = "BINARY" => s.temps > 1
    /\ i.op = "DEFINE_GLOBAL" => ~s.func
    /\ i.op = "RETURN" => s.func
    /\ i.op \in {"GET_LOCAL", "SET_LOCAL"} => /\ i.n + 1 \in 1..Len(s.vars)
                                              /\ i.var = s.vars[i.n + 1]
    /\ i.op = "DEFINE_LOCAL" => s.func /\ s.temps = 1 /\ i.n = Len(s.vars) /\ i.var \in Nat
    /\ i.op = "TRY_BEGIN" => s.temps = 0
    /\ i.op = "TRY_END" => s.tries # <<>>
    /\ i.op = "POP_HANDLERS" => i.n \in 0..Len(s.tries)
    /\ i.op = "CALL" => s.arg
    /\ i.op = "HALT" => ~s.func /\ s.temps = 0 /\ s.tries = <<>>

TriesAfter(i, p, s) == IF i.op = "TRY_BEGIN" THEN Append(s.tries, p)
                       ELSE IF i.op = "TRY_END" THEN SubSeq(s.tries, 1, Len(s.tries) - 1)
                       ELSE IF i.op = "POP_HANDLERS" THEN SubSeq(s.tries, 1, Len(s.tries) - i.n)
                       ELSE s.tries
VarsAfter(i, s) == IF i.op = "DEFINE_LOCAL" THEN Append(s.vars, i.var) ELSE s.vars
TempsAfter(i, s) == IF i.op \in {"PUSH", "GET_LOCAL"} THEN s.temps + 1
                    ELSE IF i.op \in {"POP", "DEFINE_GLOBAL", "DEFINE_LOCAL", "BINARY"} THEN s.temps - 1
                    ELSE s.temps

\* Instruction i at place p goes on to the next one in shape d.
Steps(i, p, s, d) ==
    /\ d.func = s.func
    /\ d.tries = TriesAfter(i, p, s)
    /\ Prefix(d.vars, VarsAfter(i, s))
    /\ d.temps = TempsAfter(i, s)
    /\ d.arg => i.op = "PUSH" /\ i.var = Param

\* It jumps in shape d; a handler is entered with the value thrown.
Taken(op, s, d) ==
    /\ d.func = s.func
    /\ d.tries = s.tries
    /\ Prefix(d.vars, s.vars)
    /\ d.temps = IF op = "TRY_BEGIN" THEN s.temps + 1 ELSE s.temps
    /\ ~d.arg

EntryShape == Ctx(<<>>, <<Param>>, 0, TRUE)

\* What instruction p does to its own shape and the next one.
Works(c, A, p) ==
    /\ Legal(c[p], A[p])
    /\ c[p].stmt = None \/ (c[p].stmt = Marks(A[p]) /\ A[p].temps = 0)
    /\ Falls(c[p].op) => Steps(c[p], p, A[p], A[p + 1])
    /\ c[p].op = "THROW" => p > 1 /\ c[p - 1].stmt = Marks(A[p])

\* What it does to the place it names; a jump is to one of 1..last.
Lands(c, A, p, last) ==
    /\ c[p].op \in Branching => /\ p + 1 + c[p].n \in 1..last
                                /\ Taken(c[p].op, A[p], A[p + 1 + c[p].n])
    /\ c[p].op = "CALL" => c[p].n \in 1..Len(c) /\ A[c[p].n] = EntryShape

\* The try blocks of shape s began where fewer variables were known.
Nests(c, A, s) ==
    /\ \A i \in 1..Len(s.tries) :
           /\ s.tries[i] \in 1..Len(c) /\ c[s.tries[i]].op = "TRY_BEGIN"
           /\ A[s.tries[i]].tries = SubSeq(s.tries, 1, i - 1)
           /\ Prefix(A[s.tries[i]].vars, s.vars)
           /\ A[s.tries[i]].func = s.func
    /\ s.func \/ s.vars = <<>>

Sound(c, A, holes, last) ==
    /\ c \in Seq(Instr) /\ A \in [Nat -> Shape]
    /\ \A p \in 1..Len(c) : Works(c, A, p)
    /\ \A p \in 1..Len(c) : p \in holes \/ Lands(c, A, p, last)
    /\ \A p \in 1..(Len(c) + 1) : Nests(c, A, A[p])

\* d is c with more behind it, and maybe other operands; B types it like A.
Grown(c, A, d, B) == Len(c) <= Len(d) /\ \A p \in 1..Len(c) : d[p].op = c[p].op /\ B[p] = A[p]

\* d is c with the operands at S made to lead behind the code.
Filled(c, S, d) ==
    /\ d \in Seq(Instr) /\ Len(d) = Len(c)
    /\ \A p \in 1..Len(c) : /\ d[p].op = c[p].op /\ d[p].var = c[p].var /\ d[p].stmt = c[p].stmt
                            /\ d[p].n = IF p \in S THEN Len(c) - p ELSE c[p].n
                            /\ p \notin S => d[p] = c[p]

Known(A, p, s) == [A EXCEPT ![p] = s]

\* Instruction i may come next, and leave the place behind it in shape s; a
\* jump it makes goes back, or is one of the holes.
Emittable(c, A, holes, i, s) ==
    LET p == Len(c) + 1
    IN  /\ Legal(i, A[p])
        /\ i.stmt = None \/ (i.stmt = Marks(A[p]) /\ A[p].temps = 0)
        /\ Falls(i.op) => Steps(i, p, A[p], s)
        /\ i.op = "THROW" => p > 1 /\ c[p - 1].stmt = Marks(A[p])
        /\ \/ p \in holes
           \/ /\ i.op \in Branching => p + 1 + i.n \in 1..p /\ Taken(i.op, A[p], A[p + 1 + i.n])
              /\ i.op = "CALL" => i.n \in 1..p /\ A[i.n] = EntryShape

\* The compiler has come from c to d, and from the typing A to B.
Compiled(c, A, d, B, holes) ==
    /\ c \in Seq(Instr) /\ A \in [Nat -> Shape]
    /\ Sound(d, B, holes, Len(d) + 1)
    /\ Grown(c, A, d, B)
    /\ B[Len(c) + 1] = A[Len(c) + 1]

\* From d and B it went on with instruction i, and left shape s behind it.
Emitted(c, A, d, B, i, s, holes, C) ==
    /\ Compiled(c, A, Append(d, i), C, holes)
    /\ Len(Append(d, i)) = Len(d) + 1
    /\ Append(d, i)[Len(d) + 1] = i
    /\ C[Len(d) + 1] = B[Len(d) + 1]
    /\ C[Len(d) + 2] = s
-----------------------------------------------------------------------------
\* The compiler: A types the code so far and the place behind it.
Kind == {"then", "else", "while", "for", "try", "catch"}
Constructs == [kind : Kind, try : Nat \cup {None}, tries : Seq(Nat), saved : Seq(Nat), start : Nat,
               jump : Nat, breaks : SUBSET Nat, continues : SUBSET Nat, depth : Nat]

HolesOf(o) == {o.jump, o.try} \cup o.breaks \cup o.continues
HolesIn(os) == {p \in Nat : \E i \in 1..Len(os) : p \in HolesOf(os[i])}

TriesIn(o) == IF o.try = None THEN o.tries ELSE Append(o.tries, o.try)
Body(A, o) == IF IsLoop(o) THEN A[o.start].vars ELSE o.saved

\* Every jump a construct will patch can go where it will be sent.
JumpsFrom(c, A, p, op, d) == p \in 1..Len(c) /\ c[p].op = op /\ Taken(op, A[p], d)

\* What an open construct remembers; func as in Ctx.
Attached(c, A, o, func) ==
    LET at(variables, temps) == Ctx(o.tries, variables, temps, func)
    IN  /\ o.depth = Len(o.tries)
        /\ Nests(c, A, at(o.saved, 0))
        /\ Prefix(o.saved, Body(A, o))
        /\ o.kind = "then" => JumpsFrom(c, A, o.jump, "JUMP_IF_FALSE", at(o.saved, 1))
        /\ o.kind \in {"else", "catch"} => JumpsFrom(c, A, o.jump, "JUMP", at(o.saved, 0))
        /\ o.kind = "while" => o.jump > 0 /\ Body(A, o) = o.saved
        /\ IsLoop(o) => /\ o.start \in 1..(Len(c) + 1)
                        /\ A[o.start] = at(Body(A, o), 0)
                        /\ o.jump # 0 => JumpsFrom(c, A, o.jump, "JUMP_IF_FALSE", at(Body(A, o), 1))
        /\ \A p \in o.breaks : IsLoop(o) /\ JumpsFrom(c, A, p, "JUMP", at(o.saved, 0))
        /\ \A p \in o.continues : o.kind = "for" /\ JumpsFrom(c, A, p, "JUMP", at(Body(A, o), 0))
        /\ o.try # None <=> o.kind = "try"
        /\ o.kind = "try" => /\ o.jump = 0 /\ o.try \in 1..Len(c) /\ c[o.try].op = "TRY_BEGIN"
                             /\ A[o.try] = at(o.saved, 0)

\* Place p has its instruction already, or is where the loop o begins.
Settled(p, c, o) == p <= Len(c) \/ (IsLoop(o) /\ o.start = p)

\* How the open constructs os stand in each other.
Stacked(c, A, os, func) ==
    /\ os \in Seq(Constructs)
    /\ \A i \in 1..Len(os) : /\ Attached(c, A, os[i], func)
                             /\ os[i].tries = IF i = 1 THEN <<>> ELSE TriesIn(os[i - 1])
    /\ \A i, j \in 1..Len(os) : i < j => /\ Prefix(Body(A, os[i]), os[j].saved)
                                         /\ Prefix(os[i].tries, os[j].tries)
                                         /\ IsLoop(os[i]) => Settled(os[i].start, c, os[j])

\* B types the beginnings of the loops as A did.
StartsKept(A, B, os) == \A i \in 1..Len(os) : IsLoop(os[i]) => B[os[i].start] = A[os[i].start]

CallsAt(c, S) == \A p \in S : p \in 1..Len(c) /\ c[p].op = "CALL"

TriesAround(os) == IF os = <<>> THEN <<>> ELSE TriesIn(os[Len(os)])

\* The next statement may assume vs to be in their slots.
Scoped(A, os, vs) == \A i \in 1..Len(os) : /\ Prefix(Body(A, os[i]), vs)
                                           /\ Prefix(os[i].tries, TriesAround(os))

CompilerInv(A) ==
    /\ Sound(code, A, HolesIn(open) \cup pending, Here)
    /\ Stacked(code, A, open, InFunction)
    /\ Scoped(A, open, locals)
    /\ A[Here] = Ctx(TriesAround(open), locals, 0, InFunction)
    /\ A[1] = Ctx(<<>>, <<>>, 0, FALSE)
    /\ IF InFunction THEN entry \in 1..Here /\ A[entry] = EntryShape ELSE entry = 0
    /\ \A i \in 1..Len(open) : Settled(1, code, open[i]) /\ Settled(entry, code, open[i])
    /\ CallsAt(code, pending)
    /\ tryDepth = Len(TriesAround(open))
    /\ vmVars = <<1, <<>>, <<>>, <<>>>>
-----------------------------------------------------------------------------
\* The machine m: its activation k runs the instruction at Place, with the
\* values up to Height and the handlers up to Reach; Floor and Outside are
\* those of the activations before.  All but the last wait at a call.
Machine == [ip |-> ip, stack |-> stack, frames |-> frames, handlers |-> handlers]

Tip(m)        == Len(m.frames)
Place(m, k)   == IF k = Tip(m) THEN m.ip ELSE m.frames[k + 1].ret - 1
Height(m, k)  == IF k = Tip(m) THEN Len(m.stack) ELSE m.frames[k + 1].base + 1
Reach(m, k)   == IF k = Tip(m) THEN Len(m.handlers) ELSE m.frames[k + 1].depth
Floor(m, k)   == IF k = 0 THEN 0 ELSE m.frames[k].base
Outside(m, k) == IF k = 0 THEN 0 ELSE m.frames[k].depth

Value == (Nat \cup {None}) \X Nat
Frame == [ret : Nat, base : Nat, depth : Nat]
Handler == [catch : Nat, sp : Nat, fp : Nat]

\* Handler h, of activation k, was made by the OP_TRY_BEGIN at t, and lies
\* between the variables known there, above floor, and what is below top.
Guards(c, A, h, k, t, floor, top) == /\ h.catch = t + 1 + c[t].n /\ h.fp = k
                                     /\ floor + Len(A[t].vars) <= h.sp
                                     /\ h.sp <= top

\* The activation k of m is in shape s.
Standing(c, A, m, k, s) ==
    LET floor == Floor(m, k)
        height == Height(m, k)
        handler(i) == m.handlers[Outside(m, k) + i]
    IN  /\ s.func <=> k > 0
        /\ floor + Len(s.vars) + s.temps <= height
        /\ k = 0 => height = s.temps
        /\ \A i \in 1..Len(s.vars) : m.stack[floor + i] = <<s.vars[i], k>>
        /\ Reach(m, k) = Outside(m, k) + Len(s.tries)
        /\ \A i \in 1..Len(s.tries) : Guards(c, A, handler(i), k, s.tries[i], floor, height - s.temps)
        /\ \A i, j \in 1..Len(s.tries) : i < j => handler(i).sp <= handler(j).sp

\* What a machine is, whatever its code.
Sized(m) ==
    /\ m.stack \in Seq(Value) /\ m.frames \in Seq(Frame) /\ m.handlers \in Seq(Handler)
    /\ Len(m.stack) <= StackMax /\ Tip(m) <= FramesMax /\ Len(m.handlers) <= HandlersMax

\* The argument of a call about to be made is on top.
Passes(A, m) == A[m.ip].arg => Len(m.stack) > 0 /\ m.stack[Len(m.stack)] = <<Param, Tip(m) + 1>>

Running(c, A, m) ==
    /\ Sized(m)
    /\ \A k \in 0..Tip(m) : Place(m, k) \in 1..Len(c) /\ Standing(c, A, m, k, A[Place(m, k)])
    /\ \A k \in 1..Tip(m) : c[m.frames[k].ret - 1].op = "CALL"
    /\ \A j, k \in 1..Tip(m) : j <= k => /\ m.frames[j].base <= m.frames[k].base
                                         /\ m.frames[j].depth <= m.frames[k].depth
    /\ \A i \in 1..Len(m.handlers) : LET k == m.handlers[i].fp
                                     IN  k \in 0..Tip(m) /\ i \in (Outside(m, k) + 1)..Reach(m, k)
    /\ Passes(A, m)

\* The code has all its operands, and does not run over its end.
Whole(c, A) == Sound(c, A, {}, Len(c)) /\ \A p \in 1..Len(c) : Falls(c[p].op) => p < Len(c)

MachineInv(A) == Whole(code, A) /\ Running(code, A, Machine)

\* The operands are wide enough for the code: no distance and no number of
\* handlers is cut.
OperandsFit == Len(code) < JumpMod \div 2 /\ tryDepth < ByteMod

Kept == /\ phase \in {"main", "func", "run", "halted", "rejected"} \cup (Failures \ {"corrupted"})
        /\ tryDepth \in Nat /\ entry \in Nat /\ stmts \in Nat /\ locals \in Seq(Nat) /\ Len(locals) <= LocalsMax
        /\ phase = "main" => locals = <<>>

ControlInv ==
    /\ Kept
    /\ Compiling => \E A : CompilerInv(A)
    /\ phase = "run" => \E A : MachineInv(A)
    /\ phase \notin {"main", "func", "run"} => Sp <= StackMax /\ Fp <= FramesMax /\ Len(handlers) <= HandlersMax
    /\ phase = "halted" => stack = <<>> /\ frames = <<>> /\ handlers = <<>>
=============================================================================
