------------------------------ MODULE Compiler -----------------------------
(***************************************************************************)
(* The control side of src/src/compiler.c: jumps, loops, exception         *)
(* handlers and local slots.  The compiler walks a syntax tree; here each  *)
(* action is one piece of that walk (a statement, or the start, middle or  *)
(* end of a compound one), so that a behaviour of this module is the       *)
(* compilation of some program: first the top level, then one function f   *)
(* of one parameter.  Any program may come, up to a number of statements.  *)
(*                                                                         *)
(* An instruction takes one cell of code.  Expressions are those the       *)
(* control flow can tell apart: a constant, a variable, and 1 + f(x).      *)
(***************************************************************************)
EXTENDS Integers, Sequences, SequencesExt

CONSTANTS MaxMain,        \* bound: statements at top level, the first call of f aside
          MaxFunc,        \* bound: statements of f
          Kinds,          \* bound: kinds of statements programs are made of
          TestedInits,    \* bound: initialisers of femboy_hours loops that have a test
          UntestedInits,  \* and of those that have none
          LocalsMax,      \* MAX_LOCALS
          ByteMod,        \* what one operand byte holds, 256
          JumpMod,        \* what a jump operand holds, 65536
          None

AllKinds == {"let", "assign", "call", "throw", "return", "top return", "break", "continue",
             "if", "while", "for", "try"}

AllInits == {"none", "let", "expr", "other"}

ASSUME CompilerAssumption ==
    /\ MaxMain \in Nat /\ MaxFunc \in Nat /\ LocalsMax \in Nat \ {0}
    /\ ByteMod \in Nat \ {0, 1}
    /\ JumpMod \in Nat \ {0, 1}
    /\ Kinds \subseteq AllKinds
    /\ TestedInits \subseteq AllInits /\ UntestedInits \subseteq AllInits
    /\ None \notin Nat

VARIABLES phase,   \* "main", "func", then "run" and how it ended
          code,    \* chunk->code
          open,    \* the constructs compile_node is inside of, outermost first
          locals,  \* cs->locals[0 .. nlocals-1]
          tryDepth,\* cs->try_depth
          entry,   \* f->code_start
          pending, \* operands of calls to f compiled before f
          stmts    \* statements left to the top level or to f

compVars == <<phase, code, open, locals, tryDepth, entry, pending, stmts>>

\* A variable is known by the place of its definition; 0 is f's parameter.
Param == 0
Here  == Len(code) + 1
InFunction == phase = "func"
Compiling  == phase \in {"main", "func"}

Inner == Last(open)
Outer == Front(open)

\* What the source says around a statement: the try blocks it is in, each
\* known by its OP_TRY_BEGIN, and the variables it can name.
Context == [tries |-> IF open = <<>> THEN <<>>
                      ELSE IF Inner.try = None THEN Inner.tries ELSE Append(Inner.tries, Inner.try),
            vars  |-> locals]

\* An instruction: its operand; the variable a local slot stands for; for
\* the first one of a statement or of the end of a block, its context.
I(op, n)       == [op |-> op, n |-> n, var |-> None, stmt |-> None]
Slot(op, n, v) == [op |-> op, n |-> n, var |-> v, stmt |-> None]
First(s)       == [s EXCEPT ![1].stmt = Context]

\* A jump operand is a signed 16-bit distance from the next instruction.
Signed(x) == ((x + JumpMod \div 2) % JumpMod) - JumpMod \div 2
Jump(op, pos, dest) == I(op, Signed(dest - pos - 1))

\* patch_jump: the jumps at places S come here, the end of c.
Patch(c, S) == [i \in 1..Len(c) |-> IF i \in S THEN [c[i] EXCEPT !.n = Signed(Len(c) - i)] ELSE c[i]]

\* tries are those of the try blocks around the whole construct; they are
\* there, like a statement's context, for the properties only.
Construct(kind, try) == [kind |-> kind, try |-> try, tries |-> Context.tries, saved |-> locals,
                         start |-> 0, jump |-> 0, breaks |-> {}, continues |-> {}, depth |-> tryDepth]
IsLoop(c) == c.kind \in {"while", "for"}
InLoop  == \E i \in 1..Len(open) : IsLoop(open[i])
LoopAt  == CHOOSE i \in 1..Len(open) :
               IsLoop(open[i]) /\ \A j \in (i + 1)..Len(open) : ~IsLoop(open[j])

Init == /\ phase = "main" /\ code = <<>> /\ open = <<>> /\ locals = <<>>
        /\ tryDepth = 0 /\ entry = 0 /\ pending = {} /\ stmts = MaxMain

Statement(k) == /\ Compiling /\ k \in Kinds /\ stmts > 0
                /\ stmts' = stmts - 1

\* compile_fail
Reject == /\ phase' = "rejected"
          /\ UNCHANGED <<code, open, locals, tryDepth, entry, pending>>

\* A statement without parts: it only emits.
Emits(k, s) == /\ Statement(k)
               /\ code' = code \o First(s)
               /\ UNCHANGED <<phase, open, locals, tryDepth, entry, pending>>
-----------------------------------------------------------------------------
\* A new variable for the value on the stack: a local slot in a function, a
\* global outside.
Define(pos) == IF InFunction THEN Slot("DEFINE_LOCAL", Len(locals), pos) ELSE I("DEFINE_GLOBAL", 0)
WithVar(pos) == IF InFunction THEN Append(locals, pos) ELSE locals
TooManyLocals == InFunction /\ Len(locals) >= LocalsMax

Let == /\ Statement("let")
       /\ IF TooManyLocals THEN Reject
          ELSE /\ code' = code \o First(<<I("PUSH", 0), Define(Here + 1)>>)
               /\ locals' = WithVar(Here + 1)
               /\ UNCHANGED <<phase, open, tryDepth, entry, pending>>

\* x = x;  for the local in slot s (resolve_local).
Assign(s) == LET x == locals[s + 1] IN
    Emits("assign", <<Slot("GET_LOCAL", s, x), Slot("SET_LOCAL", s, x), I("POP", 0)>>)

\* 1 + f(x);  the operand of OP_CALL is filled in once f has been compiled.
Call == /\ Compiling /\ "call" \in Kinds
        /\ IF phase = "main" /\ pending = {} THEN stmts' = stmts
                                            ELSE stmts > 0 /\ stmts' = stmts - 1
        /\ code' = code \o First(<<I("PUSH", 0), Slot("PUSH", 0, Param), I("CALL", entry),
                                   I("BINARY", 0), I("POP", 0)>>)
        /\ pending' = IF entry = 0 THEN pending \cup {Here + 2} ELSE pending
        /\ UNCHANGED <<phase, open, locals, tryDepth, entry>>

Throw == Emits("throw", <<I("PUSH", 0), I("THROW", 0)>>)

Return == Emits(IF InFunction THEN "return" ELSE "top return", <<I("PUSH", 0), I("RETURN", 0)>>)

\* Mutant of ExtraHandlers: those outside the loop are counted, too.
ExtraHandlersAll == tryDepth

\* stop_riding and keep_riding first pop the handlers of the try blocks that
\* were entered since the loop began; their number goes into one byte.
ExtraHandlers == tryDepth - open[LoopAt].depth
Leave == IF ExtraHandlers > 0 THEN <<I("POP_HANDLERS", ExtraHandlers % ByteMod)>> ELSE <<>>
JumpPos == Here + Len(Leave)

Break == /\ Statement("break")
         /\ IF ~InLoop THEN Reject
            ELSE /\ code' = code \o First(Leave \o <<I("JUMP", 0)>>)
                 /\ open' = [open EXCEPT ![LoopAt].breaks = @ \cup {JumpPos}]
                 /\ UNCHANGED <<phase, locals, tryDepth, entry, pending>>

Continue ==
    /\ Statement("continue")
    /\ IF ~InLoop THEN Reject
       ELSE /\ LET l == open[LoopAt] IN
                 IF l.kind = "while"
                 THEN /\ code' = code \o First(Leave \o <<Jump("JUMP", JumpPos, l.start)>>)
                      /\ open' = open
                 ELSE /\ code' = code \o First(Leave \o <<I("JUMP", 0)>>)
                      /\ open' = [open EXCEPT ![LoopAt].continues = @ \cup {JumpPos}]
            /\ UNCHANGED <<phase, locals, tryDepth, entry, pending>>
-----------------------------------------------------------------------------
Test == <<I("PUSH", 0), I("JUMP_IF_FALSE", 0), I("POP", 0)>>

\* harder_if ... or_im_gonna_cum ...; without a second block the compiler
\* emits what it emits for an empty one.
BeginIf == /\ Statement("if")
           /\ code' = code \o First(Test)
           /\ open' = Append(open, [Construct("then", None) EXCEPT !.jump = Here + 1])
           /\ UNCHANGED <<phase, locals, tryDepth, entry, pending>>

Inside(kind) == Compiling /\ open # <<>> /\ Inner.kind = kind

Else == /\ Inside("then")
        /\ code' = Append(Patch(code \o First(<<I("JUMP", 0)>>), {Inner.jump}), I("POP", 0))
        /\ locals' = Inner.saved
        /\ open' = Append(Outer, [Inner EXCEPT !.kind = "else", !.jump = Here])
        /\ UNCHANGED <<phase, tryDepth, entry, pending, stmts>>

EndIf == /\ Inside("else")
         /\ code' = Patch(code, {Inner.jump})
         /\ locals' = Inner.saved
         /\ open' = Outer
         /\ UNCHANGED <<phase, tryDepth, entry, pending, stmts>>

BeginWhile == /\ Statement("while")
              /\ code' = code \o First(Test)
              /\ open' = Append(open, [Construct("while", None) EXCEPT !.start = Here, !.jump = Here + 1])
              /\ UNCHANGED <<phase, locals, tryDepth, entry, pending>>

\* Behind the jump back come the exit of the test, which has a value to pop,
\* and the breaks, which have none.
EndLoop(back) ==
    LET exit == IF Inner.jump = 0 THEN back
                ELSE Append(Patch(back, {Inner.jump}), I("POP", 0))
    IN  /\ code' = Patch(exit, Inner.breaks)
        /\ locals' = Inner.saved
        /\ open' = Outer
        /\ UNCHANGED <<phase, tryDepth, entry, pending, stmts>>

Back(pos) == Jump("JUMP", pos, Inner.start)

EndWhile == Inside("while") /\ EndLoop(code \o First(<<Back(Here)>>))

\* femboy_hours (init; test; step), each of which may be missing; init is a
\* declaration or an expression, any other statement is refused.
BeginFor(init, test) ==
    /\ Statement("for")
    /\ IF init = "other" \/ (init = "let" /\ TooManyLocals) THEN Reject
       ELSE LET before == CASE init = "none" -> code
                            [] init = "let"  -> code \o First(<<I("PUSH", 0), Define(Here + 1)>>)
                            [] init = "expr" -> code \o First(<<I("PUSH", 0), I("POP", 0)>>)
                start  == Len(before) + 1
                head   == IF init = "none" THEN First(Test) ELSE Test
            IN  /\ code' = IF test THEN before \o head ELSE before
                /\ locals' = IF init = "let" THEN WithVar(Here + 1) ELSE locals
                /\ open' = Append(open, [Construct("for", None) EXCEPT
                                             !.start = start, !.jump = IF test THEN start + 1 ELSE 0])
                /\ UNCHANGED <<phase, tryDepth, entry, pending>>

InitsOf(test) == IF test THEN TestedInits ELSE UntestedInits

EndFor(step) ==
    /\ Inside("for")
    /\ LET after == Patch(code, Inner.continues) \o (IF step THEN <<I("PUSH", 0), I("POP", 0)>> ELSE <<>>)
       IN  EndLoop(Append(after, Back(Len(after) + 1)))

BeginTry == /\ Statement("try")
            /\ code' = code \o First(<<I("TRY_BEGIN", 0)>>)
            /\ open' = Append(open, Construct("try", Here))
            /\ tryDepth' = tryDepth + 1
            /\ UNCHANGED <<phase, locals, entry, pending>>

\* The end of the try block, and the variable of the catch block.
Catch == /\ Inside("try")
         /\ tryDepth' = tryDepth - 1
         /\ LET ended == Patch(code \o First(<<I("TRY_END", 0), I("JUMP", 0)>>), {Inner.try})
                at == Here + 2
            IN  IF InFunction /\ Len(Inner.saved) >= LocalsMax
                THEN phase' = "rejected" /\ UNCHANGED <<code, open, locals>>
                ELSE /\ code' = Append(ended, IF InFunction
                                              THEN Slot("DEFINE_LOCAL", Len(Inner.saved), at)
                                              ELSE I("DEFINE_GLOBAL", 0))
                     /\ locals' = IF InFunction THEN Append(Inner.saved, at) ELSE locals
                     /\ open' = Append(Outer, [Inner EXCEPT !.kind = "catch", !.try = None,
                                                            !.jump = Here + 1])
                     /\ phase' = phase
         /\ UNCHANGED <<entry, pending, stmts>>

EndTry == /\ Inside("catch")
          /\ code' = Patch(code, {Inner.jump})
          /\ locals' = Inner.saved
          /\ open' = Outer
          /\ UNCHANGED <<phase, tryDepth, entry, pending, stmts>>
-----------------------------------------------------------------------------
\* OP_HALT behind the top level; then f, unless nothing calls it (bound).
EndMain == /\ phase = "main" /\ open = <<>>
           /\ code' = code \o First(<<I("HALT", 0)>>)
           /\ IF pending = {} THEN phase' = "run" /\ UNCHANGED <<entry, locals>>
              ELSE phase' = "func" /\ entry' = Here + 1 /\ locals' = <<Param>>
           /\ tryDepth' = 0 /\ stmts' = MaxFunc
           /\ UNCHANGED <<open, pending>>

\* Behind f: it returns nil, and the calls compiled before it learn where it is.
EndFunction ==
    /\ phase = "func" /\ open = <<>>
    /\ LET done == code \o First(<<I("PUSH", 0), I("RETURN", 0)>>)
       IN  code' = [i \in 1..Len(done) |-> IF i \in pending THEN [done[i] EXCEPT !.n = entry] ELSE done[i]]
    /\ phase' = "run"
    /\ UNCHANGED <<open, locals, tryDepth, entry, pending, stmts>>

Compile == \/ Let \/ Call \/ Throw \/ Return \/ Break \/ Continue
           \/ \E s \in 0..(Len(locals) - 1) : Assign(s)
           \/ BeginIf \/ Else \/ EndIf
           \/ BeginWhile \/ EndWhile
           \/ \E test \in BOOLEAN : \E init \in InitsOf(test) : BeginFor(init, test)
           \/ \E step \in BOOLEAN : EndFor(step)
           \/ BeginTry \/ Catch \/ EndTry
           \/ EndMain \/ EndFunction
=============================================================================
