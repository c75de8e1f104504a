------------------------------- MODULE Control -----------------------------
(***************************************************************************)
(* The control side of src/src/vm.c running what Compiler made: operand    *)
(* stack, call frames and exception handlers.  Tests and throws may go     *)
(* either way.  A value on the stack remembers, for the properties only,   *)
(* which variable of which activation it was stored for.                   *)
(***************************************************************************)
EXTENDS Compiler

CONSTANTS StackMax,    \* FEMBOY_STACK_MAX
          FramesMax,   \* FEMBOY_FRAMES_MAX
          HandlersMax  \* FEMBOY_HANDLERS_MAX

ASSUME ControlAssumption == {StackMax, FramesMax, HandlersMax} \subseteq Nat \ {0}

VARIABLES ip, stack,
          frames,    \* vm->frames[0 .. fp-1]
          handlers   \* vm->handlers[0 .. nhandlers-1]

vmVars == <<ip, stack, frames, handlers>>
vars   == <<compVars, vmVars>>

Temp == <<None, 0>>
Sp == Len(stack)
Fp == Len(frames)
Top == stack[Sp]
Drop(n) == SubSeq(stack, 1, Sp - n)

\* The current activation: 0 and no handler at top level.
Base  == IF Fp > 0 THEN frames[Fp].base ELSE 0
Depth == IF Fp > 0 THEN frames[Fp].depth ELSE 0

Failures == {"uncaught", "overflow", "corrupted"}

VmInit == Init /\ ip = 1 /\ stack = <<>> /\ frames = <<>> /\ handlers = <<>>

CompileStep == Compile /\ UNCHANGED vmVars
-----------------------------------------------------------------------------
Op == code[ip]
At(op) == phase = "run" /\ Op.op = op /\ UNCHANGED <<code, open, locals, tryDepth, entry, pending, stmts>>
Go(to) == ip' = to /\ phase' = phase
OnlyStack == UNCHANGED <<frames, handlers>>

\* goto runtime_error: stack and handlers are cleared.
Stop(why) == /\ phase' = why
             /\ stack' = <<>> /\ handlers' = <<>>
             /\ UNCHANGED ip
Fail(why) == Stop(why) /\ UNCHANGED frames

\* PUSH_OR_FAIL on top of s, which ends the instruction; to is the next one.
PushOrFail(s, v, to) == IF Len(s) < StackMax THEN stack' = Append(s, v) /\ Go(to) /\ OnlyStack
                                             ELSE Fail("overflow")

\* A constant, or the argument of a call about to be made.
Push == /\ At("PUSH")
        /\ PushOrFail(stack, IF Op.var = None THEN Temp ELSE <<Op.var, Fp + 1>>, ip + 1)

Pop == /\ At("POP") \/ At("DEFINE_GLOBAL")
       /\ IF Sp = 0 THEN Fail("corrupted") ELSE stack' = Drop(1) /\ Go(ip + 1) /\ OnlyStack

Binary == /\ At("BINARY")
          /\ IF Sp < 2 THEN Fail("corrupted") ELSE PushOrFail(Drop(2), Temp, ip + 1)

GetLocal == At("GET_LOCAL") /\ PushOrFail(stack, stack[Base + Op.n + 1], ip + 1)

SetLocal == /\ At("SET_LOCAL")
            /\ stack' = [stack EXCEPT ![Base + Op.n + 1] = <<Op.var, Fp>>]
            /\ Go(ip + 1) /\ OnlyStack

\* Mutant of DefineLocal: stores without padding the stack.
DefineLocalUnpadded ==
    /\ At("DEFINE_LOCAL")
    /\ IF Sp = 0 THEN Fail("corrupted")
       ELSE /\ stack' = [Drop(1) EXCEPT ![Base + Op.n + 1] = <<Op.var, Fp>>]
            /\ Go(ip + 1) /\ OnlyStack

\* Pops the value, pads with nil up to the slot, and stores it there.
DefineLocal ==
    LET s == Base + Op.n + 1
        padded == [i \in 1..(IF s > Sp - 1 THEN s ELSE Sp - 1) |-> IF i < Sp THEN stack[i] ELSE Temp]
    IN  /\ At("DEFINE_LOCAL")
        /\ IF Sp = 0 THEN Fail("corrupted")
           ELSE IF Len(padded) > StackMax THEN Fail("overflow")
           ELSE stack' = [padded EXCEPT ![s] = <<Op.var, Fp>>] /\ Go(ip + 1) /\ OnlyStack

TryBegin ==
    /\ At("TRY_BEGIN")
    /\ IF Len(handlers) >= HandlersMax THEN Fail("overflow")
       ELSE /\ handlers' = Append(handlers, [catch |-> ip + 1 + Op.n, sp |-> Sp, fp |-> Fp])
            /\ Go(ip + 1)
            /\ UNCHANGED <<stack, frames>>

PopHandlers(n) == IF n > Len(handlers) THEN Fail("corrupted")
                  ELSE /\ handlers' = SubSeq(handlers, 1, Len(handlers) - n)
                       /\ Go(ip + 1)
                       /\ UNCHANGED <<stack, frames>>

TryEnd == At("TRY_END") /\ PopHandlers(1)
Leaving == At("POP_HANDLERS") /\ PopHandlers(Op.n)

\* Mutant of Throwing: what is on the stack stays there.
ThrowingKeepsStack ==
    /\ At("THROW")
    /\ IF Sp = 0 THEN Fail("corrupted")
       ELSE IF handlers = <<>> THEN Fail("uncaught")
       ELSE LET h == Last(handlers) IN
            /\ stack' = Append(Drop(1), Temp)
            /\ frames' = SubSeq(frames, 1, h.fp)
            /\ handlers' = Front(handlers)
            /\ Go(h.catch)

\* Back to the innermost handler, which is gone then, with the value thrown.
\* Stack and frames have been cut when there is found to be no room for it.
Throwing ==
    /\ At("THROW")
    /\ IF Sp = 0 THEN Fail("corrupted")
       ELSE IF handlers = <<>> THEN Fail("uncaught")
       ELSE LET h == Last(handlers) IN
            /\ frames' = SubSeq(frames, 1, h.fp)
            /\ IF h.sp >= StackMax THEN Stop("overflow")
               ELSE /\ stack' = Append(SubSeq(stack, 1, h.sp), Temp)
                    /\ handlers' = Front(handlers)
                    /\ Go(h.catch)

Jumping == /\ At("JUMP")
           /\ Go(ip + 1 + Op.n)
           /\ UNCHANGED <<stack, frames, handlers>>

\* The value tested stays on the stack.
JumpIfFalse == /\ At("JUMP_IF_FALSE")
               /\ \E true \in BOOLEAN : Go(IF true THEN ip + 1 ELSE ip + 1 + Op.n)
               /\ UNCHANGED <<stack, frames, handlers>>

\* Mutant of Calling: one frame too many.
CallingPast ==
    /\ At("CALL")
    /\ IF Fp > FramesMax THEN Fail("overflow")
       ELSE /\ frames' = Append(frames, [ret |-> ip + 1, base |-> Sp - 1, depth |-> Len(handlers)])
            /\ Go(Op.n)
            /\ UNCHANGED <<stack, handlers>>

Calling ==
    /\ At("CALL")
    /\ IF Fp >= FramesMax THEN Fail("overflow")
       ELSE /\ frames' = Append(frames, [ret |-> ip + 1, base |-> Sp - 1, depth |-> Len(handlers)])
            /\ Go(Op.n)
            /\ UNCHANGED <<stack, handlers>>

\* Mutant of Returning: the handlers of the function stay.
ReturningKeepsHandlers ==
    /\ At("RETURN")
    /\ IF Sp = 0 \/ Fp = 0 THEN Fail("corrupted")
       ELSE LET f == Last(frames) IN
            /\ frames' = Front(frames)
            /\ stack' = Append(SubSeq(stack, 1, f.base), Temp)
            /\ Go(f.ret)
            /\ UNCHANGED handlers

Returning ==
    /\ At("RETURN")
    /\ IF Sp = 0 \/ Fp = 0 THEN Fail("corrupted")
       ELSE LET f == Last(frames) IN
            /\ frames' = Front(frames)
            /\ IF f.base >= StackMax THEN Stop("overflow")
               ELSE /\ handlers' = SubSeq(handlers, 1, f.depth)
                    /\ stack' = Append(SubSeq(stack, 1, f.base), Temp)
                    /\ Go(f.ret)

Halt == At("HALT") /\ phase' = "halted" /\ UNCHANGED vmVars

Execute == \/ Push \/ Pop \/ Binary \/ GetLocal \/ SetLocal \/ DefineLocal
           \/ TryBegin \/ TryEnd \/ Leaving \/ Throwing
           \/ Jumping \/ JumpIfFalse \/ Calling \/ Returning \/ Halt

Done == phase \in Failures \cup {"halted", "rejected"} /\ UNCHANGED vars

Next == CompileStep \/ Execute \/ Done

Spec == VmInit /\ [][Next]_vars
-----------------------------------------------------------------------------
TypeOK ==
    /\ phase \in {"main", "func", "run", "halted", "rejected"} \cup Failures
    /\ tryDepth \in Nat /\ entry \in Nat /\ stmts \in Nat
    /\ Len(locals) <= LocalsMax
    /\ phase = "run" => ip \in 1..Len(code)
    /\ Sp <= StackMax /\ Fp <= FramesMax /\ Len(handlers) <= HandlersMax

\* The handlers of the current activation are those of the try blocks the
\* statement about to run is in, innermost last: however the program got here,
\* by break, continue, return, throw or falling out of a block, it has neither
\* kept a handler of a block it left nor lost one of a block it is in.
HandlersMatchTries ==
    phase = "run" /\ Op.stmt # None =>
        LET t == Op.stmt.tries
            active == SubSeq(handlers, Depth + 1, Len(handlers))
        IN  /\ Len(active) = Len(t)
            /\ \A i \in 1..Len(t) : /\ active[i].catch = t[i] + 1 + code[t[i]].n
                                    /\ active[i].fp = Fp

\* A local variable, read anywhere it is visible, is the value last stored for
\* it in this activation: not a temporary, not another block's variable in the
\* same slot, not the nil it was padded with.
LocalsHoldTheirValue ==
    phase = "run" /\ Op.stmt # None =>
        \A i \in 1..Len(Op.stmt.vars) : /\ Base + i <= Sp
                                        /\ stack[Base + i] = <<Op.stmt.vars[i], Fp>>

\* At top level nothing is on the stack between statements, and a program
\* that ends has no frame and no handler left.
TopLevelBalanced ==
    /\ phase = "run" /\ Op.stmt # None /\ Fp = 0 => stack = <<>>
    /\ phase = "halted" => stack = <<>> /\ frames = <<>> /\ handlers = <<>>

\* What the compiler makes never ends in an error that the machine puts down
\* to corrupted bytecode.
NeverCorrupted == phase # "corrupted"

\* A throw at top level outside every try block ends the run.
UncaughtThrowFails ==
    [][phase = "run" /\ Op.op = "THROW" /\ Fp = 0 /\ code[ip - 1].stmt.tries = <<>>
           => phase' = "uncaught"]_vars
=============================================================================
