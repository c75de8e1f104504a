--------------------------- MODULE ParserOwnership --------------------------
(***************************************************************************)
(* The discipline in which the parse_ functions of src/src/parser.c keep   *)
(* their node variables, read off Parser!Code without running a program.   *)
(* A shape is what an activation looks like when its nodes and the tokens  *)
(* are forgotten: where it is, which of its variables are not NULL, and    *)
(* whether the parser has failed.  Code mentions neither constants nor     *)
(* variables, so the shapes it can get into are a set that TLC computes.   *)
(***************************************************************************)
EXTENDS Parser

Shape(f, pc, n, r, failed_) == [fn |-> f, pc |-> pc, n |-> n, r |-> r, failed |-> failed_]

\* The shape of an activation that starts.
Start(f) == Shape(f, 1, FALSE, FALSE, FALSE)

InstrOf(s) == Code[s.fn][s.pc]
Register(i) == CHOOSE x \in i.regs : TRUE
On(s) == Shape(s.fn, s.pc + 1, s.n, s.r, s.failed)
\* What parse_stmt and parse_primary may turn into.
Targets(f) == {Chosen(f, t) : t \in {"let", "print", "if", "while", "for", "try", "throw", "return",
                                     "func", "break", "continue", "{", "number", "string", "[", "(",
                                     "id", "eof"}}
\* What a call may start, in any activation.
Callees(f) == IF f = "operand" THEN {Start("unary"), Start("level")} ELSE {Start(f)}

\* What runs on with the next instruction.
GoesOn(s) ==
    LET i == InstrOf(s) IN
    \/ i.do \in {"advance", "expect"}
    \/ i.do = "unless" /\ (i.name = "unclosed" => ~s.failed) /\ (i.name = "indexed" => s.n)
    \/ i.do = "call" /\ s.failed
    \/ i.do = "bail" /\ ~s.failed

\* What the caller may look like when a call has ended: it got a node, or the
\* parser has failed.
Resumption(s, id, f) ==
    LET x == Register(InstrOf(s))
    IN  Shape(s.fn, s.pc + 1, IF x = "n" THEN id ELSE s.n, IF x = "r" THEN id ELSE s.r, f)
Returned(s) == {Resumption(s, TRUE, FALSE), Resumption(s, TRUE, TRUE), Resumption(s, FALSE, TRUE)}

\* The shapes one instruction leads to; a call leads to what it starts, and to
\* the caller once that has ended.
After(s) ==
    LET i == InstrOf(s) IN
    UNION {IF GoesOn(s) THEN {On(s)} ELSE {},
           IF i.do \in {"expect", "fail"} THEN {Shape(s.fn, s.pc + 1, s.n, s.r, TRUE)} ELSE {},
           IF i.do \in {"unless", "jump"} THEN {Shape(s.fn, s.pc + 1 + i.skip, s.n, s.r, s.failed)} ELSE {},
           IF i.do = "branch" THEN {Shape(g, 1, FALSE, FALSE, s.failed) : g \in Targets(s.fn)} ELSE {},
           IF i.do \in {"new", "reseat"} THEN {Shape(s.fn, s.pc + 1, TRUE, FALSE, s.failed)} ELSE {},
           IF i.do = "call" /\ ~s.failed THEN Callees(i.name) \cup Returned(s) ELSE {}}

\* Where an activation may be: not reading on after a failure, nor losing a node
\* it holds, nor putting one below NULL or NULL below one, nor returning NULL
\* for a success.
Careful(s) ==
    LET i == InstrOf(s) IN
    /\ i.do = "advance" => ~s.failed
    /\ i.do = "branch"  => ~s.n /\ ~s.r /\ s.fn \in {"stmt", "primary"}
    /\ i.do = "new"     => /\ i.regs \in {{}, N, NR}
                           /\ s.n <=> "n" \in i.regs
                           /\ s.r <=> "r" \in i.regs
    /\ i.do = "reseat"  => s.n /\ ~s.r
    /\ i.do = "call"    => /\ Register(i) \in {"n", "r", "kid"}
                           /\ Register(i) = "n" => ~s.n /\ ~s.r
                           /\ Register(i) = "r" => ~s.r
                           /\ Register(i) = "kid" => s.n /\ ~s.r
    /\ i.do = "bail"    => /\ i.regs \subseteq {"n", "r"}
                           /\ s.n => "n" \in i.regs
                           /\ s.r => "r" \in i.regs
    /\ i.do = "return"  => /\ ~s.r
                           /\ s.n \/ s.failed
                           /\ s.fn = "program" => ~s.failed

\* What is reached in at most k steps from the start of parse_program.
Explored[k \in Nat] ==
    IF k = 0 THEN {Start("program")}
    ELSE LET S == Explored[k - 1] IN S \cup UNION {After(s) : s \in S}

\* Enough steps to reach all there is: the set is closed.
Shapes == Explored[60]

(* Every shape the parser's code can get into is careful.  Both sides are  *)
(* closed expressions, which TLC evaluates.                                *)
ASSUME OwnershipAssumption ==
    /\ Start("program") \in Shapes
    /\ \A s \in Shapes : /\ s.fn \in DOMAIN Code /\ s.pc \in Nat \cap DOMAIN Code[s.fn]
                         /\ Careful(s)
                         /\ After(s) \subseteq Shapes
=============================================================================
