---------------------------- MODULE ParserNesting ---------------------------
(***************************************************************************)
(* How the parse_ functions of src/src/parser.c nest brackets and separate *)
(* expressions, read off Parser!Code without running a program.  A place   *)
(* is what is known of an activation wherever it is in its code: how many  *)
(* brackets are open in it, behind which of its variables an expression    *)
(* has ended, what node n holds, and which tokens come next.  Like the     *)
(* shapes of ParserOwnership they are a set that TLC computes.             *)
(***************************************************************************)
EXTENDS ParserOwnership

\* No binary operator of what these functions return stands outside brackets.
Tight == {"unary", "postfix", "primary", "literal", "array", "map", "group", "name", "nothing"}
\* What these return may go on with an operator.
Loose == {"expr", "level", "operand"}

AnOperator == "an operator"   \* stands for all those of Levels

\* type is "unknown" when n may hold any node, or none; see has a set for each token that is known.
Entry(f, see) == [fn |-> f, pc |-> 1, nest |-> 0, shut |-> NR, type |-> "unknown", see |-> see]
Onward(p) == [p EXCEPT !.pc = @ + 1]

\* A token of S is taken.
Ate(p, S) == [p EXCEPT !.pc = @ + 1,
                       !.nest = IF S \subseteq Opening THEN @ + 1
                                ELSE IF S \subseteq Closing THEN @ - 1 ELSE @,
                       !.shut = IF S \subseteq Ending THEN NR ELSE @,
                       !.see = IF @ = <<>> THEN <<>> ELSE Tail(@)]

\* The next token is of S, or is not.
Seen(p, S) == IF p.see = <<>> THEN <<S>> ELSE <<p.see[1] \cap S>>
Ruled(p, S) == IF p.see = <<>> THEN <<>> ELSE <<p.see[1] \ S>>

\* What is known behind a condition that holds, and behind one that does not.
Entered(p) ==
    LET i == InstrOf(p) IN
    [p EXCEPT !.pc = @ + 1,
              !.type = IF i.name = "indexed" THEN "index" ELSE @,
              !.see = CASE i.name = "check"      -> Seen(p, i.toks)
                        [] i.name = "no check"   -> Ruled(p, i.toks)
                        [] i.name = "assignable" -> <<{"id"}, {"="}>>
                        [] i.name = "indexed"    -> <<{"="}>>
                        [] i.name = "at level"   -> <<{AnOperator}>>
                        [] OTHER                 -> @]
Skipped(p) ==
    LET i == InstrOf(p) IN
    [p EXCEPT !.pc = @ + 1 + i.skip,
              !.see = CASE i.name = "check"    -> Ruled(p, i.toks)
                        [] i.name = "no check" -> Seen(p, i.toks)
                        [] OTHER               -> @]

\* The tokens that parse_stmt and parse_primary tell apart.
Heads == {"let", "print", "if", "while", "for", "try", "throw", "return", "func", "break",
          "continue", "{", "number", "string", "[", "(", "id"}
Default == {"exprstmt", "nothing"}
Chose(f, g) == Entry(g, IF g \in Default THEN <<>> ELSE <<{t \in Heads : Chosen(f, t) = g}>>)

Made(p) ==
    LET i == InstrOf(p) IN
    [p EXCEPT !.pc = @ + 1, !.type = i.name,
              !.shut = IF i.name # "binop" /\ (i.regs = {} \/ @ = NR) THEN NR ELSE {"r"}]

\* The caller, when the call has ended.
Resumed(p) ==
    LET i == InstrOf(p) IN
    [p EXCEPT !.pc = @ + 1, !.see = <<>>,
              !.shut = IF Register(i) = "kid" THEN (IF i.name \in Loose THEN @ \ {"n"} ELSE @)
                       ELSE IF i.name \in Loose THEN @ \ {Register(i)} ELSE @ \cup {Register(i)},
              !.type = IF Register(i) = "n" THEN "unknown" ELSE @]

\* The places one instruction leads to when the parser does not fail.
Leads(p) ==
    LET i == InstrOf(p) IN
    UNION {IF i.do = "advance" THEN {Ate(p, p.see[1])} ELSE {},
           IF i.do = "expect" THEN {Ate(p, i.toks)} ELSE {},
           IF i.do = "unless" THEN {Entered(p), Skipped(p)} ELSE {},
           IF i.do = "jump" THEN {[p EXCEPT !.pc = @ + 1 + i.skip]} ELSE {},
           IF i.do = "branch" THEN {Chose(p.fn, g) : g \in Targets(p.fn)} ELSE {},
           IF i.do \in {"new", "reseat"} THEN {Made(p)} ELSE {},
           IF i.do = "bail" THEN {Onward(p)} ELSE {},
           IF i.do = "call" THEN {Resumed(p)} \cup {Entry(s.fn, <<>>) : s \in Callees(i.name)} ELSE {}}

\* Tokens that may be taken: a bracket is opened only behind ended expressions,
\* and closed only when it is open.
Edible(p, S) ==
    /\ S # {} /\ "eof" \notin S
    /\ \/ S \subseteq Opening /\ p.shut = NR
       \/ S \subseteq Closing /\ p.nest > 0
       \/ S \subseteq Ending \ Closing
       \/ S \cap (Opening \cup Ending) = {}

\* The loop of parse_at_level.
LevelSteps == <<"call", "bail", "unless", "advance", "call", "bail", "new", "jump", "return">>

\* Where an activation may be: what it calls comes behind the end of what it
\* has, but for the operands of an operator, which are joined as such.
Nested(p) ==
    LET i == InstrOf(p) IN
    /\ i.do = "advance" => p.see # <<>> /\ Edible(p, p.see[1])
    /\ i.do = "expect"  => Edible(p, i.toks)
    /\ i.do = "unless"  => /\ p.see = <<>> \/ p.see[1] # {AnOperator}
                           /\ i.name = "at level" => p.fn = "level"
    /\ i.do = "branch"  => p.pc = 1 /\ p.nest = 0 /\ p.fn \in {"stmt", "primary"}
    /\ i.do = "new"     => /\ i.regs # {} => i.name # "unop"
                           /\ i.name = "binop" <=> p.fn = "level"
                           /\ i.name = "unop" => p.fn = "unary" /\ p.pc = 3
    /\ i.do = "reseat"  => p.type = "index" /\ p.shut = NR /\ i.name \notin {"binop", "unop"}
    /\ i.do = "call"    => /\ Register(i) = "kid" => /\ p.shut = NR /\ p.type \notin {"unknown", "binop"}
                                                     /\ p.type = "unop" => i.name = "unary"
                           /\ Register(i) = "r" => p.fn = "level" \/ "n" \in p.shut
                           /\ p.fn \in Tight => p.nest > 0 \/ i.name \in Tight
                           /\ p.fn = "level" <=> i.name = "operand"
    /\ i.do = "return"  => p.nest = 0 /\ (p.fn \notin Loose => "n" \in p.shut)
    /\ DOMAIN p = DOMAIN Entry("program", <<>>) /\ p.nest \in Nat
    /\ p.fn = "level"   => /\ p.nest = 0 /\ p.pc \in DOMAIN LevelSteps /\ i.do = LevelSteps[p.pc]
                           /\ i.do = "call" => Register(i) = IF p.pc = 1 THEN "n" ELSE "r"
                           /\ i.do = "unless" => i.name = "at level" /\ i.skip = 5
                           /\ i.do = "jump" => i.skip = -6
    /\ p.fn = "unary"   => /\ i.do = "unless"  => p.pc = 1 /\ i.skip \in Nat \ {0, 1}
                           /\ i.do = "advance" => p.pc = 2 /\ p.see[1] \cap Opening = {}
                           /\ i.do = "new"     => p.pc = 3
                           /\ i.do \in {"unless", "advance", "new"} \/ (i.do \in {"call", "bail", "return"} /\ p.pc > 3)

\* What is reached in at most k steps from the start of parse_program.
Mapped[k \in Nat] ==
    IF k = 0 THEN {Entry("program", <<>>)}
    ELSE LET P == Mapped[k - 1] IN P \cup UNION {Leads(p) : p \in P}

\* Enough steps to reach all there is: the set is closed.
Places == Mapped[60]

(* Every place in the parser's code is well nested.  Both sides are closed *)
(* expressions, which TLC evaluates.                                       *)
ASSUME NestingAssumption ==
    /\ Entry("program", <<>>) \in Places
    /\ \A p \in Places : /\ p.fn \in DOMAIN Code /\ p.pc \in Nat \cap DOMAIN Code[p.fn]
                         /\ Nested(p)
                         /\ Leads(p) \subseteq Places
=============================================================================
