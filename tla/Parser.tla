------------------------------- MODULE Parser ------------------------------
(***************************************************************************)
(* src/src/parser.c: a recursive descent parser that builds the tree of    *)
(* src/src/ast.c and, at the first token that does not fit, unwinds and    *)
(* frees what each activation holds.  The body of every parse_ function is *)
(* written down as a list of instructions in the order of its C statements, *)
(* error exits included; `stack` holds the activations that run them.      *)
(* Tokens are chosen when the parser first looks at them.                  *)
(***************************************************************************)
EXTENDS Integers, Sequences, FiniteSets, SequencesExt, FiniteSetsExt

CONSTANTS Programs,  \* what programs are made of: records of the tokens one
                     \* starts with, the kinds of token that follow, and a
                     \* bound on the number of tokens, T_EOF included
          Levels     \* [0..n -> sets of binary operators]: prec_of

Opening == {"(", "[", "{"}
Closing == {")", "]", "}"}
\* What ends an expression, or the side of an assignment.
Ending == Closing \cup {";", ",", ":", "="}

ASSUME ParserAssumption ==
    /\ \A p \in Programs : p.start \in Seq(p.kinds) /\ p.max \in Nat /\ Len(p.start) < p.max
    /\ IsFiniteSet(DOMAIN Levels) /\ DOMAIN Levels = 0..(Cardinality(DOMAIN Levels) - 1)
    /\ DOMAIN Levels # {}
    \* prec_of gives an operator one level, and punctuation none (parser.c:235)
    /\ \A j, k \in DOMAIN Levels : j # k => Levels[j] \cap Levels[k] = {}
    /\ \A k \in DOMAIN Levels : Levels[k] \cap (Opening \cup Ending \cup {"eof"}) = {}

LevelMax == Max(DOMAIN Levels)

VARIABLES program, tokens,
          pos, failed,   \* ParserState
          errPos,        \* the token parse_fail reported, or 0
          stack,         \* activations, innermost last
          nodes,         \* live nodes: id -> [type, at, kids]; a kid may be 0
          fresh,         \* next id of ast_new_node; 0 is NULL
          misfreed,      \* ast_free met a node that was not live
          root, result   \* *out_program; "todo", "ok" or "failed"

vars == <<program, tokens, pos, failed, errPos, stack, nodes, fresh, misfreed, root, result>>
-----------------------------------------------------------------------------
(* The instructions.  n and r are the node variables of an activation.     *)
Do(what, toks, name, regs, skip) ==
    <<[do |-> what, toks |-> toks, name |-> name, regs |-> regs, skip |-> skip]>>

Advance        == Do("advance", {}, "", {}, 0)
New(type)      == Do("new", {}, type, {}, 0)        \* n = ast_new_node(type)
Join(type, regs) == Do("new", {}, type, regs, 0)    \* ... which takes n (and r)
Reseat(type)   == Do("reseat", {}, type, {}, 0)     \* ... which takes what n has
Expect(t)      == Do("expect", {t}, "", {}, 0)
Call(f, reg)   == Do("call", {}, f, {reg}, 0)       \* into n, r, or below n ("kid")
Bail(regs)     == Do("bail", {}, "", regs, 0)       \* if (ps->failed) free regs, return NULL
Branch         == Do("branch", {}, "", {}, 0)       \* on the kind of the token
Return         == Do("return", {}, "", {}, 0)
Jump(d)        == Do("jump", {}, "", {}, d)

Need(t, regs)     == Expect(t) \o Bail(regs)
Sub(f, reg, regs) == Call(f, reg) \o Bail(regs)

\* if (condition) body, while (condition) body, do body while (match(',')).
When(cond, toks, body) == Do("unless", toks, cond, {}, Len(body)) \o body
Either(toks, body, other) == When("check", toks, body \o Jump(Len(other))) \o other
While(cond, toks, body) == When(cond, toks, body \o Jump(-(Len(body) + 2)))
Listed(body) == body \o When("check", {","}, Advance \o Jump(-(Len(body) + 3)))
-----------------------------------------------------------------------------
(* The functions.  What an error exit frees is the last argument of Need   *)
(* and Sub.                                                                *)
N == {"n"}
NR == {"n", "r"}

Expressions ==
  [expr |->   \* parse_assign
      When("assignable", {}, Advance \o Advance \o New("assign") \o Sub("expr", "kid", N) \o Return)
      \o Sub("level", "n", N)
      \o When("indexed", {}, Advance \o Reseat("index_set") \o Sub("expr", "kid", N) \o Return)
      \o Return,
   level |->  \* parse_at_level
      Sub("operand", "n", N)
      \o While("at level", {}, Advance \o Sub("operand", "r", NR) \o Join("binop", NR))
      \o Return,
   unary |->
      \* "-" stands for "!" too, "++" for "--"
      When("check", {"-", "++"}, Advance \o New("unop") \o Sub("unary", "kid", N) \o Return)
      \o Call("postfix", "n") \o Return,
   postfix |->
      Sub("primary", "n", N)
      \o While("check", {"[", "++"},
            Either({"["}, Advance \o Sub("expr", "r", NR) \o Need("]", NR) \o Join("index", NR),
                          Advance \o Join("increment", N)))
      \o Return,
   primary |-> Branch,
   literal |-> Advance \o New("literal") \o Return,
   array |-> Advance \o New("array")
             \o When("no check", {"]"}, Listed(Sub("expr", "kid", N)))
             \o Need("]", N) \o Return,
   map |-> Advance \o New("map")
           \o When("no check", {"}"},
                Listed(Need("string", N) \o Need(":", N) \o Sub("expr", "kid", N)))
           \o Need("}", N) \o Return,
   group |-> Advance \o Sub("expr", "n", N) \o Need(")", N) \o Return,
   name |-> Advance
            \o When("check", {"("}, Advance \o New("call")
                  \o When("no check", {")"}, Listed(Sub("expr", "kid", N)))   \* parse_call_args
                  \o Need(")", N) \o Return)
            \o New("var") \o Return,
   nothing |-> Do("fail", {}, "", {}, 0) \o Return]   \* return parse_fail(...), a NULL

Statements ==
  [program |-> New("program") \o While("unclosed", {"eof"}, Call("stmt", "kid"))
               \o Bail(N) \o Return,
   block |-> Need("{", {}) \o New("block") \o While("unclosed", {"}", "eof"}, Call("stmt", "kid"))
             \o Bail(N) \o Need("}", N) \o Return,
   stmt |-> Branch,
   let |-> Advance \o Need("id", {}) \o New("let")
           \o When("check", {"="}, Advance \o Call("expr", "kid"))
           \o Bail(N) \o Need(";", N) \o Return,
   print |-> Advance \o Need("(", {}) \o New("print") \o Sub("expr", "kid", N)
             \o Need(")", N) \o Need(";", N) \o Return,
   if |-> Advance \o Need("(", {}) \o New("if") \o Sub("expr", "kid", N) \o Need(")", N)
          \o Sub("block", "kid", N)
          \o When("check", {"else"},
               Advance \o Either({"if"}, Call("stmt", "kid"), Call("block", "kid")) \o Bail(N))
          \o Return,
   while |-> Advance \o Need("(", {}) \o New("while") \o Sub("expr", "kid", N) \o Need(")", N)
             \o Sub("block", "kid", N) \o Return,
   for |-> Advance \o Need("(", {}) \o New("for")
           \o Either({";"}, Need(";", N), Sub("stmt", "kid", N))
           \o When("no check", {";"}, Sub("expr", "kid", N)) \o Need(";", N)
           \o When("no check", {")"}, Sub("expr", "kid", N)) \o Need(")", N)
           \o Sub("block", "kid", N) \o Return,
   leave |-> Advance \o New("leave") \o Need(";", N) \o Return,  \* break and continue
   try |-> Advance \o New("try") \o Sub("block", "kid", N)
           \o Need("catch", N) \o Need("(", N) \o Need("id", N) \o Need(")", N)
           \o Sub("block", "kid", N) \o Return,
   throw |-> Advance \o New("throw") \o Sub("expr", "kid", N) \o Need(";", N) \o Return,
   return |-> Advance \o New("return") \o When("no check", {";"}, Call("expr", "kid"))
              \o Bail(N) \o Need(";", N) \o Return,
   func |-> Advance \o Need("id", {}) \o New("func") \o Need("(", N)
            \o When("no check", {")"}, Listed(Need("id", N))) \o Need(")", N)
            \o Sub("block", "kid", N) \o Return,
   exprstmt |-> New("exprstmt") \o Sub("expr", "kid", N) \o Need(";", N) \o Return]

Code == Expressions @@ Statements

\* Which part of parse_stmt and parse_primary a token leads to.
Chosen(f, t) ==
    IF f = "stmt"
    THEN CASE t \in {"let", "print", "if", "while", "for", "try", "throw", "return", "func"} -> t
           [] t \in {"break", "continue"} -> "leave"
           [] t = "{" -> "block"
           [] OTHER -> "exprstmt"
    ELSE CASE t \in {"number", "string"} -> "literal"   \* so are true, false, nil
           [] t = "[" -> "array" [] t = "{" -> "map" [] t = "(" -> "group"
           [] t = "id" -> "name"
           [] OTHER -> "nothing"
-----------------------------------------------------------------------------
Top == stack[Len(stack)]
Instr == Code[Top.fn][Top.pc]
Cur == tokens[pos]
Activation(f, level) == [fn |-> f, pc |-> 1, n |-> 0, r |-> 0, op |-> 0, level |-> level]
SetTop(f) == stack' = [stack EXCEPT ![Len(stack)] = f]
Past == [Top EXCEPT !.pc = @ + 1]

TypeOK ==
    /\ tokens \in Seq(program.kinds \cup {"eof"}) /\ Len(tokens) <= program.max
    /\ pos \in 1..program.max /\ failed \in BOOLEAN /\ errPos \in 0..program.max
    /\ \A k \in DOMAIN stack : stack[k].pc \in DOMAIN Code[stack[k].fn]
    /\ DOMAIN nodes \subseteq 1..(fresh - 1)
    \* a NULL is a child only on the way out of an error
    /\ \A id \in DOMAIN nodes : \A k \in DOMAIN nodes[id].kids :
          nodes[id].kids[k] \in (IF failed THEN 0 ELSE 1)..(fresh - 1)
    /\ misfreed \in BOOLEAN
    /\ root \in 0..(fresh - 1) /\ result \in {"todo", "ok", "failed"}

Init == /\ program \in Programs
        /\ tokens = program.start /\ pos = 1 /\ failed = FALSE /\ errPos = 0
        /\ stack = <<Activation("program", 0)>>
        /\ nodes = [id \in {} |-> 0] /\ fresh = 1 /\ misfreed = FALSE
        /\ root = 0 /\ result = "todo"

\* The parser looks at a token it has not seen: at pos, or, after an
\* identifier in parse_assign, at pos + 1.
Undecided ==
    \/ pos > Len(tokens)
    \/ Instr.name = "assignable" /\ Cur = "id" /\ pos = Len(tokens)

Scan == /\ stack # <<>> /\ Undecided
        /\ \E t \in IF Len(tokens) + 1 = program.max THEN {"eof"} ELSE program.kinds \cup {"eof"} :
              tokens' = Append(tokens, t)
        /\ UNCHANGED <<program, pos, failed, errPos, stack, nodes, fresh, misfreed, root, result>>

At(what) == /\ stack # <<>> /\ ~Undecided /\ Instr.do = what
            /\ UNCHANGED <<program, tokens>>
SameTree == UNCHANGED <<nodes, fresh, misfreed, root, result>>
SameInput == UNCHANGED <<pos, failed, errPos>>

Eat == pos' = (IF Cur = "eof" THEN pos ELSE pos + 1) /\ UNCHANGED <<failed, errPos>>
\* Mutant of ParseFail: the token at fault is skipped.
ParseFailSkips == /\ failed' = TRUE
                  /\ errPos' = IF failed THEN errPos ELSE pos
                  /\ pos' = pos + 1

\* parse_fail: only the first error is kept.
ParseFail == /\ failed' = TRUE
             /\ errPos' = IF failed THEN errPos ELSE pos
             /\ UNCHANGED pos

DoAdvance == At("advance") /\ Eat /\ SetTop([Past EXCEPT !.op = pos]) /\ SameTree

DoExpect == /\ At("expect")
            /\ \/ failed /\ SameInput
               \/ ~failed /\ Cur \in Instr.toks /\ Eat
               \/ ~failed /\ Cur \notin Instr.toks /\ ParseFail
            /\ SetTop(Past) /\ SameTree

\* Mutant of DoFail: parse_primary returns NULL and reports nothing.
DoFailQuiet == At("fail") /\ SetTop(Past) /\ SameInput /\ SameTree

DoFail == At("fail") /\ ParseFail /\ SetTop(Past) /\ SameTree

\* Mutant of AtLevel: looser operators are taken along.
AtLevelOrBelow(k) == Cur \in UNION {Levels[j] : j \in 0..k}

AtLevel(k) == Cur \in Levels[k]

\* Mutant of Unclosed: the loop does not look for a failure.
UnclosedBlind(toks) == Cur \notin toks

Unclosed(toks) == Cur \notin toks /\ ~failed

Holds(condition, toks) ==
    CASE condition = "check"      -> Cur \in toks
      [] condition = "no check"   -> Cur \notin toks
      [] condition = "unclosed"   -> Unclosed(toks)
      [] condition = "assignable" -> Cur = "id" /\ tokens[pos + 1] = "="
      [] condition = "indexed"    -> Top.n # 0 /\ nodes[Top.n].type = "index" /\ Cur = "="
      [] condition = "at level"   -> AtLevel(Top.level)

DoUnless == /\ At("unless")
            /\ SetTop([Past EXCEPT !.pc = @ + (IF Holds(Instr.name, Instr.toks) THEN 0 ELSE Instr.skip)])
            /\ SameInput /\ SameTree

DoJump == At("jump") /\ SetTop([Past EXCEPT !.pc = @ + Instr.skip]) /\ SameInput /\ SameTree

DoBranch == At("branch") /\ SetTop(Activation(Chosen(Top.fn, Cur), 0)) /\ SameInput /\ SameTree

Make(kids, gone) ==
    /\ nodes' = [id \in (DOMAIN nodes \ gone) \cup {fresh} |->
                   IF id = fresh THEN [type |-> Instr.name, at |-> Top.op, kids |-> kids]
                   ELSE nodes[id]]
    /\ fresh' = fresh + 1
    /\ SetTop([Past EXCEPT !.n = fresh, !.r = 0])
    /\ SameInput /\ UNCHANGED <<misfreed, root, result>>

\* The variables a new node takes as children, whatever they hold.
Taken == IF Instr.regs = {} THEN <<>> ELSE IF Instr.regs = N THEN <<Top.n>> ELSE <<Top.n, Top.r>>

DoNew == At("new") /\ Make(Taken, {})

\* The children move to the new node, the old one is freed alone.
DoReseat == At("reseat") /\ Make(nodes[Top.n].kids, {Top.n})

DoCall ==
    /\ At("call")
    /\ \/ failed /\ SetTop(Past)   \* every function begins with a test of ps->failed
       \/ /\ ~failed
          /\ stack' = Append(stack,
               IF Instr.name # "operand" THEN Activation(Instr.name, 0)
               ELSE IF Top.level = LevelMax THEN Activation("unary", 0)
               ELSE Activation("level", Top.level + 1))
    /\ SameInput /\ SameTree

\* What a call returned is entered, the NULL of a failed one too.
Attached(heap, parent, id) == [heap EXCEPT ![parent].kids = Append(@, id)]

\* The activation ends and its caller stores what it returned.
Leave(id, heap) ==
    IF Len(stack) = 1
    THEN /\ stack' = <<>> /\ nodes' = heap
         /\ root' = id /\ result' = IF failed THEN "failed" ELSE "ok"
    ELSE LET below  == Front(stack)
             caller == Last(below)
             reg    == CHOOSE x \in Code[caller.fn][caller.pc].regs : TRUE
             resumed == [caller EXCEPT !.pc = @ + 1,
                                       !.n = IF reg = "n" THEN id ELSE @,
                                       !.r = IF reg = "r" THEN id ELSE @]
         IN  /\ stack' = [below EXCEPT ![Len(below)] = resumed]
             /\ nodes' = IF reg = "kid" THEN Attached(heap, caller.n, id) ELSE heap
             /\ UNCHANGED <<root, result>>

DoReturn == At("return") /\ Leave(Top.n, nodes) /\ SameInput /\ UNCHANGED <<fresh, misfreed>>

\* Mutant of Kids: what follows the first child is forgotten.
KidsFirst(id) == IF id \in DOMAIN nodes /\ nodes[id].kids # <<>> THEN {Head(nodes[id].kids)} \ {0} ELSE {}

\* ast_free returns at once on a NULL.
Kids(id) == IF id \in DOMAIN nodes THEN Range(nodes[id].kids) \ {0} ELSE {}
\* What ast_free reaches from the nodes in S.
Under(S) == LET reach[k \in 0..Cardinality(DOMAIN nodes)] ==
                  IF k = 0 THEN S ELSE reach[k - 1] \cup UNION {Kids(id) : id \in reach[k - 1]}
            IN  reach[Cardinality(DOMAIN nodes)]

DoBail ==
    /\ At("bail")
    /\ \/ ~failed /\ SetTop(Past) /\ SameTree
       \/ /\ failed
          /\ LET freed == Under({IF x = "n" THEN Top.n ELSE Top.r : x \in Instr.regs} \ {0})
             IN  /\ Leave(0, [id \in DOMAIN nodes \ freed |-> nodes[id]])
                 /\ misfreed' = (misfreed \/ ~(freed \subseteq DOMAIN nodes))
          /\ UNCHANGED fresh
    /\ SameInput

Next == \/ Scan \/ DoAdvance \/ DoExpect \/ DoFail \/ DoUnless \/ DoJump \/ DoBranch
        \/ DoNew \/ DoReseat \/ DoCall \/ DoReturn \/ DoBail

Spec == Init /\ [][Next]_vars
\* One thread, which parses until it is done.
FairSpec == Spec /\ WF_vars(Next)
-----------------------------------------------------------------------------
(* What the parser promises *)

\* Where children are entered: the k-th of node p.
Entries == UNION {{p} \X DOMAIN nodes[p].kids : p \in DOMAIN nodes}
Holders(id) ==
    Cardinality({k \in DOMAIN stack : stack[k].n = id})
      + Cardinality({k \in DOMAIN stack : stack[k].r = id})
      + Cardinality({e \in Entries : nodes[e[1]].kids[e[2]] = id})
      + (IF root = id THEN 1 ELSE 0)

(* Every node belongs to exactly one place: a variable of an activation,   *)
(* its parent, or the program.  So when parsing fails, wherever it does,   *)
(* the error exits free every node and none twice, and a program that is   *)
(* accepted is one tree (parser.c:31-535).                                 *)
HeldOnce ==
    /\ ~misfreed
    /\ \A id \in DOMAIN nodes : Holders(id) = 1
    /\ result = "failed" => DOMAIN nodes = {}

(* From the first error on no token is read: every loop and every caller   *)
(* looks at ps->failed before it goes on.                                  *)
StopsAtError == failed => errPos = pos

\* A bracket that closes is as deep as what it ends.
Depth(k) == Cardinality({m \in 1..k : tokens[m] \in Opening})
              - Cardinality({m \in 1..(k - 1) : tokens[m] \in Closing})
\* Nothing ends the expression of token i before token j.
OneExpression(i, j) ==
    /\ Depth(i) = Depth(j)
    /\ \A k \in i..j : Depth(k) >= Depth(i) /\ (Depth(k) = Depth(i) => tokens[k] \notin Ending)
LevelOf(k) == CHOOSE v \in DOMAIN Levels : tokens[k] \in Levels[v]
Operators == {id \in DOMAIN nodes : nodes[id].type = "binop"}
Between(a, b) == {c \in Operators : nodes[a].at < nodes[c].at /\ nodes[c].at < nodes[b].at
                                    /\ OneExpression(nodes[a].at, nodes[c].at)}

(* Of two operators of one expression, a left of b, b is applied to what a *)
(* yields when a binds at least as tightly as b and as everything between  *)
(* them; a is applied to what b yields when b and everything between binds *)
(* tighter than a; and a prefix operator never takes a binary one along    *)
(* (parse_at_level, parser.c:255).                                         *)
BindsByLevel ==
    result = "ok" =>
        /\ \A a, b \in Operators :
              nodes[a].at < nodes[b].at /\ OneExpression(nodes[a].at, nodes[b].at) =>
                LET level(id) == LevelOf(nodes[id].at) IN
                /\ a \in Under({b}) <=>
                      \A c \in Between(a, b) \cup {a} : level(c) >= level(b)
                /\ b \in Under({a}) <=>
                      \A c \in Between(a, b) \cup {b} : level(c) > level(a)
        /\ \A u \in DOMAIN nodes : \A b \in Operators \cap Under({u}) :
              nodes[u].type = "unop" => ~OneExpression(nodes[u].at, nodes[b].at)

(* Parsing ends for every program, one cut off anywhere included: no loop  *)
(* goes on after a failure or at the end of the tokens.                    *)
ParsingEnds == <>(result # "todo")
=============================================================================
