------------------------------ MODULE Frontend -----------------------------
(***************************************************************************)
(* main of src/src/main.c: the source is expanded (Imports), cut into      *)
(* tokens (Lexer), parsed, compiled and run; the first stage that fails    *)
(* decides the exit code.  Parser, compiler and virtual machine appear     *)
(* here by their outcome only: they have modules of their own.             *)
(***************************************************************************)
EXTENDS Imports, Lexer

CONSTANT Leftover   \* texts that fresh memory of malloc may happen to hold

ASSUME FrontendAssumption ==
    /\ Leftover \subseteq Seq(STRING \ {End})
    \* process_text cuts a file into lines at its newlines, up to the NUL
    \* (preprocessor.c:178)
    /\ \A k \in DOMAIN Disks : \A d \in Disks[k] : \A f \in File : \A i \in DOMAIN d[f] :
          \A j \in DOMAIN d[f][i].text : d[f][i].text[j] \notin {Newline, End}

VARIABLES stage,  \* where main is; "exited"
          exit,   \* its exit code, None while it runs
          held    \* what main has allocated and not freed

vars == <<importVars, lexVars, stage, exit, held>>

Pieces == {"src", "tokens", "program", "chunk", "vm"}

TypeOK == /\ ImportsTypeOK
          /\ pos \in 1..(Len(text) + 1) /\ line \in Nat /\ col \in Nat
          /\ lexed \in {"todo", "ok", "lex"}
          /\ stage \in {"preprocess", "lex", "parse", "compile", "run", "exited"}
          /\ exit \in {0, 3, 4, 5, 6, 7} \cup {None}
          /\ held \subseteq Pieces

Init == /\ ImportsInit /\ LexInit /\ text = <<>>
        /\ stage = "preprocess" /\ exit = None /\ held = {}
-----------------------------------------------------------------------------
Go(next, pieces) == stage' = next /\ held' = pieces /\ UNCHANGED exit
Exit(code, pieces) == stage' = "exited" /\ exit' = code /\ held' = pieces

Preprocess == /\ stage = "preprocess"
              /\ Expand
              /\ UNCHANGED <<lexVars, stage, exit, held>>

\* Mutant of Copied: the lines are not ended.
CopiedUnended(n) == disk[out[n].file][out[n].line].text

\* What process_text appends for a line: its text or rest, and a newline.
Copied(n) == Append(disk[out[n].file][out[n].line].text, Newline)

\* sb_init writes no NUL: when no line was copied, the buffer handed to the
\* lexer is whatever malloc returned.
Preprocessed ==
    /\ stage = "preprocess" /\ expansion = "ok"
    /\ text' \in IF out = <<>> THEN Leftover ELSE {FlattenSeq([n \in DOMAIN out |-> Copied(n)])}
    /\ Go("lex", {"src"})
    /\ UNCHANGED <<importVars, pos, line, col, tokens, lexed, errAt>>

\* sb.buf is freed by femboy_preprocess_file.  Errors in directives have
\* status FEMBOY_ERR_LEX, and exit with EXIT_IO all the same.
PreprocessFailed ==
    /\ stage = "preprocess" /\ expansion \in {"cyclic", "io", "lex"}
    /\ Exit(3, {})
    /\ UNCHANGED <<importVars, lexVars>>

Lex == stage = "lex" /\ Tokenize /\ UNCHANGED <<importVars, stage, exit, held>>

\* Mutant of AfterTokenize: src is freed on success only.
AfterTokenizeKeepsSrc(ok) == IF ok THEN {"tokens"} ELSE held

\* src is freed whether or not there are tokens.
AfterTokenize(ok) == (held \ {"src"}) \cup (IF ok THEN {"tokens"} ELSE {})

LexDone == /\ stage = "lex" /\ lexed # "todo"
           /\ IF lexed = "ok" THEN Go("parse", AfterTokenize(TRUE)) ELSE Exit(4, AfterTokenize(FALSE))
           /\ UNCHANGED <<importVars, lexVars>>

Parse == /\ stage = "parse"
         /\ \/ Go("compile", (held \ {"tokens"}) \cup {"program"})
            \/ Exit(5, held \ {"tokens"})
         /\ UNCHANGED <<importVars, lexVars>>

Compile == /\ stage = "compile"
           /\ \/ Go("run", (held \ {"program"}) \cup {"chunk", "vm"})
              \/ Exit(6, held \ {"program", "chunk"})
           /\ UNCHANGED <<importVars, lexVars>>

Run == /\ stage = "run"
       /\ \E code \in {0, 7} : Exit(code, held \ {"vm", "chunk"})
       /\ UNCHANGED <<importVars, lexVars>>

Next == \/ Preprocess \/ Preprocessed \/ PreprocessFailed
        \/ Lex \/ LexDone \/ Parse \/ Compile \/ Run

Spec == Init /\ [][Next]_vars
\* One thread, which goes on with the stages before the parser.
FairSpec == Spec /\ WF_vars(Preprocess \/ Preprocessed \/ PreprocessFailed \/ Lex \/ LexDone)
-----------------------------------------------------------------------------
(* Whatever stage fails, main gives back everything it got (main.c:54-96). *)
ReleasedAtExit == stage = "exited" => held = {}

(* The line number of a token, as every later message reports it, counts  *)
(* the lines the preprocessor copied: line n of the text is the n-th copied *)
(* line, not line n of a file (preprocessor.c:202, 205; lexer.c:20).        *)
LinesAreCopiedLines ==
    stage \notin {"preprocess", "exited"} /\ out # <<>> =>
        \A n \in DOMAIN tokens : tokens[n].kind # "eof" =>
            LET start == Max({0} \cup Newlines(1, tokens[n].from))
                origin == out[tokens[n].line]
            IN  /\ tokens[n].line \in DOMAIN out
                /\ tokens[n].from - start \in DOMAIN disk[origin.file][origin.line].text
                /\ disk[origin.file][origin.line].text[tokens[n].from - start] = At(tokens[n].from)

(* Imports form cycles and diamonds, comments and strings stay open; the   *)
(* stages before the parser end all the same (README.md:69: "a cyclic      *)
(* import is a clean error, not a hang").                                  *)
FrontendEnds == <>(stage \notin {"preprocess", "lex"})
=============================================================================
