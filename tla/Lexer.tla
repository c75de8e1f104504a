------------------------------- MODULE Lexer -------------------------------
(***************************************************************************)
(* src/src/lexer.c: femboy_tokenize, one token, blank or comment a step.   *)
(* A character is a string of length 1; Letter, Digit and Blank stand for  *)
(* their classes.  A token keeps the stretch of text it was made from;     *)
(* which keyword a word is, and the value of a number, are left out.       *)
(***************************************************************************)
EXTENDS Integers, Sequences, FiniteSets, SequencesExt, FiniteSetsExt

CONSTANTS Letter, Digit, Blank,  \* isalpha and '_'; isdigit; space, tab, CR, LF
          Operator,              \* characters that stand for themselves
          Doubled,               \* [character -> what may follow it]: ++ == != <= && ...
          Escape                 \* characters that may follow a backslash

Quote == "\""
Backslash == "\\"
Newline == "\n"
End == ""   \* the NUL after the text

ASSUME LexerAssumption ==
    /\ Newline \in Blank
    /\ {Quote, Backslash} \subseteq Escape
    /\ End \notin Letter \cup Digit \cup Blank \cup Operator \cup Escape
                  \cup DOMAIN Doubled \cup Range(Doubled)
    \* no character starts tokens of two kinds, nor a blank and a token
    /\ Blank \cap (Letter \cup Digit \cup Operator \cup DOMAIN Doubled) = {}
    /\ Letter \cap Digit = {}
    /\ (Letter \cup Digit) \cap (Operator \cup DOMAIN Doubled) = {}
    /\ Quote \notin Blank \cup Letter \cup Digit \cup Operator \cup DOMAIN Doubled

VARIABLES text,    \* LexState.src
          pos,     \* LexState.pos, counted from 1
          line, col,
          tokens,  \* arr[0 .. n-1]
          lexed,   \* "todo", then the status: "ok" or "lex"
          errAt    \* line and column of the error, None before

lexVars == <<text, pos, line, col, tokens, lexed, errAt>>

\* peekc and peekc2
At(i) == IF i \in DOMAIN text THEN text[i] ELSE End

\* Where a loop that eats the characters of S stops.
EndOf(S, i) == Min({j \in i..(Len(text) + 1) : At(j) \notin S})

\* The scan of a string (168-171): the quote that closes it, or the end.
Closing[i \in Nat] ==
    IF At(i) \in {Quote, End} THEN i
    ELSE IF At(i) = Backslash /\ At(i + 1) # End THEN Closing[i + 2]
    ELSE Closing[i + 1]

\* Mutant of Unescape: every backslash is dropped, an escaped one too.
UnescapeDropsAll(raw) == Cardinality({k \in DOMAIN raw : raw[k] # Backslash})

\* The second loop (181-205), on raw[i..]: how many characters it writes, or
\* -1 for an unknown escape.
Unescape(raw) ==
    LET Written[i \in Nat] ==
          IF i > Len(raw) \/ (raw[i] = Backslash /\ i = Len(raw)) THEN 0
          ELSE LET step == IF raw[i] = Backslash THEN 2 ELSE 1
               IN  IF (step = 2 /\ raw[i + 1] \notin Escape) \/ Written[i + step] = -1
                   THEN -1
                   ELSE 1 + Written[i + step]
    IN  Written[1]

LexInit == /\ pos = 1 /\ line = 1 /\ col = 1
           /\ tokens = <<>> /\ lexed = "todo" /\ errAt = <<>>

Newlines(i, j) == {k \in i..(j - 1) : At(k) = Newline}

\* advc, until pos = to.
Advance(to) ==
    LET ends == Newlines(pos, to) IN
    /\ pos' = to
    /\ line' = line + Cardinality(ends)
    /\ col' = IF ends = {} THEN col + (to - pos) ELSE to - Max(ends)

Lexing == lexed = "todo"
Skip(to) == Advance(to) /\ UNCHANGED <<text, tokens, lexed, errAt>>

Token(kind, to, size) ==
    /\ tokens' = Append(tokens, [kind |-> kind, from |-> pos, to |-> to, line |-> line, size |-> size])
    /\ Advance(to)
    /\ UNCHANGED <<text, lexed, errAt>>

\* An error carries the place where the token or comment starts; the tokens
\* made so far are freed.
LexError ==
    /\ lexed' = "lex" /\ errAt' = <<line, col>>
    /\ tokens' = <<>>
    /\ UNCHANGED <<text, pos, line, col>>
-----------------------------------------------------------------------------
\* Mutant of BlankEnd: the loop does not move.
BlankEndHere(i) == i

BlankEnd(i) == EndOf(Blank, i)

SkipBlank == Lexing /\ At(pos) \in Blank /\ Skip(BlankEnd(pos))

SkipLineComment ==
    /\ Lexing /\ At(pos) = "/" /\ At(pos + 1) = "/"
    /\ Skip(Min({j \in pos..(Len(text) + 1) : At(j) \in {Newline, End}}))

\* Mutant of Closers: the star of the opener may close the comment.
ClosersOverlapping(i) == {j \in (i + 1)..Len(text) : At(j) = "*" /\ At(j + 1) = "/"}

\* The places where a comment opened at i may end.
Closers(i) == {j \in (i + 2)..Len(text) : At(j) = "*" /\ At(j + 1) = "/"}

SkipBlockComment ==
    /\ Lexing /\ At(pos) = "/" /\ At(pos + 1) = "*"
    /\ IF Closers(pos) # {} THEN Skip(Min(Closers(pos)) + 2) ELSE LexError

\* Mutant of NumberEnd: a point needs no digit after it.
NumberEndAnyPoint(i) ==
    LET whole == EndOf(Digit, i) IN IF At(whole) = "." THEN EndOf(Digit, whole + 1) ELSE whole

NumberEnd(i) ==
    LET whole == EndOf(Digit, i)
    IN  IF At(whole) = "." /\ At(whole + 1) \in Digit THEN EndOf(Digit, whole + 1) ELSE whole

Number == Lexing /\ At(pos) \in Digit /\ Token("number", NumberEnd(pos), 0)

String ==
    /\ Lexing /\ At(pos) = Quote
    /\ LET close == Closing[pos + 1]
           size == Unescape(SubSeq(text, pos + 1, close - 1))
       IN  IF At(close) = End \/ size = -1 THEN LexError ELSE Token("string", close + 1, size)

Word == Lexing /\ At(pos) \in Letter /\ Token("word", EndOf(Letter \cup Digit, pos), 0)

OpensComment == At(pos) = "/" /\ At(pos + 1) \in {"/", "*"}
IsDoubled == At(pos) \in DOMAIN Doubled /\ At(pos + 1) = Doubled[At(pos)]

Punctuation ==
    /\ Lexing /\ At(pos) \in Operator \cup DOMAIN Doubled /\ ~OpensComment
    /\ \/ IsDoubled /\ Token("op", pos + 2, 0)
       \/ ~IsDoubled /\ At(pos) \in Operator /\ Token("op", pos + 1, 0)
       \/ ~IsDoubled /\ At(pos) \notin Operator /\ LexError

Unexpected ==
    /\ Lexing
    /\ At(pos) \notin Letter \cup Digit \cup Blank \cup Operator \cup DOMAIN Doubled \cup {Quote, End}
    /\ LexError

EndOfText ==
    /\ Lexing /\ At(pos) = End
    /\ lexed' = "ok"
    /\ tokens' = Append(tokens, [kind |-> "eof", from |-> pos, to |-> pos, line |-> line, size |-> 0])
    /\ UNCHANGED <<text, pos, line, col, errAt>>

Tokenize == \/ SkipBlank \/ SkipLineComment \/ SkipBlockComment
            \/ Number \/ String \/ Word \/ Punctuation \/ Unexpected \/ EndOfText
-----------------------------------------------------------------------------
(* What the tokens promise *)

\* A character of w is hidden when an odd run of backslashes stands before it.
Hidden(w, k) ==
    \E n \in 1..(k - 1) : /\ n % 2 = 1
                          /\ \A m \in (k - n)..(k - 1) : w[m] = Backslash
                          /\ k - n = 1 \/ w[k - n - 1] # Backslash

IsNumber(w) == \E n \in 1..Len(w) :
    /\ \A k \in DOMAIN w \ {n} : w[k] \in Digit
    /\ w[n] \in Digit \/ (w[n] = "." /\ n \notin {1, Len(w)})
IsWord(w) == w[1] \in Letter /\ \A k \in DOMAIN w : w[k] \in Letter \cup Digit
IsString(w) ==
    /\ Len(w) >= 2 /\ w[1] = Quote /\ w[Len(w)] = Quote
    /\ \A k \in 2..Len(w) : /\ w[k] = Quote => (Hidden(w, k) <=> k < Len(w))
                            /\ Hidden(w, k) => w[k] \in Escape
IsPunctuation(w) ==
    \/ Len(w) = 1 /\ w[1] \in Operator
    \/ Len(w) = 2 /\ w[1] \in DOMAIN Doubled /\ w[2] = Doubled[w[1]]
IsLexeme(w) == IsNumber(w) \/ IsWord(w) \/ IsString(w) \/ IsPunctuation(w)

\* The lexemes that start at i, by where they end.
LexemesAt(i) == {j \in (i + 1)..(Len(text) + 1) : IsLexeme(SubSeq(text, i, j - 1))}

\* Where an error is reported, as a position in the text.
ErrPos == CHOOSE i \in 1..(Len(text) + 1) :
    errAt = <<1 + Cardinality(Newlines(1, i)), i - Max({0} \cup Newlines(1, i))>>

(* Every token is the longest lexeme that starts where it starts, and the  *)
(* line and column of an error are a place where no lexeme starts or a     *)
(* comment begins that never ends (next_token, lexer.c:139, 337).          *)
LongestLexeme ==
    /\ \A n \in DOMAIN tokens : tokens[n].kind # "eof" =>
          LexemesAt(tokens[n].from) # {} /\ tokens[n].to = Max(LexemesAt(tokens[n].from))
    /\ lexed = "lex" =>
          \/ LexemesAt(ErrPos) = {}
          \/ /\ At(ErrPos) = "/" /\ At(ErrPos + 1) = "*"
             /\ ~ \E j \in (ErrPos + 2)..(Len(text) - 1) : At(j) = "*" /\ At(j + 1) = "/"

(* A string token holds one character for every plain character and every  *)
(* escape between its quotes: the loop that finds the closing quote        *)
(* (lexer.c:168) and the one that decodes (181) pair the backslashes alike. *)
StringsDecodeWhole ==
    \A n \in DOMAIN tokens : tokens[n].kind = "string" =>
        LET w == SubSeq(text, tokens[n].from, tokens[n].to - 1)
            inside == 2..(Len(w) - 1)
        IN  tokens[n].size = Cardinality({k \in inside : Hidden(w, k) \/ w[k] # Backslash})

IsBlockComment(w) ==
    /\ Len(w) >= 4 /\ w[1] = "/" /\ w[2] = "*"
    /\ \A j \in 3..(Len(w) - 1) : (w[j] = "*" /\ w[j + 1] = "/") <=> j = Len(w) - 1
IsLineComment(w) == Len(w) >= 2 /\ w[1] = "/" /\ w[2] = "/" /\ \A j \in DOMAIN w : w[j] # Newline

\* The text from i up to j falls into blanks and whole comments.
IsGap(i, j) == \E cuts \in SUBSET (i..j) :
    /\ {i, j} \subseteq cuts
    /\ \A a \in cuts \ {j} :
         LET b == Min({c \in cuts : c > a})
             w == SubSeq(text, a, b - 1)
         IN  \/ b = a + 1 /\ At(a) \in Blank
             \/ IsBlockComment(w)
             \/ IsLineComment(w) /\ At(b) \in {Newline, End}

(* Between two tokens stand blanks and whole comments and nothing else: no *)
(* character is dropped, and none inside a comment is read                 *)
(* (skip_ws_comments, lexer.c:25).                                         *)
GapsAreBlank ==
    \A n \in DOMAIN tokens : IsGap(IF n = 1 THEN 1 ELSE tokens[n - 1].to, tokens[n].from)
=============================================================================
