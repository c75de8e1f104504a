----------------------------- MODULE MCFrontend ----------------------------
(* Frontend on small disks: either up to MaxLines lines in files that      *)
(* import each other, or one file with any text of up to MaxText           *)
(* characters.  e/a and e/b are links to a and b from another directory.   *)
EXTENDS Frontend

CONSTANTS MaxLines, MaxText

MCFile == {"A", "B", "C"}
MCPath == {"a", "b", "c", "e/a", "e/b", "e/c", "e/e/b"}
MCReal == [p \in MCPath |-> CASE p \in {"a", "e/a"} -> "A"
                              [] p \in {"b", "e/b"} -> "B"
                              [] p = "c" -> "C"
                              [] OTHER -> None]
MCSpelling == {"a", "b", "c", "e/b"}
MCFull == [p \in MCPath |->
             IF p \in {"a", "b", "c"} THEN [s \in MCSpelling |-> s]
             ELSE [s \in MCSpelling |-> CASE s = "a" -> "e/a" [] s = "b" -> "e/b"
                                          [] s = "c" -> "e/c" [] OTHER -> "e/e/b"]]

TextLine(t) == [kind |-> "text", to |-> None, text |-> t]
ImportOf(s, rest) == [kind |-> "import", to |-> s, text |-> rest]

MCLines == {TextLine(t) : t \in {<<"a">>, <<"/", "*">>, <<"*", "/">>}}
           \cup {ImportOf(s, <<>>) : s \in MCSpelling}
           \* import "c"; import "b";
           \cup {ImportOf("c", <<"a", Quote, "a", Quote, ";">>)}
           \cup {[kind |-> "bad", to |-> None, text |-> <<>>]}

DiskOf(a, b, c) == [f \in MCFile |-> CASE f = "A" -> a [] f = "B" -> b [] OTHER -> c]
Sizes == {s \in (0..3) \X (0..2) \X (0..1) : s[1] + s[2] + s[3] <= MaxLines}
Alphabet == {"a", "0", ".", Quote, Backslash, "/", "*", "=", "&", " "}

ImportDisks(size) == {DiskOf(a, b, c) : a \in [1..size[1] -> MCLines],
                                        b \in [1..size[2] -> MCLines],
                                        c \in [1..size[3] -> MCLines]}
TextDisks(size) == {DiskOf(<<TextLine(t)>>, <<>>, <<>>) : t \in [1..size[1] -> Alphabet]}

MCDisks == [size \in Sizes \cup {<<n>> : n \in 0..MaxText} |->
               IF Len(size) = 3 THEN ImportDisks(size) ELSE TextDisks(size)]

MCLetter == {"a"}
MCDigit == {"0"}
MCBlank == {" ", Newline}
MCOperator == {"/", "*", "=", ";"}
MCDoubled == [c \in {"=", "&"} |-> c]
MCEscape == {Quote, Backslash, "a"}
MCLeftover == {<<>>, <<"a">>, <<"/", "*">>}
=============================================================================
