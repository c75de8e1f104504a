------------------------------ MODULE MCParser -----------------------------
(* Parser on short programs over several vocabularies.  The long           *)
(* constructs start with their keyword, so that TLC reaches their ends.    *)
EXTENDS ParserNesting

MCLevels == (0 :> {"||"}) @@ (1 :> {"-"}) @@ (2 :> {"*"})

Over(start, kinds, max) == [start |-> start, kinds |-> kinds, max |-> max]
Grouped == {"id", "(", ")", "-", "*", ";"}
Blocks  == {"(", ")", "{", "}", "id"}
MCPrograms ==
    { \* operators of three levels, prefix operators among them
      Over(<<>>, {"id", "-", "*", "||", ";"}, 8), Over(<<"id", "-">>, Grouped, 8),
      \* operators in groups that follow one another
      Over(<<"if", "(", "id", "-", "id", ")", "{", "id", "-", "id">>,
           Grouped \cup {"if", "{", "}"}, 14),
      Over(<<"id", "[", "id", "-", "id", "]", "[", "id", "-", "id">>, {"id", "[", "]", "-", ";"}, 14),
      \* indexing, assignment, increment; calls; literals
      Over(<<>>, {"id", "[", "]", "=", "++", ";"}, 6),
      Over(<<"id", "[">>, {"id", "[", "]", "=", "++", ";"}, 8),
      Over(<<"id">>, {"id", "(", ")", ",", ";"}, 8),
      Over(<<"[">>, {"id", "string", "[", "]", "{", "}", ":", ",", ";"}, 6),
      \* statements
      Over(<<"if">>, Blocks \cup {"if", "else"}, 10),
      Over(<<"if", "(", "id", ")", "{", "}", "else", "if">>,
           Blocks \cup {"if", "else"}, 14),
      Over(<<"while", "(">>, Blocks \cup {"while", "break", ";"}, 10),
      Over(<<"for">>, Blocks \cup {"for", "continue", ";"}, 8),
      Over(<<"try", "{", "}">>, Blocks \cup {"try", "catch"}, 10),
      Over(<<"try">>, Blocks \cup {"try", "catch"}, 6),
      Over(<<"func">>, Blocks \cup {"func", "return", ",", ";"}, 10),
      Over(<<>>, {"let", "print", "id", "=", "(", ")", ";"}, 6),
      Over(<<>>, {"return", "throw", "id", "number", "{", "}", ";"}, 5) }
=============================================================================
