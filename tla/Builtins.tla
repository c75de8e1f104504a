------------------------------ MODULE Builtins -----------------------------
(***************************************************************************)
(* The string functions of src/src/builtins.c, with split of src/src/vm.c. *)
(* A string is a sequence of characters counted from 1, an offset into it  *)
(* an int counted from 0.  A number that is an argument is a double: one   *)
(* the cast to int makes an int of stands for all it makes that int of,    *)
(* Huge for those beyond every int and those that are not numbers.         *)
(* The loops of replace and split are run one turn *)
(* a step; their allocations are CallBuiltin and CallSplit of VmHeap.      *)
(***************************************************************************)
EXTENDS Integers, SequencesExt

CONSTANTS Char, Space,  \* characters; those that isspace accepts
          MaxLen,       \* bound: length of an argument string
          IntMax,       \* INT_MAX
          Huge,         \* a double that is no int's
          Other,        \* a value that is neither a number nor a string
          Outside       \* what stands in memory behind a string

ASSUME BuiltinsAssumption ==
    /\ Space \subseteq Char /\ Outside \notin Char
    /\ MaxLen \in Nat /\ IntMax \in Nat /\ MaxLen < IntMax

Strings == BoundedSeq(Char, MaxLen)
Ints == (-IntMax - 1)..IntMax
Numbers == Ints \cup {Huge}

\* (int)x: undefined for a double that is no int's, so any int may come out.
Casts(x) == IF x = Huge THEN Ints ELSE {x}

\* Signed addition overflows: the build may wrap, or compare as if it did not.
Sums(a, b) == {a + b, ((a + b + IntMax + 1) % (2 * IntMax + 2)) - IntMax - 1}

\* What the arguments have to be: BUILTIN_TABLE with the checks of each case.
Signature == [substr  |-> <<Strings, Numbers, Numbers>>, charAt |-> <<Strings, Numbers>>,
              indexOf |-> <<Strings, Strings>>,    trim   |-> <<Strings>>,
              replace |-> <<Strings, Strings, Strings>>, split |-> <<Strings, Strings>>]

Arguments(f) ==
    LET any(k) == Signature[f][k] \cup {Other}
    IN  CASE Len(Signature[f]) = 1 -> {<<x>> : x \in any(1)}
          [] Len(Signature[f]) = 2 -> any(1) \X any(2)
          [] Len(Signature[f]) = 3 -> any(1) \X any(2) \X any(3)

VARIABLES fn, args,
          phase,   \* "ready"; "count", "write", "split" in a loop; "done", "failed"
          at,      \* i of the loop under way
          start,   \* split: where the piece begins that is being looked for
          matches, \* replace: what the first loop has counted
          out,     \* replace: buf; split: the array
          result

vars == <<fn, args, phase, at, start, matches, out, result>>
inputs == <<fn, args>>

Init == /\ fn \in DOMAIN Signature /\ args \in Arguments(fn)
        /\ phase = "ready" /\ at = 0 /\ start = 0 /\ matches = 0
        /\ out = <<>> /\ result = Other

\* value_str_n(s + from, n)
Chars(s, from, n) == [k \in 1..n |-> IF from + k <= Len(s) THEN s[from + k] ELSE Outside]
\* memcmp(s + i, w) = 0
Matches(s, i, w) == i + Len(w) <= Len(s) /\ SubSeq(s, i + 1, i + Len(w)) = w

WrongArgument ==
    /\ phase = "ready" /\ \E k \in DOMAIN args : args[k] = Other
    /\ phase' = "failed" /\ UNCHANGED <<inputs, at, start, matches, out, result>>

Called(f) == phase = "ready" /\ fn = f /\ \A k \in DOMAIN args : args[k] # Other
Answer(r) == phase' = "done" /\ result' = r /\ UNCHANGED <<inputs, at, start, matches, out>>
Loop(next) == phase' = next /\ UNCHANGED <<inputs, at, start, matches, out, result>>
-----------------------------------------------------------------------------
(* The functions that cut a piece out of a string *)

\* Mutant of Cut: the length is cut to the string's, wherever it starts.
CutToLength(s, from, want, sum) == IF sum > Len(s) THEN Len(s) ELSE want

\* if (start + want_len > s->length) want_len = s->length - start;
Cut(s, from, want, sum) == IF sum > Len(s) THEN Len(s) - from ELSE want

Substr ==
    /\ Called("substr")
    /\ \E a \in Casts(args[2]), w \in Casts(args[3]) :
         LET s    == args[1]
             from == Min({Max({a, 0}), Len(s)})
             want == Max({w, 0})
         IN  \E sum \in Sums(from, want) : Answer(Chars(s, from, Cut(s, from, want, sum)))

CharAt == /\ Called("charAt")
          /\ \E i \in Casts(args[2]) :
               Answer(IF i \in 0..(Len(args[1]) - 1) THEN Chars(args[1], i, 1) ELSE <<>>)

IndexOf ==
    /\ Called("indexOf")
    /\ LET hits == {i \in 0..Len(args[1]) : Matches(args[1], i, args[2])}
       IN  Answer(IF hits = {} THEN -1 ELSE Min(hits))

Trim ==
    /\ Called("trim")
    /\ LET s     == args[1]
           first == Min({k \in 0..Len(s) : k = Len(s) \/ s[k + 1] \notin Space})
           end   == Max({k \in first..Len(s) : k = first \/ s[k] \notin Space})
       IN  Answer(Chars(s, first, end - first))
-----------------------------------------------------------------------------
(* replace(s, old, new): one loop counts, the next one writes *)

Replace == /\ Called("replace")
           /\ IF args[2] = <<>> THEN Answer(args[1]) ELSE Loop("count")

\* Mutant of Stride: the next match may overlap the last.
StrideOne(w) == 1

\* How far the first loop goes on after a match of w.
Stride(w) == Len(w)

Count ==
    /\ phase = "count"
    /\ IF at <= Len(args[1]) - Len(args[2])
       THEN LET hit == Matches(args[1], at, args[2]) IN
            /\ at' = at + (IF hit THEN Stride(args[2]) ELSE 1)
            /\ matches' = matches + (IF hit THEN 1 ELSE 0)
            /\ UNCHANGED phase
       ELSE phase' = "write" /\ at' = 0 /\ UNCHANGED matches
    /\ UNCHANGED <<inputs, start, out, result>>

\* What buf has room for, the NUL aside.
Room == Max({0, Len(args[1]) + matches * (Len(args[3]) - Len(args[2]))})

Write ==
    /\ phase = "write"
    /\ IF at < Len(args[1])
       THEN LET hit == Matches(args[1], at, args[2]) IN
            /\ out' = out \o (IF hit THEN args[3] ELSE Chars(args[1], at, 1))
            /\ at' = at + (IF hit THEN Len(args[2]) ELSE 1)
            /\ UNCHANGED <<phase, result>>
       ELSE phase' = "done" /\ result' = out /\ UNCHANGED <<at, out>>
    /\ UNCHANGED <<inputs, start, matches>>
-----------------------------------------------------------------------------
(* split(s, sep), OP_CALL_BUILTIN_MULTI *)

Split == /\ Called("split")
         /\ IF args[2] = <<>>
            THEN Answer([k \in DOMAIN args[1] |-> <<args[1][k]>>])
            ELSE Loop("split")

SplitNext ==
    /\ phase = "split"
    /\ IF at <= Len(args[1]) - Len(args[2])
       THEN LET hit  == Matches(args[1], at, args[2])
                next == at + (IF hit THEN Len(args[2]) ELSE 1)
            IN  /\ at' = next
                /\ out' = IF hit THEN Append(out, Chars(args[1], start, at - start)) ELSE out
                /\ start' = IF hit THEN next ELSE start
                /\ UNCHANGED <<phase, result>>
       ELSE /\ phase' = "done"
            /\ result' = Append(out, Chars(args[1], start, Len(args[1]) - start))
            /\ UNCHANGED <<at, start, out>>
    /\ UNCHANGED <<inputs, matches>>

Next == \/ WrongArgument \/ Substr \/ CharAt \/ IndexOf \/ Trim
        \/ Replace \/ Count \/ Write \/ Split \/ SplitNext

Spec == Init /\ [][Next]_vars
-----------------------------------------------------------------------------
(* What the functions promise *)

\* w stands in s at offset i and nowhere before, from `from` on.
FirstAt(s, w, from, i) ==
    /\ i >= from /\ Matches(s, i, w)
    /\ \A j \in from..(i - 1) : ~Matches(s, j, w)

\* The pieces of s from offset i on, cut at the first sep, the first after it, ...
PiecesOf(s, sep) ==
    LET from[i \in 0..Len(s)] ==
          IF \E j \in i..Len(s) : FirstAt(s, sep, i, j)
          THEN LET j == CHOOSE j \in i..Len(s) : FirstAt(s, sep, i, j)
               IN  <<SubSeq(s, i + 1, j)>> \o from[j + Len(sep)]
          ELSE <<SubSeq(s, i + 1, Len(s))>>
    IN  from[0]

Joined(pieces, glue) ==
    FlattenSeq([k \in DOMAIN pieces |-> IF k = 1 THEN pieces[k] ELSE glue \o pieces[k]])

(* split cuts at every occurrence, first ones first, so that its pieces    *)
(* joined again are the string (vm.c:589); replace is the same pieces      *)
(* joined by the new text, and its second loop writes exactly the          *)
(* characters its first loop made room for (builtins.c:233, 246).          *)
ReplaceIsSplitAndJoin ==
    LET s == args[1] sep == args[2] IN
    /\ fn = "split" /\ phase = "done" =>
          /\ Joined(result, sep) = s
          /\ IF sep = <<>> THEN \A k \in DOMAIN result : Len(result[k]) = 1
             ELSE result = PiecesOf(s, sep)
    /\ phase = "write" => Len(out) <= Room
    /\ fn = "replace" /\ phase = "done" /\ sep # <<>> =>
          result = Joined(PiecesOf(s, sep), args[3]) /\ Len(result) = Room

\* w is the stretch of s from offset i on.
IsStretch(w, s, i) == i \in 0..Len(s) /\ Matches(s, i, w)

\* r is what substr(s, a, w) has to be: the characters from a on, as many as
\* asked for or as there are.
IsSubstr(r, s, a, w) ==
    /\ \E i \in 0..Len(s) : IsStretch(r, s, i) /\ (r # <<>> => i = Max({a, 0}))
    /\ Len(r) = w \/ Max({a, 0}) + Len(r) >= Len(s) \/ (w < 0 /\ r = <<>>)
    /\ Len(r) <= Max({w, 0})

\* So is r for charAt(s, i).
IsCharAt(r, s, i) == \/ Len(r) = 1 /\ IsStretch(r, s, i)
                     \/ r = <<>> /\ i \notin 0..(Len(s) - 1)

(* substr gives the characters from start on, as many as asked for or as   *)
(* there are, whatever the casts make of a number beyond every int, unless *)
(* start + len may be no int (builtins.c:147, 152); charAt is the          *)
(* substr of one; indexOf points at the first occurrence; trim takes       *)
(* blanks off both ends, all of them and nothing else (194).               *)
CutsExact ==
    phase = "done" =>
        LET s == args[1] IN
        CASE fn = "substr" ->
                (\A a \in Casts(args[2]), w \in Casts(args[3]) : a + w <= IntMax) =>
                    \E a \in Casts(args[2]), w \in Casts(args[3]) : IsSubstr(result, s, a, w)
          [] fn = "charAt"  -> \E i \in Casts(args[2]) : IsCharAt(result, s, i)
          [] fn = "indexOf" -> \/ FirstAt(s, args[2], 0, result)
                               \/ result = -1 /\ \A i \in 0..Len(s) : ~Matches(s, i, args[2])
          [] fn = "trim"    -> \E before, after \in {w \in Strings : Range(w) \subseteq Space} :
                                 /\ s = before \o result \o after
                                 /\ result # <<>> => {result[1], Last(result)} \cap Space = {}
          [] OTHER -> TRUE
=============================================================================
