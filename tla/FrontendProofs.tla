--------------------------- MODULE FrontendProofs ---------------------------
(***************************************************************************)
(* Proofs about Imports and Frontend, for any files, spellings and links   *)
(* between them: a successful expansion has every line of every file once  *)
(* and in order, behind what its imports bring, and a failing one has a    *)
(* cause.  Frontend takes the steps of Imports as they are, so this holds  *)
(* through all stages of main; and main holds at each stage just what that *)
(* stage works on, so that nothing is left when it exits.  Of the text     *)
(* that is lexed, for any text and any alphabet: tokens, gaps and line     *)
(* numbers are what the text says they are.                                *)
(***************************************************************************)
EXTENDS Frontend, FiniteSetTheorems, WellFoundedInduction, SequenceTheorems, TLAPS

Depth == Len(calls)
Activation == [path : Path, line : Nat, pending : BOOLEAN]
Copies == [file : File, line : Nat]

\* The file an activation reads, and the line it is at.
FileAt(n) == Real[calls[n].path]
LineAt(n) == disk[FileAt(n)][calls[n].line]

Typed ==
    /\ disk \in [File -> Seq(Line)]
    /\ calls \in Seq(Activation)
    /\ \A n \in 1..Depth :
          /\ FileAt(n) \in File
          /\ calls[n].line \in 1..(Len(disk[FileAt(n)]) + 1)
          /\ calls[n].pending => calls[n].line \in DOMAIN disk[FileAt(n)] /\ LineAt(n).kind = "import"
    /\ out \in Seq(Copies)
    /\ \A a \in DOMAIN out : out[a].line \in DOMAIN disk[out[a].file]
    /\ open \cup done \subseteq File /\ open \cap done = {}
    /\ expansion \in {"todo", "ok", "cyclic", "io", "lex"}
    /\ openedAs \in [File -> Path \cup {None}]

\* While the expansion goes on, the open files are those of the activations,
\* one each.
OpenOnStack ==
    /\ expansion = "todo" => open = {FileAt(n) : n \in 1..Depth}
    /\ expansion # "todo" => Depth = 0
    /\ expansion = "ok" => open = {}
    /\ \A m, n \in 1..Depth : m # n => FileAt(m) # FileAt(n)

\* openedAs has the path a file was opened under.
Named ==
    /\ \A n \in 1..Depth : openedAs[FileAt(n)] = calls[n].path
    /\ \A f \in done : openedAs[f] \in Path /\ Real[openedAs[f]] = f

\* What is open is needed, and needed by what was opened before.
Chained ==
    /\ \A n \in 1..Depth : calls[n].path \in Needed
    /\ \A m, n \in 1..Depth : m < n => calls[n].path \in Leads(ImportsOf(calls[m].path))

\* No line stands twice in the text, and those of one file in their order.
OnceInOrder ==
    /\ \A a, b \in DOMAIN out : out[a] = out[b] => a = b
    /\ \A a, b \in DOMAIN out : out[a].file = out[b].file /\ out[a].line < out[b].line => a < b

\* The text has the lines of a finished file, and those an activation has
\* passed; no others.
Passed ==
    /\ \A a \in DOMAIN out : out[a].file \in open \cup done
    /\ \A f \in done : \A i \in DOMAIN disk[f] : \E a \in DOMAIN out : out[a] = [file |-> f, line |-> i]
    /\ \A n \in 1..Depth : \A i \in DOMAIN disk[FileAt(n)] :
          i < calls[n].line <=> \E a \in DOMAIN out : out[a] = [file |-> FileAt(n), line |-> i]

\* The file an import line l of a file read under path p means.
Meant(p, l) == Canonical(Full[p][l.to])

\* What an import names stands before the rest of the import's line: it is
\* finished when that is copied, or being read.
Brought ==
    /\ \A b \in DOMAIN out :
          LET l == disk[out[b].file][out[b].line]
              g == Meant(openedAs[out[b].file], l)
          IN  l.kind = "import" => g \in done /\ \A a \in DOMAIN out : out[a].file = g => a < b
    /\ \A n \in 1..Depth : calls[n].pending =>
          LET g == Meant(calls[n].path, LineAt(n))
          IN  g \in done \/ (n < Depth /\ g = FileAt(n + 1))

ImportsInv == /\ Typed /\ OpenOnStack /\ Named /\ Chained /\ OnceInOrder /\ Passed /\ Brought
              /\ FailsForCause
-----------------------------------------------------------------------------
(***************************************************************************)
(* Paths, lines and what imports lead to                                   *)
(***************************************************************************)
\* A path with a file has the file's name, one without keeps its own, which
\* no file has.
LEMMA CanonicalFile ==
  ASSUME NEW p \in Path
  PROVE  /\ Real[p] # None => Real[p] \in File /\ Canonical(p) = Real[p]
         /\ Real[p] = None => Canonical(p) \notin File
         /\ Canonical(p) \in File => Real[p] = Canonical(p)
BY ImportsAssumption DEF Canonical

\* An import names a path.
LEMMA ImportTyped ==
  ASSUME disk \in [File -> Seq(Line)], NEW p \in Path, Real[p] \in File,
         NEW i \in DOMAIN disk[Real[p]], disk[Real[p]][i].kind = "import"
  PROVE  Full[p][disk[Real[p]][i].to] \in ImportsOf(p) \cap Path
<1>1. disk[Real[p]] \in Seq(Line)
  OBVIOUS
<1>2. disk[Real[p]][i] \in Line
  BY <1>1
<1>3. disk[Real[p]][i].to \in Spelling
  BY <1>2 DEF Line
<1> QED BY <1>3, ImportsAssumption DEF ImportsOf, Lines

LEMMA ImportsArePaths ==
  ASSUME disk \in [File -> Seq(Line)], NEW p \in Path
  PROVE  ImportsOf(p) \subseteq Path
<1>1. CASE Real[p] = None
  BY <1>1 DEF ImportsOf
<1>2. CASE Real[p] # None
  BY <1>2, CanonicalFile, ImportTyped DEF ImportsOf, Lines
<1> QED BY <1>1, <1>2

\* What some paths lead to has them in it ...
LEMMA LeadsSelf ==
  ASSUME NEW S \in SUBSET Path
  PROVE  S \subseteq Leads(S)
BY DEF Leads

\* ... and is not left by imports.
LEMMA LeadsClosed ==
  ASSUME disk \in [File -> Seq(Line)], NEW S, NEW p \in Leads(S), NEW q \in ImportsOf(p)
  PROVE  q \in Leads(S)
<1>1. q \in Path
  BY ImportsArePaths DEF Leads
<1> QED BY <1>1 DEF Leads

\* Only the disk decides what leads where.
LEMMA DiskFixed ==
  ASSUME disk' = disk
  PROVE  /\ \A p : ImportsOf(p)' = ImportsOf(p)
         /\ \A S : Leads(S)' = Leads(S)
         /\ Needed' = Needed
BY DEF ImportsOf, Leads, Needed, Lines
-----------------------------------------------------------------------------
(***************************************************************************)
(* What the actions do to the activations                                  *)
(***************************************************************************)
\* process_file_recursive is asked for path q: for the entry, or by the import
\* on the line the innermost activation is at.
Asked(q) ==
    /\ expansion = "todo" /\ q \in Path
    /\ Depth = 0 => q = Entry /\ open = {} /\ done = {}
    /\ Depth > 0 => /\ calls[Depth].line \in DOMAIN disk[FileAt(Depth)]
                    /\ LineAt(Depth).kind = "import"
                    /\ q = Full[calls[Depth].path][LineAt(Depth).to]

\* The activations stay, and the innermost one waits with the rest of the line.
Waiting ==
    /\ calls' \in Seq(Activation) /\ UNCHANGED <<disk, done, out, expansion>>
    /\ \A n \in 1..Depth :
          /\ calls'[n].path = calls[n].path /\ calls'[n].line = calls[n].line
          /\ n < Depth => calls'[n].pending = calls[n].pending
    /\ Depth > 0 => calls'[Depth].pending

\* The file asked for is finished already.
Skipped(q) == /\ Depth > 0 /\ Waiting /\ Depth' = Depth /\ UNCHANGED <<open, openedAs>>
               /\ Canonical(q) \in done

\* The file asked for is read for the first time.
Opened(q) == /\ Waiting /\ Depth' = Depth + 1
             /\ calls'[Depth + 1] = [path |-> q, line |-> 1, pending |-> FALSE]
             /\ Real[q] \in File \ (open \cup done)
             /\ open' = open \cup {Real[q]}
             /\ openedAs' = [openedAs EXCEPT ![Real[q]] = q]

\* The innermost activation copies its line, or what follows its import.
Wrote == /\ Depth > 0 /\ UNCHANGED <<disk, open, done, expansion, openedAs>>
         /\ calls[Depth].line \in DOMAIN disk[FileAt(Depth)]
         /\ LineAt(Depth).kind = "import" => calls[Depth].pending
         /\ out' = Append(out, [file |-> FileAt(Depth), line |-> calls[Depth].line])
         /\ calls' \in Seq(Activation) /\ Depth' = Depth
         /\ \A n \in 1..(Depth - 1) : calls'[n] = calls[n]
         /\ calls'[Depth] = [path |-> calls[Depth].path, line |-> calls[Depth].line + 1, pending |-> FALSE]

\* The innermost activation has passed its last line.
Closed == /\ Depth > 0 /\ UNCHANGED <<disk, out, openedAs>>
          /\ calls[Depth].line > Len(disk[FileAt(Depth)])
          /\ open' = open \ {FileAt(Depth)} /\ done' = done \cup {FileAt(Depth)}
          /\ calls' \in Seq(Activation) /\ Depth' = Depth - 1
          /\ \A n \in 1..(Depth - 1) : calls'[n] = calls[n]
          /\ expansion' = IF Depth = 1 THEN "ok" ELSE "todo"

\* An activation replaced.
LEMMA ReplaceEffect ==
  ASSUME NEW s \in Seq(Activation), NEW d \in 1..Len(s), NEW g \in Activation
  PROVE  /\ [s EXCEPT ![d] = g] \in Seq(Activation) /\ Len([s EXCEPT ![d] = g]) = Len(s)
         /\ \A n \in 1..Len(s) : [s EXCEPT ![d] = g][n] = IF n = d THEN g ELSE s[n]
OBVIOUS

\* The innermost activation.
LEMMA CallerTyped ==
  ASSUME Typed, calls # <<>>
  PROVE  /\ Depth \in Nat /\ Depth > 0 /\ Depth \in 1..Depth /\ Caller = calls[Depth]
         /\ Caller \in Activation /\ FileAt(Depth) \in File
         /\ disk[FileAt(Depth)] = Lines(Caller.path) /\ CurLine = LineAt(Depth)
         /\ disk[FileAt(Depth)] \in Seq(Line)
         /\ calls[Depth].line \in 1..(Len(disk[FileAt(Depth)]) + 1)
<1>1. calls \in Seq(Activation) /\ Depth = Len(calls)
  BY DEF Typed, Depth
<1>2. Depth \in Nat /\ Depth > 0 /\ Depth \in 1..Depth
  BY <1>1
<1>3. Caller = calls[Depth] /\ Caller \in Activation
  BY <1>1, <1>2 DEF Caller
<1>4. /\ FileAt(Depth) \in File /\ disk \in [File -> Seq(Line)]
      /\ calls[Depth].line \in 1..(Len(disk[FileAt(Depth)]) + 1)
  BY <1>2 DEF Typed
<1>5. disk[FileAt(Depth)] = Lines(Caller.path) /\ CurLine = LineAt(Depth)
  BY <1>3 DEF Lines, CurLine, LineAt, FileAt
<1> QED BY <1>2, <1>3, <1>4, <1>5

\* process_file_recursive: an error, a file finished before, or one to read.
LEMMA ProcessFileEffect ==
  ASSUME ImportsInv, NEW q, Asked(q), NEW s \in Seq(Activation), Len(s) = Depth,
         \A n \in 1..Depth : /\ s[n].path = calls[n].path /\ s[n].line = calls[n].line
                             /\ n < Depth => s[n].pending = calls[n].pending,
         Depth > 0 => s[Depth].pending,
         ProcessFile(q, s)
  PROVE  \/ GiveUp("cyclic") /\ Canonical(q) \in open
         \/ GiveUp("io") /\ Real[q] = None
         \/ Skipped(q)
         \/ Opened(q)
<1>1. Typed /\ q \in Path /\ Depth \in Nat
  <2>1. Typed /\ q \in Path
    BY DEF ImportsInv, Asked
  <2> QED BY <2>1 DEF Typed, Depth
<1> DEFINE c == Canonical(q)
<1>2. CASE Lookup(c) = "open" /\ GiveUp("cyclic")
  BY <1>2 DEF Lookup
<1>3. CASE Lookup(c) = "new" /\ Real[q] = None /\ GiveUp("io")
  BY <1>3
<1>4. CASE /\ Lookup(c) = "done" /\ calls' = s
           /\ UNCHANGED <<disk, open, done, out, expansion, openedAs>>
  <2>1. c \in done
    BY <1>4 DEF Lookup
  <2>2. Depth > 0
    BY <1>1, <2>1 DEF Asked
  <2>3. Waiting /\ Depth' = Depth
    BY <1>4 DEF Waiting, Depth
  <2> QED BY <1>4, <2>1, <2>2, <2>3 DEF Skipped
<1>5. CASE /\ Lookup(c) = "new" /\ Real[q] # None
           /\ open' = open \cup {c}
           /\ calls' = Append(s, [path |-> q, line |-> 1, pending |-> FALSE])
           /\ openedAs' = [openedAs EXCEPT ![Real[q]] = q]
           /\ UNCHANGED <<disk, done, out, expansion>>
  <2>1. c = Real[q] /\ Real[q] \in File \ (open \cup done)
    BY <1>1, <1>5, CanonicalFile DEF Lookup
  <2> DEFINE g == [path |-> q, line |-> 1, pending |-> FALSE]
  <2>2. g \in Activation
    BY <1>1 DEF Activation
  <2>3. calls' = Append(s, g)
    BY <1>5
  <2> HIDE DEF g
  <2>4. /\ calls' \in Seq(Activation) /\ Depth' = Depth + 1 /\ calls'[Depth + 1] = g
        /\ \A n \in 1..Depth : calls'[n] = s[n]
    BY <1>1, <2>2, <2>3 DEF Depth
  <2>5. Waiting
    <3>1. Depth > 0 => Depth \in 1..Depth
      BY <1>1
    <3>2. \A n \in 1..Depth :
             /\ calls'[n].path = calls[n].path /\ calls'[n].line = calls[n].line
             /\ n < Depth => calls'[n].pending = calls[n].pending
      BY <2>4
    <3>3. Depth > 0 => calls'[Depth].pending
      BY <2>4, <3>1
    <3> QED BY <1>5, <2>4, <3>2, <3>3 DEF Waiting
  <2> QED BY <1>5, <2>1, <2>4, <2>5 DEF Opened, g
<1> QED BY <1>2, <1>3, <1>4, <1>5 DEF ProcessFile

\* The entry is opened first, and once.
LEMMA OpenEntryEffect ==
  ASSUME ImportsInv, OpenEntry
  PROVE  Asked(Entry) /\ ((GiveUp("io") /\ Real[Entry] = None) \/ Opened(Entry))
<1>1. Typed /\ OpenOnStack /\ expansion = "todo" /\ open = {} /\ done = {} /\ ProcessFile(Entry, <<>>)
  BY DEF ImportsInv, OpenEntry
<1>2. Depth \in Nat /\ calls \in Seq(Activation)
  BY <1>1 DEF Typed, Depth
<1>3. Depth = 0
  <2>1. Depth > 0 => 1 \in 1..Depth
    BY <1>2
  <2>2. Depth > 0 => FileAt(1) \in open
    BY <1>1, <2>1 DEF OpenOnStack
  <2> QED BY <1>1, <1>2, <2>2
<1>4. Asked(Entry)
  BY <1>1, <1>3, ImportsAssumption DEF Asked
<1>5. <<>> \in Seq(Activation) /\ Len(<<>>) = Depth
  BY <1>3
<1>6. (GiveUp("io") /\ Real[Entry] = None) \/ Skipped(Entry) \/ Opened(Entry)
  <2>1. PICK s \in Seq(Activation) : s = <<>> /\ Len(s) = Depth
    BY <1>5
  <2>2. ProcessFile(Entry, s)
    BY <1>1, <2>1
  <2>3. /\ \A n \in 1..Depth : /\ s[n].path = calls[n].path /\ s[n].line = calls[n].line
                               /\ n < Depth => s[n].pending = calls[n].pending
        /\ Depth > 0 => s[Depth].pending
    BY <1>3
  <2>4. \/ GiveUp("cyclic") /\ Canonical(Entry) \in open
        \/ (GiveUp("io") /\ Real[Entry] = None) \/ Skipped(Entry) \/ Opened(Entry)
    BY <1>4, <2>1, <2>2, <2>3, ProcessFileEffect
  <2> QED BY <1>1, <2>4
<1> QED BY <1>3, <1>4, <1>6 DEF Skipped

\* An import.
LEMMA ImportLineEffect ==
  ASSUME ImportsInv, ImportLine
  PROVE  \E q : /\ Asked(q) /\ Depth > 0
                /\ \/ GiveUp("cyclic") /\ Canonical(q) \in open
                   \/ GiveUp("io") /\ Real[q] = None
                   \/ Skipped(q)
                   \/ Opened(q)
<1>1. /\ Typed /\ calls # <<>> /\ Caller.line <= Len(Lines(Caller.path)) /\ CurLine.kind = "import"
      /\ ProcessFile(Full[Caller.path][CurLine.to], SetCaller([Caller EXCEPT !.pending = TRUE]))
  BY DEF ImportsInv, ImportLine, Reading
<1>2. PICK q : q = Full[Caller.path][CurLine.to]
  OBVIOUS
<1>3. /\ Depth \in Nat /\ Depth > 0 /\ Depth \in 1..Depth /\ Caller = calls[Depth]
      /\ Caller \in Activation /\ FileAt(Depth) \in File
      /\ disk[FileAt(Depth)] = Lines(Caller.path) /\ CurLine = LineAt(Depth)
      /\ calls[Depth].line \in DOMAIN disk[FileAt(Depth)] /\ calls \in Seq(Activation)
  <2>1. Typed /\ calls # <<>> /\ Caller.line <= Len(Lines(Caller.path))
    BY <1>1
  <2> QED BY ONLY <2>1, CallerTyped DEF Typed
<1>4. q \in Path
  <2>1. disk \in [File -> Seq(Line)] /\ calls[Depth].path \in Path
    BY <1>1, <1>3 DEF Typed, Activation
  <2> QED BY Zenon, <1>1, <1>2, <1>3, <2>1, ImportTyped DEF FileAt, LineAt
<1>5. expansion = "todo"
  BY <1>1, <1>3 DEF ImportsInv, OpenOnStack
<1>6. Asked(q)
  BY <1>1, <1>2, <1>3, <1>4, <1>5 DEF Asked
<1>7. PICK g : g = [Caller EXCEPT !.pending = TRUE]
  OBVIOUS
<1>8. g \in Activation /\ g.path = Caller.path /\ g.line = Caller.line /\ g.pending
  BY <1>3, <1>7 DEF Activation
<1>9. PICK s : s = [calls EXCEPT ![Depth] = g]
  OBVIOUS
<1>10. /\ s \in Seq(Activation) /\ Len(s) = Depth /\ s[Depth] = g
       /\ \A n \in 1..Depth : n < Depth => s[n] = calls[n]
  BY <1>3, <1>8, <1>9 DEF Depth
<1>11. ProcessFile(q, s)
  BY <1>1, <1>2, <1>7, <1>9 DEF SetCaller, Depth
<1>12. \A n \in 1..Depth : /\ s[n].path = calls[n].path /\ s[n].line = calls[n].line
                           /\ n < Depth => s[n].pending = calls[n].pending
  BY <1>3, <1>8, <1>10
<1>13. s[Depth].pending
  BY <1>8, <1>10
<1>14. \/ GiveUp("cyclic") /\ Canonical(q) \in open
       \/ GiveUp("io") /\ Real[q] = None
       \/ Skipped(q)
       \/ Opened(q)
  BY <1>6, <1>10, <1>11, <1>12, <1>13, ProcessFileEffect
<1> QED BY <1>3, <1>6, <1>14

\* A line of text, or the rest of an import's line.
LEMMA CopyLineEffect ==
  ASSUME ImportsInv, CopyLine
  PROVE  Wrote
<1>1. /\ Typed /\ calls # <<>> /\ Caller.line <= Len(Lines(Caller.path))
      /\ CurLine.kind = "text" \/ Caller.pending
      /\ out' = Append(out, [file |-> Real[Caller.path], line |-> Caller.line])
      /\ calls' = SetCaller([Caller EXCEPT !.line = @ + 1, !.pending = FALSE])
      /\ UNCHANGED <<disk, open, done, expansion, openedAs>>
  BY DEF ImportsInv, CopyLine, Reading
<1>2. /\ Depth \in Nat /\ Depth > 0 /\ Depth \in 1..Depth /\ Caller = calls[Depth]
      /\ Caller \in Activation /\ FileAt(Depth) \in File
      /\ disk[FileAt(Depth)] = Lines(Caller.path) /\ CurLine = LineAt(Depth)
      /\ calls[Depth].line \in DOMAIN disk[FileAt(Depth)] /\ calls \in Seq(Activation)
  BY <1>1, CallerTyped DEF Typed
<1>3. PICK g : g = [Caller EXCEPT !.line = @ + 1, !.pending = FALSE]
  OBVIOUS
<1>4. /\ g \in Activation
      /\ g = [path |-> calls[Depth].path, line |-> calls[Depth].line + 1, pending |-> FALSE]
  <2>1. /\ Caller.path \in Path /\ Caller.line \in Nat
        /\ Caller = [path |-> Caller.path, line |-> Caller.line, pending |-> Caller.pending]
    BY <1>2 DEF Activation
  <2>2. g = [path |-> Caller.path, line |-> Caller.line + 1, pending |-> FALSE]
    BY <1>3, <2>1
  <2> QED BY <1>2, <2>1, <2>2 DEF Activation
<1>5. calls' = [calls EXCEPT ![Depth] = g]
  BY <1>1, <1>3 DEF SetCaller, Depth
<1>6. /\ calls' \in Seq(Activation) /\ Depth' = Depth /\ calls'[Depth] = g
      /\ \A n \in 1..(Depth - 1) : calls'[n] = calls[n]
  <2>1. Depth = Len(calls) /\ Depth' = Len(calls')
    BY DEF Depth
  <2>2. /\ calls' \in Seq(Activation) /\ Len(calls') = Len(calls)
        /\ \A n \in 1..Len(calls) : calls'[n] = IF n = Depth THEN g ELSE calls[n]
    BY <1>2, <1>4, <1>5, <2>1, ReplaceEffect
  <2> QED BY <1>2, <2>1, <2>2
<1>7. Real[Caller.path] = FileAt(Depth) /\ Caller.line = calls[Depth].line
  BY <1>2 DEF FileAt
<1> QED BY <1>1, <1>2, <1>4, <1>6, <1>7 DEF Wrote

\* The end of a file.
LEMMA EndOfFileEffect ==
  ASSUME ImportsInv, EndOfFile
  PROVE  Closed
<1>1. /\ Typed /\ calls # <<>> /\ Caller.line > Len(Lines(Caller.path))
      /\ open' = open \ {Canonical(Caller.path)} /\ done' = done \cup {Canonical(Caller.path)}
      /\ calls' = Front(calls) /\ expansion' = IF Len(calls) = 1 THEN "ok" ELSE "todo"
      /\ UNCHANGED <<disk, out, openedAs>>
  BY DEF ImportsInv, EndOfFile, Finished
<1>2. /\ Depth \in Nat /\ Depth > 0 /\ Caller = calls[Depth]
      /\ Caller \in Activation /\ FileAt(Depth) \in File
      /\ disk[FileAt(Depth)] = Lines(Caller.path) /\ calls \in Seq(Activation)
  BY <1>1, CallerTyped DEF Typed
<1>3. Canonical(Caller.path) = FileAt(Depth)
  BY <1>2, CanonicalFile, ImportsAssumption DEF FileAt, Activation
<1>4. /\ calls' \in Seq(Activation) /\ Depth' = Depth - 1
      /\ \A n \in 1..(Depth - 1) : calls'[n] = calls[n]
  <2>1. Depth = Len(calls) /\ Depth' = Len(calls')
    BY DEF Depth
  <2> QED BY <1>1, <1>2, <2>1 DEF Front
<1> QED BY <1>1, <1>2, <1>3, <1>4 DEF Closed, Depth
-----------------------------------------------------------------------------
(***************************************************************************)
(* The invariant is kept                                                   *)
(***************************************************************************)
\* The next state is chained and brought as this one's disk says.
LEMMA ChainedNext ==
  ASSUME disk' = disk, \A n \in 1..Depth' : calls'[n].path \in Needed,
         \A m, n \in 1..Depth' : m < n => calls'[n].path \in Leads(ImportsOf(calls'[m].path))
  PROVE  Chained'
<1>1. Needed' = Needed
  BY DiskFixed
<1>2. \A m, n \in 1..Depth' : m < n => calls'[n].path \in Leads(ImportsOf(calls[m].path))'
  <2> SUFFICES ASSUME NEW m \in 1..Depth', NEW n \in 1..Depth', m < n
               PROVE  calls'[n].path \in Leads(ImportsOf(calls[m].path))'
    OBVIOUS
  <2>1. PICK p : p = calls'[m].path
    OBVIOUS
  <2>2. Leads(ImportsOf(calls[m].path))' = Leads(ImportsOf(p))
    <3>1. ImportsOf(calls[m].path)' = ImportsOf(p)
      BY <2>1, SMTT(20) DEF ImportsOf, Lines
    <3>2. \A x : ImportsOf(x)' = ImportsOf(x)
      BY DiskFixed
    <3> QED BY <3>1, <3>2 DEF Leads
  <2> QED BY <2>1, <2>2
<1> QED BY <1>1, <1>2 DEF Chained

LEMMA BroughtNext ==
  ASSUME disk' = disk,
         \A b \in DOMAIN out' : disk[out'[b].file][out'[b].line].kind = "import" =>
            \A g : g = Meant(openedAs'[out'[b].file], disk[out'[b].file][out'[b].line]) =>
                 g \in done' /\ \A a \in DOMAIN out' : out'[a].file = g => a < b,
         \A n \in 1..Depth' : calls'[n].pending =>
            \A g : g = Meant(calls'[n].path, LineAt(n)') =>
                 g \in done' \/ (n < Depth' /\ g = FileAt(n + 1)')
  PROVE  Brought'
BY Zenon DEF Brought, Meant, Canonical

\* What is asked for is needed, by all that wait for it.
LEMMA AskedNeeded ==
  ASSUME ImportsInv, NEW q, Asked(q)
  PROVE  /\ q \in Needed
         /\ \A n \in 1..Depth : q \in Leads(ImportsOf(calls[n].path))
<1>1. Typed /\ Chained /\ q \in Path /\ disk \in [File -> Seq(Line)]
  BY DEF ImportsInv, Asked, Typed
<1>2. Depth \in Nat /\ \A n \in 1..Depth : calls[n] \in Activation
  <2>1. calls \in Seq(Activation) /\ Depth = Len(calls)
    BY <1>1 DEF Typed, Depth
  <2> QED BY <2>1
<1>3. CASE Depth = 0
  <2>1. q = Entry /\ {Entry} \subseteq Path
    BY <1>1, <1>3 DEF Asked
  <2> QED BY <1>2, <1>3, <2>1, LeadsSelf DEF Needed
<1>4. CASE Depth > 0
  <2>1. Depth \in 1..Depth
    BY <1>2, <1>4
  <2>2. calls[Depth].path \in Path /\ FileAt(Depth) \in File
    BY <1>1, <1>2, <2>1 DEF Typed, Activation
  <2>3. q \in ImportsOf(calls[Depth].path)
    BY <1>1, <1>4, <2>2, ImportTyped DEF Asked, FileAt, LineAt
  <2>4. q \in Needed
    BY <1>1, <2>1, <2>3, LeadsClosed DEF Chained, Needed
  <2>5. ASSUME NEW n \in 1..Depth PROVE q \in Leads(ImportsOf(calls[n].path))
    <3>1. CASE n = Depth
      BY <1>1, <2>2, <2>3, <3>1, ImportsArePaths, LeadsSelf
    <3>2. CASE n # Depth
      <4>1. calls[Depth].path \in Leads(ImportsOf(calls[n].path))
        BY <1>1, <1>2, <2>1, <3>2 DEF Chained
      <4> QED BY <1>1, <2>3, <4>1, LeadsClosed
    <3> QED BY <3>1, <3>2
  <2> QED BY <2>4, <2>5
<1> QED BY <1>2, <1>3, <1>4

\* A file that is opened has not been read before.
LEMMA OpenedKeeps ==
  ASSUME ImportsInv, NEW q, Asked(q), Opened(q)
  PROVE  ImportsInv'
<1>0. PICK d \in Nat : d = Depth
  <2>1. calls \in Seq(Activation)
    BY DEF ImportsInv, Typed
  <2> QED BY <2>1 DEF Depth
<1>1. /\ Typed /\ d = Depth /\ Depth' = d + 1 /\ calls' \in Seq(Activation)
      /\ UNCHANGED <<disk, done, out, expansion>> /\ expansion = "todo" /\ q \in Path
      /\ calls \in Seq(Activation) /\ disk \in [File -> Seq(Line)]
  <2>1. Typed
    BY DEF ImportsInv
  <2> QED BY <1>0, <2>1 DEF Typed, Opened, Waiting, Asked
<1>2. PICK f : f = Real[q]
  OBVIOUS
<1>3. /\ f \in File /\ f \notin open /\ f \notin done /\ open' = open \cup {f}
      /\ openedAs' = [openedAs EXCEPT ![f] = q]
      /\ calls'[d + 1].path = q /\ calls'[d + 1].line = 1 /\ ~calls'[d + 1].pending
  BY <1>1, <1>2 DEF Opened
<1>4. \A n \in 1..d : /\ calls'[n].path = calls[n].path /\ calls'[n].line = calls[n].line
                      /\ n < d => calls'[n].pending = calls[n].pending
  BY <1>1 DEF Opened, Waiting
<1>5. \A n \in 1..d : FileAt(n)' = FileAt(n) /\ LineAt(n)' = LineAt(n)
  <2> SUFFICES ASSUME NEW n \in 1..d PROVE FileAt(n)' = FileAt(n) /\ LineAt(n)' = LineAt(n)
    OBVIOUS
  <2>1. calls'[n].path = calls[n].path /\ calls'[n].line = calls[n].line /\ disk' = disk
    BY <1>1, <1>4
  <2> QED BY <2>1 DEF FileAt, LineAt
<1>6. FileAt(d + 1)' = f
  BY <1>1, <1>2, <1>3 DEF FileAt
<1>7. \A n \in 1..Depth' : n \in 1..d \/ n = d + 1
  BY <1>1
<1>8. \A n \in 1..d : FileAt(n) \in open /\ FileAt(n) # f
  BY <1>1, <1>3 DEF ImportsInv, OpenOnStack
<1>9. d > 0 => /\ d \in 1..d
               /\ calls[d].line \in DOMAIN disk[FileAt(d)]
               /\ LineAt(d).kind = "import"
               /\ q = Full[calls[d].path][LineAt(d).to]
  BY <1>1 DEF Asked
<1>10. Typed'
  <2>1. ASSUME NEW n \in 1..Depth'
        PROVE  /\ FileAt(n)' \in File
               /\ calls'[n].line \in 1..(Len(disk[FileAt(n)']) + 1)
               /\ calls'[n].pending => /\ calls'[n].line \in DOMAIN disk[FileAt(n)']
                                       /\ LineAt(n)'.kind = "import"
    <3>1. CASE n \in 1..d
      <4>1. /\ FileAt(n) \in File /\ calls[n].line \in 1..(Len(disk[FileAt(n)]) + 1)
            /\ calls[n].pending => calls[n].line \in DOMAIN disk[FileAt(n)] /\ LineAt(n).kind = "import"
        BY <1>1, <3>1 DEF Typed
      <4>2. CASE n < d
        BY <1>4, <1>5, <3>1, <4>1, <4>2
      <4>3. CASE n = d
        BY <1>1, <1>4, <1>5, <1>9, <3>1, <4>1, <4>3
      <4> QED BY <1>1, <3>1, <4>2, <4>3
    <3>2. CASE n = d + 1
      <4>1. Len(disk[f]) \in Nat
        BY <1>1, <1>3
      <4> QED BY <1>3, <1>6, <3>2, <4>1
    <3> QED BY <1>7, <3>1, <3>2
  <2>2. open' \cup done' \subseteq File /\ open' \cap done' = {}
    BY <1>1, <1>3 DEF Typed
  <2>3. openedAs' \in [File -> Path \cup {None}]
    BY <1>1, <1>3 DEF Typed
  <2> QED BY <1>1, <2>1, <2>2, <2>3 DEF Typed
<1>11. OpenOnStack'
  <2>1. open = {FileAt(n) : n \in 1..d}
    BY <1>1 DEF ImportsInv, OpenOnStack
  <2>2. open' = {FileAt(n)' : n \in 1..Depth'}
    <3>1. 1..Depth' = (1..d) \cup {d + 1}
      BY <1>1
    <3>2. {FileAt(n)' : n \in 1..Depth'} = {FileAt(n) : n \in 1..d} \cup {f}
      BY <1>5, <1>6, <3>1, Zenon
    <3> QED BY <1>3, <2>1, <3>2
  <2>3. \A m, n \in 1..Depth' : m # n => FileAt(m)' # FileAt(n)'
    BY <1>1, <1>5, <1>6, <1>7, <1>8 DEF ImportsInv, OpenOnStack
  <2> QED BY <1>1, <2>2, <2>3 DEF OpenOnStack
<1>12. Named'
  <2>1. \A n \in 1..Depth' : openedAs'[FileAt(n)'] = calls'[n].path
    BY <1>1, <1>3, <1>4, <1>5, <1>6, <1>7, <1>8 DEF ImportsInv, Named, Typed
  <2>2. \A g \in done' : openedAs'[g] \in Path /\ Real[openedAs'[g]] = g
    BY <1>1, <1>3 DEF ImportsInv, Named, Typed
  <2> QED BY <2>1, <2>2 DEF Named
<1>13. Chained'
  <2>1. ASSUME NEW n \in 1..Depth' PROVE calls'[n].path \in Needed
    BY <1>1, <1>3, <1>4, <1>7, AskedNeeded DEF ImportsInv, Chained
  <2>2. ASSUME NEW m \in 1..Depth', NEW n \in 1..Depth', m < n
        PROVE  calls'[n].path \in Leads(ImportsOf(calls'[m].path))
    <3>1. m \in 1..d
      BY <1>1, <2>2
    <3>2. CASE n \in 1..d
      BY <1>1, <1>4, <2>2, <3>1, <3>2 DEF ImportsInv, Chained
    <3>3. CASE n = d + 1
      BY <1>1, <1>3, <1>4, <3>1, <3>3, AskedNeeded
    <3> QED BY <1>7, <3>2, <3>3
  <2> QED BY <1>1, <2>1, <2>2, ChainedNext
<1>14. OnceInOrder'
  BY <1>1 DEF ImportsInv, OnceInOrder
<1>15. Passed'
  <2>1. \A a \in DOMAIN out : out[a].file \in open \cup done
    BY DEF ImportsInv, Passed
  <2>2. \A n \in 1..Depth' : \A i \in DOMAIN disk[FileAt(n)'] :
          i < calls'[n].line <=> \E a \in DOMAIN out : out[a] = [file |-> FileAt(n)', line |-> i]
    <3> SUFFICES ASSUME NEW n \in 1..Depth', NEW i \in DOMAIN disk[FileAt(n)']
                 PROVE  i < calls'[n].line <=>
                           \E a \in DOMAIN out : out[a] = [file |-> FileAt(n)', line |-> i]
      OBVIOUS
    <3>1. CASE n \in 1..d
      BY <1>1, <1>4, <1>5, <3>1 DEF ImportsInv, Passed
    <3>2. CASE n = d + 1
      <4>1. i \in Nat \ {0}
        BY <1>1, <1>3, <1>6, <3>2
      <4>2. \A a \in DOMAIN out : out[a].file # f
        BY <1>3, <2>1
      <4> QED BY <1>3, <1>6, <3>2, <4>1, <4>2
    <3> QED BY <1>7, <3>1, <3>2
  <2>3. \A g \in done : \A i \in DOMAIN disk[g] : \E a \in DOMAIN out : out[a] = [file |-> g, line |-> i]
    BY DEF ImportsInv, Passed
  <2> QED BY <1>1, <1>3, <2>1, <2>2, <2>3 DEF Passed
<1>16. Brought'
  <2>1. \A b \in DOMAIN out : openedAs'[out[b].file] = openedAs[out[b].file]
    <3>1. \A b \in DOMAIN out : out[b].file \in File /\ out[b].file # f
      BY <1>1, <1>3 DEF ImportsInv, Passed, Typed
    <3> QED BY <1>1, <1>3, <3>1 DEF Typed
  <2>2. ASSUME NEW b \in DOMAIN out, disk[out[b].file][out[b].line].kind = "import",
               NEW g, g = Meant(openedAs'[out[b].file], disk[out[b].file][out[b].line])
        PROVE  g \in done /\ \A a \in DOMAIN out : out[a].file = g => a < b
    BY <2>1, <2>2 DEF ImportsInv, Brought
  <2>3. ASSUME NEW n \in 1..Depth', calls'[n].pending,
               NEW g, g = Meant(calls'[n].path, LineAt(n)')
        PROVE  g \in done \/ (n < Depth' /\ g = FileAt(n + 1)')
    <3>1. n \in 1..d
      BY <1>3, <1>7, <2>3
    <3>2. CASE n < d
      <4>1. n + 1 \in 1..d /\ FileAt(n + 1)' = FileAt(n + 1)
        BY <1>1, <1>5, <3>1, <3>2
      <4>2. calls[n].pending /\ g = Meant(calls[n].path, LineAt(n))
        BY <1>4, <1>5, <2>3, <3>1, <3>2
      <4>3. g \in done \/ g = FileAt(n + 1)
        BY <1>1, <3>1, <4>2 DEF ImportsInv, Brought
      <4> QED BY <1>1, <3>1, <3>2, <4>1, <4>3
    <3>3. CASE n = d
      <4>1. g = Canonical(q)
        <5>1. calls'[n].path = calls[d].path /\ LineAt(n)' = LineAt(d) /\ d > 0
          BY <1>1, <1>4, <1>5, <3>1, <3>3
        <5>2. q = Full[calls[d].path][LineAt(d).to]
          BY <1>9, <5>1
        <5>3. g = Canonical(Full[calls'[n].path][LineAt(n)'.to])
          BY <2>3, Zenon DEF Meant
        <5> QED BY ONLY <5>1, <5>2, <5>3
      <4>2. Canonical(q) = f
        BY <1>1, <1>2, <1>3, CanonicalFile, ImportsAssumption
      <4> QED BY <1>1, <1>6, <3>3, <4>1, <4>2
    <3> QED BY <1>0, <3>1, <3>2, <3>3
  <2> QED BY <1>1, <2>2, <2>3, BroughtNext
<1>17. FailsForCause'
  BY <1>1 DEF FailsForCause
<1> QED BY <1>10, <1>11, <1>12, <1>13, <1>14, <1>15, <1>16, <1>17 DEF ImportsInv

\* A file read before is not read again.
LEMMA SkippedKeeps ==
  ASSUME ImportsInv, NEW q, Asked(q), Skipped(q)
  PROVE  ImportsInv'
<1>0. PICK d \in Nat : d = Depth
  <2>1. calls \in Seq(Activation)
    BY DEF ImportsInv, Typed
  <2> QED BY <2>1 DEF Depth
<1>1. /\ Typed /\ d = Depth /\ Depth' = d /\ calls' \in Seq(Activation) /\ d \in 1..d
      /\ UNCHANGED <<disk, done, out, expansion, open, openedAs>> /\ expansion = "todo"
      /\ q \in Path /\ Canonical(q) \in done
  <2>1. Typed
    BY DEF ImportsInv
  <2>2. d \in 1..d
    BY <1>0 DEF Skipped
  <2> QED BY <1>0, <2>1, <2>2 DEF Skipped, Waiting, Asked
<1>2. \A n \in 1..d : /\ calls'[n].path = calls[n].path /\ calls'[n].line = calls[n].line
                      /\ n < d => calls'[n].pending = calls[n].pending
  BY <1>1 DEF Skipped, Waiting
<1>3. \A n \in 1..d : FileAt(n)' = FileAt(n) /\ LineAt(n)' = LineAt(n)
  <2> SUFFICES ASSUME NEW n \in 1..d PROVE FileAt(n)' = FileAt(n) /\ LineAt(n)' = LineAt(n)
    OBVIOUS
  <2>1. calls'[n].path = calls[n].path /\ calls'[n].line = calls[n].line /\ disk' = disk
    BY <1>1, <1>2
  <2> QED BY <2>1 DEF FileAt, LineAt
<1>4. /\ calls[d].line \in DOMAIN disk[FileAt(d)] /\ LineAt(d).kind = "import"
      /\ q = Full[calls[d].path][LineAt(d).to]
  BY <1>1 DEF Asked
<1>5. Typed'
  <2>1. ASSUME NEW n \in 1..d
        PROVE  /\ FileAt(n)' \in File
               /\ calls'[n].line \in 1..(Len(disk[FileAt(n)']) + 1)
               /\ calls'[n].pending => /\ calls'[n].line \in DOMAIN disk[FileAt(n)']
                                       /\ LineAt(n)'.kind = "import"
    <3>1. /\ FileAt(n) \in File /\ calls[n].line \in 1..(Len(disk[FileAt(n)]) + 1)
          /\ calls[n].pending => calls[n].line \in DOMAIN disk[FileAt(n)] /\ LineAt(n).kind = "import"
      BY <1>1, <2>1 DEF Typed
    <3>2. CASE n < d
      BY <1>2, <1>3, <2>1, <3>1, <3>2
    <3>3. CASE n = d
      BY <1>1, <1>2, <1>3, <1>4, <2>1, <3>1, <3>3
    <3> QED BY <1>1, <2>1, <3>2, <3>3
  <2> QED BY <1>1, <2>1 DEF Typed
<1>6. OpenOnStack' /\ Named'
  <2>1. {FileAt(n) : n \in 1..d}' = {FileAt(n) : n \in 1..d}
    BY <1>3
  <2>2. \A m, n \in 1..d : m # n => FileAt(m)' # FileAt(n)'
    BY <1>1, <1>3 DEF ImportsInv, OpenOnStack
  <2>3. \A n \in 1..d : openedAs'[FileAt(n)'] = calls'[n].path
    BY <1>1, <1>2, <1>3 DEF ImportsInv, Named
  <2>4. open = {FileAt(n) : n \in 1..d}
    BY <1>1 DEF ImportsInv, OpenOnStack
  <2> QED BY <1>1, <2>1, <2>2, <2>3, <2>4 DEF ImportsInv, OpenOnStack, Named
<1>7. Chained'
  <2>1. \A n \in 1..d : calls'[n].path \in Needed
    BY <1>1, <1>2 DEF ImportsInv, Chained
  <2>2. \A m, n \in 1..d : m < n => calls'[n].path \in Leads(ImportsOf(calls'[m].path))
    BY <1>1, <1>2 DEF ImportsInv, Chained
  <2> QED BY <1>1, <2>1, <2>2, ChainedNext
<1>8. OnceInOrder'
  BY <1>1 DEF ImportsInv, OnceInOrder
<1>9. Passed'
  <2>1. \A n \in 1..d : \A i \in DOMAIN disk[FileAt(n)'] :
          i < calls'[n].line <=> \E a \in DOMAIN out : out[a] = [file |-> FileAt(n)', line |-> i]
    BY <1>1, <1>2, <1>3 DEF ImportsInv, Passed
  <2> QED BY <1>1, <2>1 DEF ImportsInv, Passed
<1>10. Brought'
  <2>1. ASSUME NEW b \in DOMAIN out, disk[out[b].file][out[b].line].kind = "import",
               NEW g, g = Meant(openedAs[out[b].file], disk[out[b].file][out[b].line])
        PROVE  g \in done /\ \A a \in DOMAIN out : out[a].file = g => a < b
    BY <2>1 DEF ImportsInv, Brought
  <2>2. ASSUME NEW n \in 1..d, calls'[n].pending, NEW g, g = Meant(calls'[n].path, LineAt(n)')
        PROVE  g \in done \/ (n < d /\ g = FileAt(n + 1)')
    <3>1. CASE n < d
      <4>1. n + 1 \in 1..d /\ FileAt(n + 1)' = FileAt(n + 1)
        BY <1>1, <1>3, <3>1
      <4>2. calls[n].pending /\ g = Meant(calls[n].path, LineAt(n))
        BY <1>2, <1>3, <2>2, <3>1
      <4>3. g \in done \/ g = FileAt(n + 1)
        BY <1>1, <4>2 DEF ImportsInv, Brought
      <4> QED BY <3>1, <4>1, <4>3
    <3>2. CASE n = d
      BY <1>1, <1>2, <1>3, <1>4, <2>2, <3>2 DEF Meant
    <3> QED BY <1>0, <3>1, <3>2
  <2> QED BY <1>1, <2>1, <2>2, BroughtNext
<1>11. FailsForCause'
  BY <1>1 DEF FailsForCause
<1> QED BY <1>5, <1>6, <1>7, <1>8, <1>9, <1>10, <1>11 DEF ImportsInv

\* The recursion unwinds for a cause.
LEMMA GaveUpKeeps ==
  ASSUME ImportsInv, NEW why, GiveUp(why),
         \/ why = "cyclic" /\ \E q : Asked(q) /\ Canonical(q) \in open
         \/ why = "io" /\ \E q : Asked(q) /\ Real[q] = None
         \/ /\ why = "lex" /\ calls # <<>> /\ Caller.line <= Len(Lines(Caller.path))
            /\ CurLine.kind = "bad"
  PROVE  ImportsInv'
<1>1. /\ Typed /\ Depth' = 0 /\ calls' = <<>> /\ UNCHANGED <<disk, open, done, out, openedAs>>
      /\ expansion' = why /\ why \in {"cyclic", "io", "lex"}
  BY DEF ImportsInv, GiveUp, Depth
<1>2. \A n \in 1..Depth' : FALSE
  BY <1>1
<1>3. Typed'
  BY <1>1, <1>2 DEF Typed
<1>4. OpenOnStack' /\ Named' /\ OnceInOrder' /\ Passed'
  BY <1>1, <1>2 DEF ImportsInv, OpenOnStack, Named, OnceInOrder, Passed
<1>5. Chained'
  BY <1>2 DEF Chained
<1>6. Brought'
  BY <1>1, <1>2, BroughtNext DEF ImportsInv, Brought
<1>7. FailsForCause'
  <2>1. CASE why = "cyclic"
    <3>1. PICK q : Asked(q) /\ Canonical(q) \in open
      BY <2>1
    <3>2. PICK n \in 1..Depth : FileAt(n) = Canonical(q)
      BY <3>1 DEF Asked, ImportsInv, OpenOnStack
    <3>3. PICK p : p = calls[n].path
      OBVIOUS
    <3>4. p \in Needed /\ q \in Leads(ImportsOf(p))
      BY <3>1, <3>3, AskedNeeded DEF ImportsInv, Chained
    <3>5. Canonical(p) = Canonical(q)
      <4>1. FileAt(n) \in File
        BY <1>1 DEF Typed
      <4> QED BY <3>2, <3>3, <4>1, ImportsAssumption DEF Canonical, FileAt
    <3>6. q \in Leads(ImportsOf(p))' /\ Needed' = Needed
      <4>1. ImportsOf(p)' = ImportsOf(p) /\ \A x : ImportsOf(x)' = ImportsOf(x)
        BY <1>1, DiskFixed
      <4>2. Leads(ImportsOf(p))' = Leads(ImportsOf(p))
        BY <4>1 DEF Leads
      <4> QED BY <1>1, <3>4, <4>2, DiskFixed
    <3> QED BY <1>1, <2>1, <3>4, <3>5, <3>6 DEF FailsForCause, Canonical
  <2>2. CASE why = "io"
    <3>1. \E p \in Needed : Real[p] = None
      BY <2>2, AskedNeeded
    <3> QED BY <1>1, <2>2, <3>1, DiskFixed DEF FailsForCause
  <2>3. CASE why = "lex"
    <3>1. /\ calls # <<>> /\ Caller.line <= Len(Lines(Caller.path)) /\ CurLine.kind = "bad"
      BY <2>3
    <3>2. /\ Depth \in 1..Depth /\ Caller = calls[Depth] /\ Lines(Caller.path) = disk[FileAt(Depth)]
          /\ Caller.line \in DOMAIN Lines(Caller.path)
      BY <1>1, <3>1, CallerTyped
    <3>3. Caller.path \in Needed
      BY <3>2 DEF ImportsInv, Chained
    <3>4. \E p \in Needed : \E i \in DOMAIN disk[Real[p]] : disk[Real[p]][i].kind = "bad"
      BY <3>1, <3>2, <3>3 DEF CurLine, Lines
    <3> QED BY <1>1, <2>3, <3>4, DiskFixed DEF FailsForCause, Lines
  <2> QED BY <1>1, <2>1, <2>2, <2>3
<1> QED BY <1>3, <1>4, <1>5, <1>6, <1>7 DEF ImportsInv

\* A line is copied behind all the earlier ones of its file and behind what
\* its import names.
LEMMA WroteKeeps ==
  ASSUME ImportsInv, Wrote
  PROVE  ImportsInv'
<1>0. PICK d \in Nat : d = Depth
  <2>1. calls \in Seq(Activation)
    BY DEF ImportsInv, Typed
  <2> QED BY <2>1 DEF Depth
<1>1. /\ Typed /\ d = Depth /\ Depth' = d /\ calls' \in Seq(Activation) /\ d \in 1..d
      /\ UNCHANGED <<disk, done, expansion, open, openedAs>>
      /\ calls \in Seq(Activation) /\ disk \in [File -> Seq(Line)] /\ out \in Seq(Copies)
  <2>1. Typed
    BY DEF ImportsInv
  <2>2. d \in 1..d
    BY <1>0 DEF Wrote
  <2> QED BY <1>0, <2>1, <2>2 DEF Wrote, Typed
<1>2. PICK f, l, e, N : f = FileAt(d) /\ l = calls[d].line /\ e = [file |-> f, line |-> l] /\ N = Len(out)
  OBVIOUS
<1>3. /\ f \in File /\ l \in DOMAIN disk[f] /\ l \in Nat
      /\ LineAt(d) = disk[f][l] /\ (LineAt(d).kind = "import" => calls[d].pending)
      /\ calls'[d].path = calls[d].path /\ calls'[d].line = l + 1 /\ ~calls'[d].pending
      /\ \A n \in 1..d : n < d => calls'[n] = calls[n]
  <2>1. f \in File /\ disk[f] \in Seq(Line) /\ LineAt(d) = disk[f][l]
    BY <1>1, <1>2 DEF Typed, LineAt
  <2>2. l \in DOMAIN disk[f]
    BY <1>1, <1>2 DEF Wrote
  <2>3. l \in Nat
    BY <2>1, <2>2
  <2>4. \A n \in 1..d : n < d => n \in 1..(d - 1)
    BY <1>0
  <2> QED BY <1>1, <1>2, <2>1, <2>2, <2>3, <2>4 DEF Wrote
<1>4. /\ out' \in Seq(Copies) /\ Len(out') = N + 1 /\ N \in Nat /\ out'[N + 1] = e
      /\ \A a \in 1..N : out'[a] = out[a]
      /\ DOMAIN out = 1..N /\ DOMAIN out' = 1..(N + 1)
  <2>1. e \in Copies /\ out' = Append(out, e)
    BY <1>1, <1>2, <1>3 DEF Copies, Wrote
  <2> QED BY <1>1, <1>2, <2>1
<1>5. \A a \in 1..(N + 1) : a \in 1..N \/ a = N + 1
  BY <1>4
<1>6. \A n \in 1..d : FileAt(n)' = FileAt(n) /\ (n < d => LineAt(n)' = LineAt(n))
  <2> SUFFICES ASSUME NEW n \in 1..d PROVE FileAt(n)' = FileAt(n) /\ (n < d => LineAt(n)' = LineAt(n))
    OBVIOUS
  <2>1. /\ calls'[n].path = calls[n].path /\ disk' = disk
        /\ n < d => calls'[n].line = calls[n].line
    BY <1>0, <1>1, <1>3
  <2> QED BY <2>1 DEF FileAt, LineAt
<1>7. f \in open /\ f \notin done /\ \A n \in 1..d : n < d => FileAt(n) # f
  <2>1. expansion = "todo" /\ f \in {FileAt(n) : n \in 1..d}
    BY <1>0, <1>1, <1>2 DEF ImportsInv, OpenOnStack
  <2> QED BY <1>1, <1>2, <2>1 DEF ImportsInv, OpenOnStack, Typed
<1>8. \A a \in 1..N : out[a].file = f => out[a].line \in Nat /\ out[a].line < l
  <2> SUFFICES ASSUME NEW a \in 1..N, out[a].file = f
               PROVE  out[a].line \in Nat /\ out[a].line < l
    OBVIOUS
  <2>1. out[a] \in Copies
    BY <1>1, <1>4
  <2>2. out[a] = [file |-> f, line |-> out[a].line] /\ out[a].line \in Nat
    BY <2>1 DEF Copies
  <2>3. out[a].line \in DOMAIN disk[f]
    BY <1>1, <1>4 DEF Typed
  <2> QED BY <1>1, <1>2, <1>4, <2>2, <2>3 DEF ImportsInv, Passed
<1>9. Typed'
  <2>1. ASSUME NEW n \in 1..d
        PROVE  /\ FileAt(n)' \in File
               /\ calls'[n].line \in 1..(Len(disk[FileAt(n)']) + 1)
               /\ calls'[n].pending => /\ calls'[n].line \in DOMAIN disk[FileAt(n)']
                                       /\ LineAt(n)'.kind = "import"
    <3>1. CASE n < d
      BY <1>1, <1>3, <1>6, <2>1, <3>1 DEF Typed
    <3>2. CASE n = d
      <4>1. disk[f] \in Seq(Line)
        BY <1>1, <1>3
      <4> QED BY <1>1, <1>2, <1>3, <1>6, <3>2, <4>1
    <3> QED BY <1>0, <3>1, <3>2
  <2>2. \A a \in DOMAIN out' : out'[a].line \in DOMAIN disk[out'[a].file]
    <3>1. \A a \in 1..N : out[a].line \in DOMAIN disk[out[a].file]
      BY <1>1, <1>4 DEF Typed
    <3>2. e.line = l /\ e.file = f
      BY <1>2
    <3> QED BY <1>3, <1>4, <1>5, <3>1, <3>2
  <2> QED BY <1>1, <1>4, <2>1, <2>2 DEF Typed
<1>10. OpenOnStack' /\ Named'
  <2>1. {FileAt(n) : n \in 1..d}' = {FileAt(n) : n \in 1..d}
    BY <1>6
  <2>2. \A m, n \in 1..d : m # n => FileAt(m)' # FileAt(n)'
    BY <1>1, <1>6 DEF ImportsInv, OpenOnStack
  <2>3. \A n \in 1..d : calls'[n].path = calls[n].path
    BY <1>0, <1>3
  <2>4. \A n \in 1..d : openedAs'[FileAt(n)'] = calls'[n].path
    BY <1>1, <1>6, <2>3 DEF ImportsInv, Named
  <2>5. expansion = "todo" /\ open = {FileAt(n) : n \in 1..d}
    BY <1>1 DEF ImportsInv, OpenOnStack
  <2> QED BY <1>1, <2>1, <2>2, <2>4, <2>5 DEF ImportsInv, OpenOnStack, Named
<1>11. Chained'
  <2>1. \A n \in 1..d : calls'[n].path = calls[n].path
    BY <1>0, <1>3
  <2>2. \A n \in 1..d : calls'[n].path \in Needed
    BY <1>1, <2>1 DEF ImportsInv, Chained
  <2>3. \A m, n \in 1..d : m < n => calls'[n].path \in Leads(ImportsOf(calls'[m].path))
    BY <1>1, <2>1 DEF ImportsInv, Chained
  <2> QED BY <1>1, <2>2, <2>3, ChainedNext
<1>12. OnceInOrder'
  <2> SUFFICES ASSUME NEW a \in 1..(N + 1), NEW b \in 1..(N + 1)
               PROVE  /\ out'[a] = out'[b] => a = b
                      /\ out'[a].file = out'[b].file /\ out'[a].line < out'[b].line => a < b
    BY <1>4 DEF OnceInOrder
  <2>1. CASE a \in 1..N /\ b \in 1..N
    BY <1>4, <2>1 DEF ImportsInv, OnceInOrder
  <2>2. CASE a \in 1..N /\ b = N + 1
    BY <1>2, <1>3, <1>4, <1>8, <2>2
  <2>3. CASE a = N + 1 /\ b \in 1..N
    BY <1>2, <1>3, <1>4, <1>8, <2>3
  <2>4. CASE a = N + 1 /\ b = N + 1
    BY <1>2, <1>3, <1>4, <2>4
  <2> QED BY <1>5, <2>1, <2>2, <2>3, <2>4
<1>13. Passed'
  <2>1. \A a \in DOMAIN out' : out'[a].file \in open \cup done
    BY <1>2, <1>4, <1>5, <1>7 DEF ImportsInv, Passed
  <2>2. \A g \in done : \A i \in DOMAIN disk[g] : \E a \in DOMAIN out' : out'[a] = [file |-> g, line |-> i]
    <3> SUFFICES ASSUME NEW g \in done, NEW i \in DOMAIN disk[g]
                 PROVE  \E a \in DOMAIN out' : out'[a] = [file |-> g, line |-> i]
      OBVIOUS
    <3>1. PICK a \in DOMAIN out : out[a] = [file |-> g, line |-> i]
      BY DEF ImportsInv, Passed
    <3> QED BY <1>4, <3>1
  <2>3. ASSUME NEW n \in 1..d, NEW i \in DOMAIN disk[FileAt(n)]
        PROVE  i < calls'[n].line <=> \E a \in DOMAIN out' : out'[a] = [file |-> FileAt(n), line |-> i]
    <3>1. i < calls[n].line <=> \E a \in 1..N : out'[a] = [file |-> FileAt(n), line |-> i]
      <4>1. i < calls[n].line <=> \E a \in 1..N : out[a] = [file |-> FileAt(n), line |-> i]
        <5>1. i < calls[n].line <=> \E a \in DOMAIN out : out[a] = [file |-> FileAt(n), line |-> i]
          BY <1>1, <2>3 DEF ImportsInv, Passed
        <5> QED BY <1>4, <5>1
      <4> QED BY <1>4, <4>1
    <3>2. CASE n < d
      <4>1. e # [file |-> FileAt(n), line |-> i]
        BY <1>2, <1>7, <3>2
      <4> QED BY <1>3, <1>4, <1>5, <3>1, <3>2, <4>1
    <3>3. CASE n = d
      <4>1. i \in Nat /\ (i < l + 1 <=> i < l \/ i = l)
        <5>1. disk[f] \in Seq(Line) /\ i \in DOMAIN disk[f]
          BY <1>1, <1>2, <1>3, <2>3, <3>3
        <5> QED BY <1>3, <5>1
      <4>2. e = [file |-> FileAt(n), line |-> i] <=> i = l
        BY <1>2, <3>3
      <4>3. (\E a \in DOMAIN out' : out'[a] = [file |-> FileAt(n), line |-> i])
              <=> i < l \/ i = l
        <5>1. /\ \A a \in DOMAIN out' : a \in 1..N \/ a = N + 1
              /\ 1..N \subseteq DOMAIN out' /\ N + 1 \in DOMAIN out' /\ out'[N + 1] = e
          BY <1>4, <1>5
        <5>2. i < l <=> \E a \in 1..N : out'[a] = [file |-> FileAt(n), line |-> i]
          BY <1>2, <3>1, <3>3
        <5> QED BY ONLY <4>2, <5>1, <5>2
      <4> QED BY <1>3, <3>3, <4>1, <4>3
    <3> QED BY <1>0, <3>2, <3>3
  <2>4. \A n \in 1..d : \A i \in DOMAIN disk[FileAt(n)'] :
          i < calls'[n].line <=> \E a \in DOMAIN out' : out'[a] = [file |-> FileAt(n)', line |-> i]
    BY <1>6, <2>3
  <2> QED BY <1>1, <2>1, <2>2, <2>4 DEF Passed
<1>14. Brought'
  <2>1. ASSUME NEW b \in DOMAIN out', disk[out'[b].file][out'[b].line].kind = "import",
               NEW g, g = Meant(openedAs[out'[b].file], disk[out'[b].file][out'[b].line])
        PROVE  g \in done /\ \A a \in DOMAIN out' : out'[a].file = g => a < b
    <3>1. CASE b \in 1..N
      <4>1. g \in done /\ \A a \in 1..N : out'[a].file = g => a < b
        BY <1>4, <2>1, <3>1 DEF ImportsInv, Brought
      <4> QED BY <1>2, <1>4, <1>5, <1>7, <4>1
    <3>2. CASE b = N + 1
      <4>1. calls[d].pending /\ openedAs[f] = calls[d].path
        BY <1>1, <1>2, <1>3, <1>4, <2>1, <3>2 DEF ImportsInv, Named
      <4>2. g = Meant(calls[d].path, LineAt(d))
        BY <1>2, <1>3, <1>4, <2>1, <3>2, <4>1
      <4>3. g \in done
        BY <1>1, <4>1, <4>2 DEF ImportsInv, Brought
      <4> QED BY <1>2, <1>4, <1>5, <1>7, <3>2, <4>3
    <3> QED BY <1>4, <1>5, <3>1, <3>2
  <2>2. ASSUME NEW n \in 1..d, calls'[n].pending, NEW g, g = Meant(calls'[n].path, LineAt(n)')
        PROVE  g \in done \/ (n < d /\ g = FileAt(n + 1)')
    <3>1. n < d
      BY <1>0, <1>3, <2>2
    <3>2. n + 1 \in 1..d /\ FileAt(n + 1)' = FileAt(n + 1)
      BY <1>1, <1>6, <3>1
    <3>3. calls[n].pending /\ g = Meant(calls[n].path, LineAt(n))
      BY <1>3, <1>6, <2>2, <3>1
    <3>4. g \in done \/ g = FileAt(n + 1)
      BY <1>1, <3>3 DEF ImportsInv, Brought
    <3> QED BY <3>1, <3>2, <3>4
  <2> QED BY <1>1, <2>1, <2>2, BroughtNext
<1>15. FailsForCause'
  <2>1. expansion' = "todo"
    BY <1>0, <1>1 DEF ImportsInv, OpenOnStack
  <2> QED BY <2>1 DEF FailsForCause
<1> QED BY <1>9, <1>10, <1>11, <1>12, <1>13, <1>14, <1>15 DEF ImportsInv

\* A file is finished when all its lines are copied.
LEMMA ClosedKeeps ==
  ASSUME ImportsInv, Closed
  PROVE  ImportsInv'
<1>0. PICK d \in Nat : d = Depth
  <2>1. calls \in Seq(Activation)
    BY DEF ImportsInv, Typed
  <2> QED BY <2>1 DEF Depth
<1>1. /\ Typed /\ d = Depth /\ Depth' = d - 1 /\ calls' \in Seq(Activation) /\ d \in 1..d
      /\ UNCHANGED <<disk, out, openedAs>> /\ expansion' = IF d = 1 THEN "ok" ELSE "todo"
      /\ calls \in Seq(Activation) /\ disk \in [File -> Seq(Line)] /\ expansion = "todo"
  <2>1. Typed /\ OpenOnStack
    BY DEF ImportsInv
  <2>2. d \in 1..d
    BY <1>0 DEF Closed
  <2>3. expansion = "todo"
    BY <1>0, <2>1, <2>2 DEF OpenOnStack
  <2> QED BY <1>0, <2>1, <2>2, <2>3 DEF Closed, Typed
<1>2. PICK f : f = FileAt(d)
  OBVIOUS
<1>3. /\ f \in File /\ calls[d].line > Len(disk[f]) /\ open' = open \ {f} /\ done' = done \cup {f}
      /\ calls[d] \in Activation
  <2>1. FileAt(d) \in File /\ calls[d] \in Activation
    <3>1. calls[d] \in Activation
      BY <1>0, <1>1 DEF Depth
    <3>2. FileAt(d) \in File
      BY <1>1 DEF Typed
    <3> QED BY <3>1, <3>2
  <2>2. /\ calls[d].line > Len(disk[FileAt(d)]) /\ open' = open \ {FileAt(d)}
        /\ done' = done \cup {FileAt(d)}
    BY <1>1 DEF Closed
  <2> QED BY <1>2, <2>1, <2>2
<1>4. \A n \in 1..(d - 1) : n \in 1..d /\ n < d /\ calls'[n] = calls[n] /\ FileAt(n) # f
  <2>1. \A n \in 1..(d - 1) : n \in 1..d /\ n < d
    BY <1>0
  <2>2. \A n \in 1..(d - 1) : calls'[n] = calls[n]
    BY <1>1 DEF Closed
  <2> QED BY <1>1, <1>2, <2>1, <2>2 DEF ImportsInv, OpenOnStack
<1>5. \A n \in 1..(d - 1) : FileAt(n)' = FileAt(n) /\ LineAt(n)' = LineAt(n)
  BY <1>1, <1>4 DEF FileAt, LineAt
<1>6. Typed'
  <2>1. open' \cup done' \subseteq File /\ open' \cap done' = {}
    BY <1>1, <1>3 DEF Typed
  <2>2. \A n \in 1..(d - 1) :
          /\ FileAt(n)' \in File
          /\ calls'[n].line \in 1..(Len(disk[FileAt(n)']) + 1)
          /\ calls'[n].pending => /\ calls'[n].line \in DOMAIN disk[FileAt(n)']
                                  /\ LineAt(n)'.kind = "import"
    <3>1. \A n \in 1..d :
            /\ FileAt(n) \in File
            /\ calls[n].line \in 1..(Len(disk[FileAt(n)]) + 1)
            /\ calls[n].pending => /\ calls[n].line \in DOMAIN disk[FileAt(n)]
                                   /\ LineAt(n).kind = "import"
      BY <1>1 DEF Typed
    <3> QED BY ONLY <1>4, <1>5, <3>1
  <2> QED BY <1>1, <2>1, <2>2 DEF Typed
<1>7. OpenOnStack'
  <2>1. open = {FileAt(n) : n \in 1..d}
    BY <1>1 DEF ImportsInv, OpenOnStack
  <2>2. open' = {FileAt(n) : n \in 1..(d - 1)}
    <3>1. 1..d = (1..(d - 1)) \cup {d}
      BY <1>1
    <3>2. open = {FileAt(n) : n \in 1..(d - 1)} \cup {f}
      BY <1>2, <2>1, <3>1
    <3> QED BY <1>3, <1>4, <3>2
  <2>3. {FileAt(n) : n \in 1..(d - 1)}' = {FileAt(n) : n \in 1..(d - 1)}
    BY <1>5
  <2>4. \A m, n \in 1..(d - 1) : m # n => FileAt(m)' # FileAt(n)'
    BY <1>1, <1>4, <1>5 DEF ImportsInv, OpenOnStack
  <2>5. d = 1 => open' = {}
    BY <2>2
  <2>6. (d = 1 => Depth' = 0) /\ (expansion' = "ok" <=> d = 1) /\ (expansion' = "todo" <=> d # 1)
    BY <1>1
  <2> QED BY <1>1, <2>2, <2>3, <2>4, <2>5, <2>6 DEF OpenOnStack
<1>8. Named'
  <2>1. openedAs[f] = calls[d].path /\ calls[d].path \in Path /\ Real[calls[d].path] = f
    BY <1>1, <1>2, <1>3 DEF ImportsInv, Named, Activation, FileAt
  <2>2. \A n \in 1..(d - 1) : openedAs[FileAt(n)'] = calls'[n].path
    BY <1>1, <1>4, <1>5 DEF ImportsInv, Named
  <2>3. \A g \in done' : openedAs[g] \in Path /\ Real[openedAs[g]] = g
    BY <1>3, <2>1 DEF ImportsInv, Named
  <2> QED BY <1>1, <2>2, <2>3 DEF Named
<1>9. Chained'
  <2>1. \A n \in 1..(d - 1) : calls'[n].path \in Needed
    BY <1>1, <1>4 DEF ImportsInv, Chained
  <2>2. \A m, n \in 1..(d - 1) : m < n => calls'[n].path \in Leads(ImportsOf(calls'[m].path))
    BY <1>1, <1>4 DEF ImportsInv, Chained
  <2> QED BY <1>1, <2>1, <2>2, ChainedNext
<1>10. OnceInOrder'
  BY <1>1 DEF ImportsInv, OnceInOrder
<1>11. Passed'
  <2>1. \A a \in DOMAIN out : out[a].file \in open' \cup done'
    BY <1>3 DEF ImportsInv, Passed
  <2>2. \A i \in DOMAIN disk[f] : \E a \in DOMAIN out : out[a] = [file |-> f, line |-> i]
    <3>1. \A i \in DOMAIN disk[f] : i < calls[d].line
      <4>1. disk[f] \in Seq(Line) /\ calls[d].line \in Nat
        BY <1>1, <1>3 DEF Activation
      <4> QED BY <1>3, <4>1
    <3> QED BY <1>1, <1>2, <3>1 DEF ImportsInv, Passed
  <2>3. \A g \in done' : \A i \in DOMAIN disk[g] : \E a \in DOMAIN out : out[a] = [file |-> g, line |-> i]
    BY <1>3, <2>2 DEF ImportsInv, Passed
  <2>4. \A n \in 1..(d - 1) : \A i \in DOMAIN disk[FileAt(n)'] :
          i < calls'[n].line <=> \E a \in DOMAIN out : out[a] = [file |-> FileAt(n)', line |-> i]
    BY <1>1, <1>4, <1>5 DEF ImportsInv, Passed
  <2> QED BY <1>1, <2>1, <2>3, <2>4 DEF Passed
<1>12. Brought'
  <2>1. ASSUME NEW b \in DOMAIN out, disk[out[b].file][out[b].line].kind = "import",
               NEW g, g = Meant(openedAs[out[b].file], disk[out[b].file][out[b].line])
        PROVE  g \in done' /\ \A a \in DOMAIN out : out[a].file = g => a < b
    BY <1>3, <2>1 DEF ImportsInv, Brought
  <2>2. ASSUME NEW n \in 1..(d - 1), calls'[n].pending, NEW g, g = Meant(calls'[n].path, LineAt(n)')
        PROVE  g \in done' \/ (n < d - 1 /\ g = FileAt(n + 1)')
    <3>1. g \in done \/ g = FileAt(n + 1)
      BY <1>1, <1>4, <1>5, <2>2 DEF ImportsInv, Brought
    <3>2. CASE n + 1 = d
      BY <1>2, <1>3, <3>1, <3>2
    <3>3. CASE n + 1 # d
      <4>1. n + 1 \in 1..(d - 1) /\ n < d - 1
        BY <1>0, <3>3
      <4> QED BY <1>3, <1>5, <3>1, <4>1
    <3> QED BY <3>2, <3>3
  <2> QED BY <1>1, <2>1, <2>2, BroughtNext
<1>13. FailsForCause'
  BY <1>1 DEF FailsForCause
<1> QED BY <1>6, <1>7, <1>8, <1>9, <1>10, <1>11, <1>12, <1>13 DEF ImportsInv
-----------------------------------------------------------------------------
(***************************************************************************)
(* The steps of the expansion                                              *)
(***************************************************************************)
\* Nothing is open or copied before the entry is asked for.
LEMMA ImportsStart ==
  ASSUME ImportsInit
  PROVE  ImportsInv
<1>1. /\ disk \in [File -> Seq(Line)] /\ open = {} /\ done = {} /\ calls = <<>> /\ out = <<>>
      /\ expansion = "todo" /\ openedAs = [f \in File |-> None]
  <2>1. PICK k \in DOMAIN Disks : disk \in Disks[k]
    BY DEF ImportsInit
  <2> QED BY <2>1, ImportsAssumption DEF ImportsInit
<1>2. Depth = 0 /\ calls \in Seq(Activation) /\ out \in Seq(Copies) /\ DOMAIN out = {}
  BY <1>1 DEF Depth
<1>3. \A n \in 1..Depth : FALSE
  BY <1>2
<1>4. Typed
  BY <1>1, <1>2, <1>3 DEF Typed
<1>5. OpenOnStack /\ Named /\ Chained /\ OnceInOrder /\ Passed /\ Brought /\ FailsForCause
  BY <1>1, <1>2, <1>3
     DEF OpenOnStack, Named, Chained, OnceInOrder, Passed, Brought, FailsForCause
<1> QED BY <1>4, <1>5 DEF ImportsInv

\* Every step of the expansion keeps the invariant.
LEMMA ExpandKeeps ==
  ASSUME ImportsInv, Expand
  PROVE  ImportsInv'
<1>1. CASE OpenEntry
  <2>1. Asked(Entry) /\ ((GiveUp("io") /\ Real[Entry] = None) \/ Opened(Entry))
    BY <1>1, OpenEntryEffect
  <2> QED BY <2>1, GaveUpKeeps, OpenedKeeps
<1>2. CASE CopyLine
  BY <1>2, CopyLineEffect, WroteKeeps
<1>3. CASE ImportLine
  <2>1. PICK q : /\ Asked(q) /\ Depth > 0
                 /\ \/ GiveUp("cyclic") /\ Canonical(q) \in open
                    \/ GiveUp("io") /\ Real[q] = None
                    \/ Skipped(q)
                    \/ Opened(q)
    BY <1>3, ImportLineEffect
  <2> QED BY <2>1, GaveUpKeeps, SkippedKeeps, OpenedKeeps
<1>4. CASE BadDirective
  <2>1. /\ calls # <<>> /\ Caller.line <= Len(Lines(Caller.path)) /\ CurLine.kind = "bad"
        /\ GiveUp("lex")
    BY <1>4 DEF BadDirective, Reading
  <2> QED BY <2>1, GaveUpKeeps
<1>5. CASE EndOfFile
  BY <1>5, EndOfFileEffect, ClosedKeeps
<1> QED BY <1>1, <1>2, <1>3, <1>4, <1>5 DEF Expand

\* So does every step that leaves the preprocessor alone.
LEMMA IdleKeeps ==
  ASSUME ImportsInv, UNCHANGED importVars
  PROVE  ImportsInv'
<1>1. UNCHANGED <<disk, open, done, calls, out, expansion, openedAs>>
  BY DEF importVars
<1>2. Typed' /\ OpenOnStack' /\ Named' /\ Chained' /\ OnceInOrder' /\ Passed'
  <2>1. Depth' = Depth /\ \A n : FileAt(n)' = FileAt(n) /\ LineAt(n)' = LineAt(n)
    BY <1>1 DEF Depth, FileAt, LineAt
  <2>2. Typed'
    BY <1>1, <2>1 DEF ImportsInv, Typed
  <2>3. OpenOnStack' /\ Named' /\ OnceInOrder'
    BY <1>1, <2>1 DEF ImportsInv, OpenOnStack, Named, OnceInOrder
  <2>4. Passed'
    BY <1>1, <2>1 DEF ImportsInv, Passed
  <2>5. Chained'
    BY ZenonT(30), <1>1, <2>1, ChainedNext DEF ImportsInv, Chained
  <2> QED BY <2>2, <2>3, <2>4, <2>5
<1>3. Brought'
  BY ZenonT(30), <1>1 DEF ImportsInv, Brought, Meant, Canonical, Depth, FileAt, LineAt
<1>4. FailsForCause'
  <2>1. Needed' = Needed /\ \A p : Leads(ImportsOf(p))' = Leads(ImportsOf(p))
    BY <1>1 DEF Needed, Leads, ImportsOf, Lines
  <2>2. \A p : Lines(p)' = Lines(p) /\ Canonical(p)' = Canonical(p)
    BY <1>1 DEF Lines, Canonical
  <2>3. FailsForCause
    BY DEF ImportsInv
  <2> QED BY <1>1, <2>1, <2>2, <2>3 DEF FailsForCause
<1> QED BY <1>2, <1>3, <1>4 DEF ImportsInv
-----------------------------------------------------------------------------
(***************************************************************************)
(* What the invariant says of the finished text                            *)
(***************************************************************************)
\* The variables have their types, as the runs check them.
LEMMA ImportsTyped ==
  ASSUME ImportsInv
  PROVE  ImportsTypeOK
<1>1. /\ Typed /\ calls \in Seq(Activation) /\ out \in Seq(Copies) /\ Depth = Len(calls)
  BY DEF ImportsInv, Typed, Depth
<1>2. ASSUME NEW n \in DOMAIN calls
      PROVE  /\ calls[n].path \in Path /\ calls[n].pending \in BOOLEAN
             /\ calls[n].line \in 1..(Len(Lines(calls[n].path)) + 1)
  <2>1. calls[n] \in Activation /\ n \in 1..Depth
    BY <1>1, <1>2
  <2>2. calls[n].line \in 1..(Len(disk[FileAt(n)]) + 1)
    BY <1>1, <2>1 DEF Typed
  <2> QED BY <2>1, <2>2 DEF Activation, Lines, FileAt
<1>3. ASSUME NEW a \in DOMAIN out
      PROVE  out[a].file \in File /\ out[a].line \in DOMAIN disk[out[a].file]
  <2>1. out[a] \in Copies
    BY <1>1, <1>3
  <2> QED BY <1>1, <1>3, <2>1 DEF Typed, Copies
<1> QED BY <1>1, <1>2, <1>3 DEF ImportsTypeOK, Typed

\* A copied line has one place.
LEMMA PositionUnique ==
  ASSUME OnceInOrder, NEW f, NEW i, NEW a \in DOMAIN out, out[a] = [file |-> f, line |-> i]
  PROVE  Position(f, i) = a
BY DEF Position, OnceInOrder

\* The text that is handed on has every line of every file that was opened
\* once, in order, and behind what its imports bring.
LEMMA ExpandedInOrder ==
  ASSUME ImportsInv
  PROVE  ExpandedOnceInOrder
<1> SUFFICES ASSUME expansion = "ok"
             PROVE  /\ IsInjective(out)
                    /\ \A f \in done : \A i \in DOMAIN disk[f] :
                         /\ \E n \in DOMAIN out : out[n] = [file |-> f, line |-> i]
                         /\ \A j \in 1..(i - 1) : Position(f, j) < Position(f, i)
                         /\ disk[f][i].kind = "import" =>
                               LET g == Canonical(Full[openedAs[f]][disk[f][i].to])
                               IN  /\ g \in done
                                   /\ \A j \in DOMAIN disk[g] : Position(g, j) < Position(f, i)
  BY DEF ExpandedOnceInOrder
<1>1. Typed /\ Named /\ OnceInOrder /\ Passed /\ Brought
  BY DEF ImportsInv
<1>2. IsInjective(out)
  BY <1>1 DEF OnceInOrder, IsInjective
<1>3. ASSUME NEW f \in done, NEW i \in DOMAIN disk[f]
      PROVE  /\ \E n \in DOMAIN out : out[n] = [file |-> f, line |-> i]
             /\ \A j \in 1..(i - 1) : Position(f, j) < Position(f, i)
             /\ disk[f][i].kind = "import" =>
                   \A g : g = Canonical(Full[openedAs[f]][disk[f][i].to]) =>
                     /\ g \in done
                     /\ \A j \in DOMAIN disk[g] : Position(g, j) < Position(f, i)
  <2>1. f \in File /\ disk[f] \in Seq(Line)
    BY <1>1 DEF Typed
  <2>2. PICK b \in DOMAIN out : out[b] = [file |-> f, line |-> i]
    BY <1>1 DEF Passed
  <2>3. Position(f, i) = b
    BY <1>1, <2>2, PositionUnique
  <2>4. ASSUME NEW j \in 1..(i - 1)
        PROVE  Position(f, j) < Position(f, i)
    <3>1. j \in DOMAIN disk[f] /\ j < i
      BY <2>1
    <3>2. PICK a \in DOMAIN out : out[a] = [file |-> f, line |-> j]
      BY <1>1, <3>1 DEF Passed
    <3>3. a < b
      BY <1>1, <2>2, <3>1, <3>2 DEF OnceInOrder
    <3> QED BY <1>1, <2>3, <3>2, <3>3, PositionUnique
  <2>5. ASSUME disk[f][i].kind = "import",
               NEW g, g = Canonical(Full[openedAs[f]][disk[f][i].to])
        PROVE  g \in done /\ \A j \in DOMAIN disk[g] : Position(g, j) < Position(f, i)
    <3>1. g \in done /\ \A a \in DOMAIN out : out[a].file = g => a < b
      <4>1. /\ out[b].file = f /\ disk[out[b].file][out[b].line] = disk[f][i]
            /\ g = Meant(openedAs[out[b].file], disk[out[b].file][out[b].line])
        BY <2>2, <2>5 DEF Meant
      <4> QED BY <1>1, <2>5, <4>1 DEF Brought
    <3>2. ASSUME NEW j \in DOMAIN disk[g]
          PROVE  Position(g, j) < Position(f, i)
      <4>1. PICK a \in DOMAIN out : out[a] = [file |-> g, line |-> j]
        BY <1>1, <3>1 DEF Passed
      <4>2. a < b
        BY <3>1, <4>1
      <4> QED BY <1>1, <2>3, <4>1, <4>2, PositionUnique
    <3> QED BY <3>1, <3>2
  <2> QED BY <2>2, <2>4, <2>5
<1> QED BY <1>2, <1>3
-----------------------------------------------------------------------------
(***************************************************************************)
(* Numbers: induction, as a fact about sets, and least and greatest        *)
(***************************************************************************)
LEMMA Induction ==
  ASSUME NEW M, 0 \in M, \A n \in Nat : n \in M => n + 1 \in M
  PROVE  Nat \subseteq M
<1> SUFFICES ASSUME NEW m \in Nat, m \notin M
             PROVE  FALSE
  OBVIOUS
<1> DEFINE T == {0..k : k \in Nat \ M}
<1>1. T \subseteq FiniteSubsetsOf(Nat) /\ T # {}
  <2>1. \A k \in Nat : IsFiniteSet(0..k) /\ 0..k \subseteq Nat
    BY FS_Interval
  <2> QED BY <2>1 DEF FiniteSubsetsOf
<1>2. PICK x \in T : \A y \in T : <<y, x>> \notin StrictSubsetOrdering(Nat)
  <2> HIDE DEF T
  <2> QED BY <1>1, FS_StrictSubsetOrderingWellFounded, WFMin
<1>3. PICK k \in Nat \ M : x = 0..k
  BY <1>2
<1>4. k # 0 /\ k - 1 \in Nat \ M
  BY <1>3
<1>5. 0..(k - 1) \in T /\ 0..(k - 1) \subseteq 0..k /\ 0..(k - 1) # 0..k
  <2>1. k \in 0..k /\ k \notin 0..(k - 1)
    BY <1>3
  <2> QED BY <1>3, <1>4, <2>1
<1>6. <<0..(k - 1), x>> \in StrictSubsetOrdering(Nat)
  BY <1>3, <1>4, <1>5 DEF StrictSubsetOrdering
<1> QED BY <1>2, <1>5, <1>6

\* A set of numbers has a least member, and Min is it.
LEMMA Least ==
  ASSUME NEW S \in SUBSET Nat, S # {}
  PROVE  Min(S) \in S /\ \A y \in S : Min(S) <= y
<1> DEFINE M == {n \in Nat : (\E x \in S : x <= n) => \E x \in S : \A y \in S : x <= y}
<1>1. 0 \in M
  OBVIOUS
<1>2. ASSUME NEW n \in Nat, n \in M
      PROVE  n + 1 \in M
  <2>1. CASE \E x \in S : x <= n
    BY <1>2, <2>1
  <2>2. CASE \A x \in S : ~(x <= n)
    <3> SUFFICES ASSUME NEW x \in S, x <= n + 1
                 PROVE  \E z \in S : \A y \in S : z <= y
      OBVIOUS
    <3>1. \A y \in S : y \in Nat /\ x \in Nat /\ ~(y <= n)
      BY <2>2
    <3>2. \A y \in S : x <= y
      BY <3>1
    <3> QED BY <3>2
  <2> QED BY <2>1, <2>2
<1>3. Nat \subseteq M
  <2> HIDE DEF M
  <2> QED BY <1>1, <1>2, Induction
<1>4. PICK x \in S : \A y \in S : x <= y
  <2>1. PICK x \in S : TRUE
    OBVIOUS
  <2>2. x \in M /\ x <= x
    BY <1>3
  <2> QED BY <2>1, <2>2
<1> QED BY <1>4 DEF Min

\* A bounded set of numbers has a greatest member, and Max is it.
LEMMA Greatest ==
  ASSUME NEW S \in SUBSET Nat, S # {}, NEW b \in Nat, \A x \in S : x <= b
  PROVE  Max(S) \in S /\ \A y \in S : y <= Max(S)
<1> DEFINE T == {n \in Nat : \A x \in S : x <= n}
           m == Min(T)
<1>1. m \in T /\ \A n \in T : m <= n
  <2>1. b \in T /\ T \in SUBSET Nat
    OBVIOUS
  <2> HIDE DEF T
  <2> QED BY <2>1, Least
<1>2. m \in Nat /\ \A x \in S : x <= m
  BY <1>1
<1>3. m \in S
  <2> SUFFICES ASSUME m \notin S
               PROVE  FALSE
    OBVIOUS
  <2>1. PICK x \in S : TRUE
    OBVIOUS
  <2>2. \A y \in S : y \in Nat /\ y <= m /\ y # m
    BY <1>2
  <2> HIDE DEF m
  <2>3. m - 1 \in Nat /\ \A y \in S : y <= m - 1
    BY <1>2, <2>1, <2>2
  <2>4. m - 1 \in T
    BY <2>3
  <2> QED BY <1>1, <1>2, <2>4
<1> HIDE DEF m
<1>4. \A y \in S : m >= y
  BY <1>2
<1>5. PICK x \in S : \A y \in S : x >= y
  BY <1>3, <1>4
<1>6. Max(S) \in S /\ \A y \in S : Max(S) >= y
  BY <1>5 DEF Max
<1> QED BY <1>6
-----------------------------------------------------------------------------
\* The prover does not know that a newline is a string.
Chars == (STRING \cup {Newline}) \ {End}

\* What stands behind the text is its end, so a character that is not the end
\* has a place in it.
LEMMA AtInside ==
  ASSUME text \in Seq(Chars), NEW i, At(i) # End
  PROVE  i \in 1..Len(text) /\ At(i) = text[i]
BY DEF At

LEMMA AtEnd ==
  ASSUME text \in Seq(Chars), NEW i \in 1..Len(text)
  PROVE  At(i) # End /\ At(i) = text[i]
<1>1. text[i] \in Chars
  OBVIOUS
<1> QED BY <1>1 DEF At, Chars

LEMMA AtBehind ==
  ASSUME text \in Seq(Chars), NEW i \in Nat, i > Len(text)
  PROVE  At(i) = End
BY DEF At

\* EndOf stops at the first character that is not of S.
LEMMA EndOfStops ==
  ASSUME text \in Seq(Chars), NEW S, End \notin S, NEW i \in 1..(Len(text) + 1)
  PROVE  /\ EndOf(S, i) \in i..(Len(text) + 1)
         /\ At(EndOf(S, i)) \notin S
         /\ \A j \in i..(EndOf(S, i) - 1) : At(j) \in S
         /\ At(i) \in S => EndOf(S, i) > i
<1> DEFINE T == {j \in i..(Len(text) + 1) : At(j) \notin S}
           m == Min(T)
<1>1. Len(text) + 1 \in T /\ T \in SUBSET Nat
  BY AtBehind
<1>2. m \in T /\ \A j \in T : m <= j
  <2> HIDE DEF T
  <2> QED BY <1>1, Least
<1>3. EndOf(S, i) = m
  BY DEF EndOf
<1> HIDE DEF m
<1> QED BY <1>2, <1>3
-----------------------------------------------------------------------------
\* Closing exists: its recursion looks ahead, and stops behind the text.
IsClosing(f, S) ==
    f = [i \in S |-> IF At(i) \in {Quote, End} THEN i
                     ELSE IF At(i) = Backslash /\ At(i + 1) # End THEN f[i + 2]
                     ELSE f[i + 1]]

LEMMA ClosingExists ==
  ASSUME text \in Seq(Chars)
  PROVE  \E f : IsClosing(f, Nat)
<1> DEFINE N == Len(text)
           From(k) == {i \in Nat : i + k > N}
           M == {k \in Nat : \E f : IsClosing(f, From(k))}
<1>0. N \in Nat
  OBVIOUS
<1>1. 0 \in M
  <2> DEFINE f == [i \in From(0) |-> i]
  <2>1. \A i \in From(0) : At(i) = End
    BY AtBehind
  <2>2. IsClosing(f, From(0))
    BY <2>1, Zenon DEF IsClosing
  <2> QED BY <2>2
<1>2. ASSUME NEW k \in Nat, k \in M
      PROVE  k + 1 \in M
  <2>1. PICK f : IsClosing(f, From(k))
    BY <1>2
  <2> DEFINE g == [i \in From(k + 1) |->
                     IF i \in From(k) THEN f[i]
                     ELSE IF At(i) \in {Quote, End} THEN i
                     ELSE IF At(i) = Backslash /\ At(i + 1) # End THEN f[i + 2]
                     ELSE f[i + 1]]
  <2>2. \A i \in From(k + 1) : i + 1 \in From(k) /\ i + 2 \in From(k)
    BY <1>0
  <2>3. From(k) \subseteq From(k + 1)
    BY <1>0
  <2> HIDE DEF From
  <2>4. \A i \in From(k) : f[i] = IF At(i) \in {Quote, End} THEN i
                                  ELSE IF At(i) = Backslash /\ At(i + 1) # End THEN f[i + 2]
                                  ELSE f[i + 1]
    BY <2>1, Zenon DEF IsClosing
  <2>5. \A i \in From(k + 1) : g[i + 1] = f[i + 1] /\ g[i + 2] = f[i + 2]
    BY <2>2, <2>3, Zenon
  <2>6. \A i \in From(k + 1) :
          g[i] = IF At(i) \in {Quote, End} THEN i
                 ELSE IF At(i) = Backslash /\ At(i + 1) # End THEN g[i + 2]
                 ELSE g[i + 1]
    <3> SUFFICES ASSUME NEW i \in From(k + 1)
                 PROVE  g[i] = IF At(i) \in {Quote, End} THEN i
                               ELSE IF At(i) = Backslash /\ At(i + 1) # End THEN g[i + 2]
                               ELSE g[i + 1]
      OBVIOUS
    <3>1. g[i + 1] = f[i + 1] /\ g[i + 2] = f[i + 2]
      BY <2>5
    <3>2. CASE i \in From(k)
      <4>1. g[i] = f[i]
        BY <3>2
      <4> QED BY <2>4, <3>1, <3>2, <4>1, Zenon
    <3>3. CASE i \notin From(k)
      <4>1. g[i] = IF At(i) \in {Quote, End} THEN i
                   ELSE IF At(i) = Backslash /\ At(i + 1) # End THEN f[i + 2]
                   ELSE f[i + 1]
        BY <3>3
      <4> QED BY <3>1, <4>1, Zenon
    <3> QED BY <3>2, <3>3
  <2>7. g = [i \in From(k + 1) |-> g[i]]
    OBVIOUS
  <2> HIDE DEF g
  <2>8. g = [i \in From(k + 1) |-> IF At(i) \in {Quote, End} THEN i
                     ELSE IF At(i) = Backslash /\ At(i + 1) # End THEN g[i + 2]
                     ELSE g[i + 1]]
    BY <2>6, <2>7, Zenon
  <2>9. IsClosing(g, From(k + 1))
    BY <2>8 DEF IsClosing
  <2> QED BY <2>9
<1>3. N + 1 \in M
  <2> HIDE DEF M
  <2>1. Nat \subseteq M
    BY <1>1, <1>2, Induction
  <2> QED BY <1>0, <2>1
<1>4. PICK f : IsClosing(f, From(N + 1))
  BY <1>3
<1>5. From(N + 1) = Nat
  BY <1>0
<1> QED BY <1>4, <1>5

LEMMA ClosingStep ==
  ASSUME text \in Seq(Chars), NEW i \in Nat
  PROVE  Closing[i] = IF At(i) \in {Quote, End} THEN i
                      ELSE IF At(i) = Backslash /\ At(i + 1) # End THEN Closing[i + 2]
                      ELSE Closing[i + 1]
<1>1. PICK f : IsClosing(f, Nat)
  BY ClosingExists
<1>2. IsClosing(Closing, Nat)
  BY <1>1, Zenon DEF Closing, IsClosing
<1> QED BY <1>2, Zenon DEF IsClosing

\* The scan of a string goes forward, and stops at a quote or at the end.
LEMMA ClosingStops ==
  ASSUME text \in Seq(Chars), NEW i \in Nat
  PROVE  Closing[i] \in Nat /\ Closing[i] >= i /\ At(Closing[i]) \in {Quote, End}
<1> DEFINE N == Len(text)
           Good(j) == Closing[j] \in Nat /\ Closing[j] >= j /\ At(Closing[j]) \in {Quote, End}
           M == {k \in Nat : \A j \in Nat : j + k > N => Good(j)}
<1>0. N \in Nat
  OBVIOUS
<1>1. 0 \in M
  <2> SUFFICES ASSUME NEW j \in Nat, j > N
               PROVE  Good(j)
    BY <1>0
  <2>1. At(j) = End
    BY AtBehind
  <2>2. Closing[j] = j
    BY <2>1, ClosingStep, Zenon
  <2> QED BY <2>1, <2>2
<1>2. ASSUME NEW k \in Nat, k \in M
      PROVE  k + 1 \in M
  <2> SUFFICES ASSUME NEW j \in Nat, j + (k + 1) > N
               PROVE  Good(j)
    OBVIOUS
  <2>1. Good(j + 1) /\ Good(j + 2)
    <3>1. (j + 1) + k > N /\ (j + 2) + k > N
      BY <1>0
    <3> HIDE DEF Good
    <3> QED BY <1>2, <3>1
  <2>2. CASE At(j) \in {Quote, End}
    BY <2>2, ClosingStep
  <2>3. CASE At(j) \notin {Quote, End} /\ At(j) = Backslash /\ At(j + 1) # End
    <3>1. Closing[j] = Closing[j + 2]
      BY <2>3, ClosingStep, Zenon
    <3> QED BY <2>1, <3>1
  <2>4. CASE At(j) \notin {Quote, End} /\ ~(At(j) = Backslash /\ At(j + 1) # End)
    <3>1. Closing[j] = Closing[j + 1]
      BY <2>4, ClosingStep, Zenon
    <3> QED BY <2>1, <3>1
  <2> QED BY <2>2, <2>3, <2>4
<1>3. N + 1 \in M
  <2> HIDE DEF M
  <2>1. Nat \subseteq M
    BY <1>1, <1>2, Induction
  <2> QED BY <1>0, <2>1
<1> QED BY <1>0, <1>3
-----------------------------------------------------------------------------
\* FlattenSeq: its recursion has a solution, which chains the sequences.
IsFlat(f, ss, n) == f = [i \in 1..n |-> IF i = 1 THEN ss[i] ELSE f[i - 1] \o ss[i]]

LEMMA FlatExists ==
  ASSUME NEW ss, NEW n \in Nat
  PROVE  \E f : IsFlat(f, ss, n)
<1> DEFINE M == {k \in Nat : \E f : IsFlat(f, ss, k)}
<1>1. 0 \in M
  <2> DEFINE f == [i \in 1..0 |-> ss[i]]
  <2>0. 1..0 = {}
    OBVIOUS
  <2>1. IsFlat(f, ss, 0)
    BY <2>0, Zenon DEF IsFlat
  <2> QED BY <2>1
<1>2. ASSUME NEW k \in Nat, k \in M
      PROVE  k + 1 \in M
  <2>1. PICK f : IsFlat(f, ss, k)
    BY <1>2
  <2> DEFINE Def(h, i) == IF i = 1 THEN ss[i] ELSE h[i - 1] \o ss[i]
             g == [i \in 1..(k + 1) |-> IF i \in 1..k THEN f[i] ELSE Def(f, i)]
  <2>2. \A i \in 1..k : f[i] = Def(f, i)
    BY <2>1, Zenon DEF IsFlat
  <2>3. \A i \in 1..(k + 1) : g[i] = Def(f, i)
    BY <2>2, Zenon
  <2>4. \A i \in 1..k : i \in 1..(k + 1) /\ g[i] = f[i]
    OBVIOUS
  <2>5. \A i \in 1..(k + 1) : i # 1 => i - 1 \in 1..k
    OBVIOUS
  <2>6. g = [i \in 1..(k + 1) |-> g[i]]
    OBVIOUS
  <2> HIDE DEF g
  <2>7. \A i \in 1..(k + 1) : g[i] = Def(g, i)
    BY <2>3, <2>4, <2>5, Zenon
  <2>8. g = [i \in 1..(k + 1) |-> Def(g, i)]
    BY <2>6, <2>7, Zenon
  <2>9. IsFlat(g, ss, k + 1)
    BY <2>8 DEF IsFlat
  <2> QED BY <2>9
<1>3. Nat \subseteq M
  <2> HIDE DEF M
  <2> QED BY <1>1, <1>2, Induction
<1> QED BY <1>3

LEMMA FlatTyped ==
  ASSUME NEW S, NEW ss \in Seq(Seq(S)), NEW f, IsFlat(f, ss, Len(ss))
  PROVE  /\ \A i \in 1..Len(ss) : f[i] \in Seq(S)
         /\ \A i \in 1..Len(ss) : f[i] = IF i = 1 THEN ss[i] ELSE f[i - 1] \o ss[i]
<1>1. \A i \in 1..Len(ss) : f[i] = IF i = 1 THEN ss[i] ELSE f[i - 1] \o ss[i]
  BY Zenon DEF IsFlat
<1> DEFINE M == {k \in Nat : k \in 1..Len(ss) => f[k] \in Seq(S)}
<1>2. 0 \in M
  OBVIOUS
<1>3. ASSUME NEW k \in Nat, k \in M
      PROVE  k + 1 \in M
  <2> SUFFICES ASSUME k + 1 \in 1..Len(ss)
               PROVE  f[k + 1] \in Seq(S)
    OBVIOUS
  <2>1. ss[k + 1] \in Seq(S)
    OBVIOUS
  <2>2. CASE k = 0
    BY <1>1, <2>1, <2>2
  <2>3. CASE k # 0
    <3>1. f[k] \in Seq(S) /\ (k + 1) - 1 = k /\ k + 1 # 1
      BY <1>3, <2>3
    <3>2. f[k + 1] = f[k] \o ss[k + 1]
      BY <1>1, <3>1
    <3> QED BY <2>1, <3>1, <3>2
  <2> QED BY <2>2, <2>3
<1>4. Nat \subseteq M
  <2> HIDE DEF M
  <2> QED BY <1>2, <1>3, Induction
<1> QED BY <1>1, <1>4

LEMMA FlattenIsFlat ==
  ASSUME NEW S, NEW ss \in Seq(Seq(S)), ss # <<>>
  PROVE  \E f : IsFlat(f, ss, Len(ss)) /\ FlattenSeq(ss) = f[Len(ss)]
<1> DEFINE f[i \in 1..Len(ss)] == IF i = 1 THEN ss[i] ELSE f[i - 1] \o ss[i]
<1>0. Len(ss) \in Nat /\ Len(ss) # 0
  OBVIOUS
<1>1. FlattenSeq(ss) = f[Len(ss)]
  BY <1>0, Zenon DEF FlattenSeq
<1>2. \E h : IsFlat(h, ss, Len(ss))
  BY <1>0, FlatExists
<1>3. IsFlat(f, ss, Len(ss))
  BY <1>2, Zenon DEF IsFlat
<1> HIDE DEF f
<1> QED BY <1>1, <1>3
-----------------------------------------------------------------------------
\* A blank or a whole comment, from a up to b.
Piece(a, b) == \/ b = a + 1 /\ At(a) \in Blank
               \/ IsBlockComment(SubSeq(text, a, b - 1))
               \/ IsLineComment(SubSeq(text, a, b - 1)) /\ At(b) \in {Newline, End}

\* The cut behind a.
After(cuts, a) == Min({c \in cuts : c > a})

LEMMA GapByPieces ==
  ASSUME NEW i, NEW j
  PROVE  IsGap(i, j) <=> \E cuts \in SUBSET (i..j) :
            {i, j} \subseteq cuts /\ \A a \in cuts \ {j} : Piece(a, After(cuts, a))
BY Zenon DEF IsGap, Piece, After

LEMMA EmptyGap ==
  ASSUME NEW i \in Nat
  PROVE  IsGap(i, i)
<1>1. {i} \in SUBSET (i..i) /\ {i, i} \subseteq {i} /\ {i} \ {i} = {}
  OBVIOUS
<1> QED BY <1>1, GapByPieces

LEMMA GapsJoin ==
  ASSUME NEW i \in Nat, NEW p \in Nat, NEW j \in Nat, i <= p, p <= j, IsGap(i, p), IsGap(p, j)
  PROVE  IsGap(i, j)
<1>1. PICK C \in SUBSET (i..p) : {i, p} \subseteq C /\ \A a \in C \ {p} : Piece(a, After(C, a))
  BY GapByPieces
<1>2. PICK D \in SUBSET (p..j) : {p, j} \subseteq D /\ \A a \in D \ {j} : Piece(a, After(D, a))
  BY GapByPieces
<1>3. C \cup D \in SUBSET (i..j) /\ {i, j} \subseteq C \cup D
  BY <1>1, <1>2
<1>4. ASSUME NEW a \in (C \cup D) \ {j}
      PROVE  Piece(a, After(C \cup D, a))
  <2>1. CASE a \in D
    <3>1. {c \in C \cup D : c > a} = {c \in D : c > a}
      <4>1. a >= p /\ a \in Nat /\ \A c \in C : c <= p /\ c \in Nat
        BY <2>1
      <4>2. \A c \in C : ~(c > a)
        BY <4>1
      <4> QED BY <4>2
    <3> QED BY <1>2, <1>4, <2>1, <3>1 DEF After
  <2>2. CASE a \notin D
    <3>1. a \in C \ {p} /\ a \in Nat /\ a < p
      BY <1>1, <1>2, <1>4, <2>2
    <3> DEFINE S == {c \in C : c > a}
               T == {c \in C \cup D : c > a}
    <3>0. C \subseteq Nat /\ D \subseteq Nat /\ p \in C /\ p > a
      BY <1>1, <3>1
    <3>2. S \in SUBSET Nat /\ p \in S /\ T \in SUBSET Nat /\ S \subseteq T
      BY <3>0
    <3>3. \A c \in T : c \in S \/ c >= p
      OBVIOUS
    <3>4. Min(S) \in S /\ \A c \in S : Min(S) <= c
      <4> HIDE DEF S
      <4> QED BY <3>2, Least
    <3>5. Min(T) \in T /\ \A c \in T : Min(T) <= c
      <4> HIDE DEF T
      <4>1. T # {}
        BY <3>2
      <4> QED BY <3>2, <4>1, Least
    <3> HIDE DEF S, T
    <3>6. Min(S) <= p /\ Min(S) \in Nat /\ Min(T) \in Nat /\ Min(T) <= Min(S)
      BY <3>2, <3>4, <3>5
    <3>7. Min(S) <= Min(T)
      BY <3>3, <3>4, <3>5, <3>6
    <3>8. After(C \cup D, a) = After(C, a)
      BY <3>6, <3>7 DEF After, S, T
    <3> QED BY <1>1, <3>1, <3>8
  <2> QED BY <2>1, <2>2
<1> QED BY <1>3, <1>4, GapByPieces

\* One piece is a gap, and so is a row of blanks.
LEMMA PieceIsGap ==
  ASSUME NEW i \in Nat, NEW j \in Nat, i < j, Piece(i, j)
  PROVE  IsGap(i, j)
<1>1. {i, j} \in SUBSET (i..j)
  OBVIOUS
<1>2. {c \in {i, j} : c > i} = {j}
  OBVIOUS
<1>3. Min({j}) = j
  BY Least
<1>4. \A a \in {i, j} \ {j} : Piece(a, After({i, j}, a))
  BY <1>2, <1>3 DEF After
<1> QED BY <1>1, <1>4, GapByPieces

LEMMA BlanksAreGap ==
  ASSUME NEW i \in Nat, NEW j \in Nat, i <= j, \A k \in i..(j - 1) : At(k) \in Blank
  PROVE  IsGap(i, j)
<1>1. i..j \in SUBSET (i..j) /\ {i, j} \subseteq i..j
  OBVIOUS
<1>2. ASSUME NEW a \in (i..j) \ {j}
      PROVE  Piece(a, After(i..j, a))
  <2> DEFINE S == {c \in i..j : c > a}
  <2>1. S \in SUBSET Nat /\ a + 1 \in S /\ \A c \in S : c >= a + 1
    BY <1>2
  <2>2. Min(S) \in S /\ \A c \in S : Min(S) <= c
    <3> HIDE DEF S
    <3> QED BY <2>1, Least
  <2> HIDE DEF S
  <2>3. Min(S) = a + 1
    <3>1. Min(S) \in Nat /\ a + 1 \in Nat
      BY <2>1, <2>2
    <3>2. Min(S) <= a + 1 /\ Min(S) >= a + 1
      BY <2>1, <2>2
    <3> QED BY <3>1, <3>2
  <2> QED BY <1>2, <2>3 DEF Piece, After, S
<1> QED BY <1>1, <1>2, GapByPieces
-----------------------------------------------------------------------------
(* The lexer *)

\* The line and the column of a place, counted in the text.
LineOf(i) == 1 + Cardinality(Newlines(1, i))
StartOf(i) == Max({0} \cup Newlines(1, i))

LEMMA NewlinesFinite ==
  ASSUME NEW i \in Nat, NEW j \in Nat
  PROVE  /\ IsFiniteSet(Newlines(i, j)) /\ Cardinality(Newlines(i, j)) \in Nat
         /\ Newlines(i, j) \in SUBSET (i..(j - 1)) /\ Newlines(i, j) \in SUBSET Nat
<1>1. Newlines(i, j) \in SUBSET (i..(j - 1)) /\ Newlines(i, j) \in SUBSET Nat
  BY DEF Newlines
<1>2. IsFiniteSet(i..(j - 1))
  BY FS_Interval
<1>3. IsFiniteSet(Newlines(i, j))
  BY <1>1, <1>2, FS_Subset
<1> QED BY <1>1, <1>3, FS_CardinalityType

LEMMA LineTyped ==
  ASSUME NEW i \in Nat
  PROVE  LineOf(i) \in Nat \ {0}
<1>1. Cardinality(Newlines(1, i)) \in Nat
  BY NewlinesFinite
<1> QED BY <1>1 DEF LineOf

LEMMA StartBefore ==
  ASSUME NEW i \in Nat \ {0}
  PROVE  /\ StartOf(i) \in {0} \cup Newlines(1, i)
         /\ \A k \in {0} \cup Newlines(1, i) : k <= StartOf(i)
         /\ StartOf(i) \in 0..(i - 1)
<1> DEFINE S == {0} \cup Newlines(1, i)
<1>0. Newlines(1, i) \in SUBSET (1..(i - 1)) /\ Newlines(1, i) \in SUBSET Nat
  BY NewlinesFinite
<1>1. S \in SUBSET Nat /\ S # {} /\ \A k \in S : k <= i - 1 /\ i - 1 \in Nat
  BY <1>0
<1>2. Max(S) \in S /\ \A k \in S : k <= Max(S)
  <2> HIDE DEF S
  <2> QED BY <1>1, Greatest
<1> QED BY <1>1, <1>2 DEF StartOf

\* Counting on from one place to a later one.
LEMMA Counted ==
  ASSUME NEW i \in Nat \ {0}, NEW j \in Nat, i <= j
  PROVE  /\ LineOf(j) = LineOf(i) + Cardinality(Newlines(i, j))
         /\ StartOf(j) = IF Newlines(i, j) = {} THEN StartOf(i) ELSE Max(Newlines(i, j))
<1>1. Newlines(1, j) = Newlines(1, i) \cup Newlines(i, j) /\ Newlines(1, i) \cap Newlines(i, j) = {}
  BY DEF Newlines
<1>2. Cardinality(Newlines(1, j)) = Cardinality(Newlines(1, i)) + Cardinality(Newlines(i, j))
  <2> DEFINE A == Newlines(1, i)
             B == Newlines(i, j)
  <2>1. IsFiniteSet(A) /\ Cardinality(A) \in Nat /\ IsFiniteSet(B) /\ Cardinality(B) \in Nat
    BY NewlinesFinite
  <2>2. Newlines(1, j) = A \cup B /\ A \cap B = {}
    BY <1>1
  <2> HIDE DEF A, B
  <2>3. Cardinality(A \cup B) = Cardinality(A) + Cardinality(B) - Cardinality(A \cap B)
    BY <2>1, FS_Union
  <2>4. Cardinality(A \cap B) = 0
    BY <2>2, FS_EmptySet
  <2>5. Cardinality(A \cup B) = Cardinality(A) + Cardinality(B)
    BY <2>1, <2>3, <2>4
  <2> QED BY <2>2, <2>5 DEF A, B
<1>3. LineOf(j) = LineOf(i) + Cardinality(Newlines(i, j))
  BY <1>2, NewlinesFinite DEF LineOf
<1>4. CASE Newlines(i, j) = {}
  BY <1>1, <1>3, <1>4 DEF StartOf
<1>5. CASE Newlines(i, j) # {}
  <2> DEFINE m == Max(Newlines(i, j))
  <2>1. m \in Newlines(i, j) /\ \A k \in Newlines(i, j) : k <= m
    <3>0. Newlines(i, j) \in SUBSET (i..(j - 1)) /\ Newlines(i, j) \in SUBSET Nat
      BY NewlinesFinite
    <3>1. Newlines(i, j) \in SUBSET Nat /\ \A k \in Newlines(i, j) : k <= j
      BY <3>0
    <3> QED BY <1>5, <3>1, Greatest
  <2>2. m \in {0} \cup Newlines(1, j) /\ m \in Nat /\ m >= i
    BY <1>1, <2>1, NewlinesFinite
  <2>3. \A k \in {0} \cup Newlines(1, j) : k <= m
    <3> HIDE DEF m
    <3>1. \A k \in Newlines(1, i) : k <= i - 1 /\ k \in Nat
      BY NewlinesFinite
    <3> QED BY <1>1, <2>1, <2>2, <3>1
  <2>4. StartOf(j) = m
    <3>1. StartOf(j) \in Nat /\ StartOf(j) \in {0} \cup Newlines(1, j) /\ m <= StartOf(j)
      BY <2>2, StartBefore
    <3>2. StartOf(j) <= m
      BY <2>3, <3>1
    <3> HIDE DEF m
    <3> QED BY <2>2, <3>1, <3>2
  <2> QED BY <1>3, <1>5, <2>4
<1> QED BY <1>4, <1>5

\* What advc does to line and column is what stands in the text.
LEMMA AdvanceCounts ==
  ASSUME pos \in Nat \ {0}, line = LineOf(pos), col = pos - StartOf(pos),
         NEW to \in Nat, pos <= to, Advance(to)
  PROVE  pos' = to /\ line' = LineOf(to) /\ col' = to - StartOf(to)
<1>1. pos' = to /\ line' = line + Cardinality(Newlines(pos, to))
  BY DEF Advance
<1>2. line' = LineOf(to)
  BY <1>1, Counted
<1>3. CASE Newlines(pos, to) = {}
  <2>1. col' = col + (to - pos)
    BY <1>3 DEF Advance
  <2>2. StartOf(to) = StartOf(pos) /\ StartOf(pos) \in Nat
    BY <1>3, Counted, StartBefore
  <2> QED BY <1>1, <1>2, <2>1, <2>2
<1>4. CASE Newlines(pos, to) # {}
  <2>1. col' = to - Max(Newlines(pos, to))
    BY <1>4 DEF Advance
  <2>2. StartOf(to) = Max(Newlines(pos, to))
    BY <1>4, Counted
  <2> QED BY <1>1, <1>2, <2>1, <2>2
<1> QED BY <1>3, <1>4
-----------------------------------------------------------------------------
TokenKinds == {"number", "string", "word", "op"}
Sizes == {0} \cup {Unescape(raw) : raw \in Seq(Chars)}
TokenSet == [kind : TokenKinds \cup {"eof"}, from : Nat, to : Nat, line : Nat, size : Sizes]

LexTyped ==
    /\ text \in Seq(Chars) /\ tokens \in Seq(TokenSet)
    /\ pos \in 1..(Len(text) + 1) /\ line = LineOf(pos) /\ col = pos - StartOf(pos)
    /\ lexed \in {"todo", "ok", "lex"}

\* Where the tokens stand in the text.
TokensPlaced ==
    \A n \in DOMAIN tokens :
        /\ tokens[n].from >= 1 /\ tokens[n].from <= tokens[n].to /\ tokens[n].to <= pos
        /\ tokens[n].line = LineOf(tokens[n].from)
        /\ tokens[n].kind = "eof" \/ At(tokens[n].from) \notin Blank \cup {End}

\* Where the last token ends.
LastTo == IF tokens = <<>> THEN 1 ELSE tokens[Len(tokens)].to

\* What has been passed since then is blank.
Covered == GapsAreBlank /\ (lexed = "todo" => IsGap(LastTo, pos))

LEMMA Window ==
  ASSUME text \in Seq(Chars), NEW i \in 1..(Len(text) + 1), NEW j \in 1..(Len(text) + 1), i <= j
  PROVE  /\ SubSeq(text, i, j - 1) \in Seq(Chars) /\ Len(SubSeq(text, i, j - 1)) = j - i
         /\ \A k \in 1..(j - i) : SubSeq(text, i, j - 1)[k] = At(i + k - 1)
<1>1. SubSeq(text, i, j - 1) \in Seq(Chars) /\ Len(SubSeq(text, i, j - 1)) = j - i
  BY SubSeqProperties
<1>2. ASSUME NEW k \in 1..(j - i)
      PROVE  i + k - 1 \in 1..Len(text) /\ SubSeq(text, i, j - 1)[k] = text[i + k - 1]
  BY SubSeqProperties
<1> QED BY <1>1, <1>2 DEF At

-----------------------------------------------------------------------------
(* Lexemes *)

\* A character is hidden exactly when a backslash stands before it that is not.
LEMMA HiddenStep ==
  ASSUME NEW w, NEW k \in Nat \ {0}
  PROVE  Hidden(w, k + 1) <=> w[k] = Backslash /\ ~Hidden(w, k)
<1>1. ASSUME Hidden(w, k + 1)
      PROVE  w[k] = Backslash /\ ~Hidden(w, k)
  <2>1. PICK n \in 1..k : /\ n % 2 = 1
                          /\ \A m \in (k + 1 - n)..k : w[m] = Backslash
                          /\ k + 1 - n = 1 \/ w[k - n] # Backslash
    <3>1. (k + 1) - 1 = k /\ \A n \in 1..k : k + 1 - n - 1 = k - n
      OBVIOUS
    <3> QED BY <1>1, <3>1 DEF Hidden
  <2>2. w[k] = Backslash
    BY <2>1
  <2>3. ASSUME NEW p \in 1..(k - 1), p % 2 = 1,
               \A m \in (k - p)..(k - 1) : w[m] = Backslash,
               k - p = 1 \/ w[k - p - 1] # Backslash
        PROVE  FALSE
    <3>1. p # n - 1
      BY <2>1, <2>3
    <3>2. CASE p < n - 1
      <4>1. k - p - 1 \in (k + 1 - n)..k /\ k - p # 1
        BY <2>1, <3>2
      <4> QED BY <2>1, <2>3, <4>1
    <3>3. CASE p > n - 1
      <4>1. k - n \in (k - p)..(k - 1) /\ k + 1 - n # 1
        BY <2>1, <3>3
      <4> QED BY <2>1, <2>3, <4>1
    <3> QED BY <2>1, <3>1, <3>2, <3>3
  <2> QED BY <2>2, <2>3 DEF Hidden
<1>2. ASSUME w[k] = Backslash, ~Hidden(w, k)
      PROVE  Hidden(w, k + 1)
  <2> DEFINE S == {m \in 0..(k - 1) : m = 0 \/ w[m] # Backslash}
             z == Max(S)
  <2>1. z \in S /\ \A m \in S : m <= z
    <3>1. S \in SUBSET Nat /\ 0 \in S /\ \A m \in S : m <= k
      OBVIOUS
    <3> HIDE DEF S
    <3> QED BY <3>1, Greatest
  <2>2. z \in 0..(k - 1) /\ (z = 0 \/ w[z] # Backslash)
    BY <2>1
  <2>3. \A m \in (z + 1)..(k - 1) : w[m] = Backslash
    <3>1. ASSUME NEW m \in (z + 1)..(k - 1), w[m] # Backslash
          PROVE  FALSE
      <4>1. m \in S /\ ~(m <= z)
        BY <2>2, <3>1
      <4> HIDE DEF S, z
      <4> QED BY <2>1, <4>1
    <3> QED BY <3>1
  <2> HIDE DEF S, z
  <2> DEFINE n == k - 1 - z
  <2>4. n \in Nat /\ k - n = z + 1 /\ k + 1 - (n + 1) = z + 1 /\ z + 1 - 1 = z /\ n + 1 \in 1..k
    BY <2>2
  <2>5. n % 2 = 0
    <3> SUFFICES ASSUME n % 2 = 1
                 PROVE  FALSE
      BY <2>4
    <3>1. n \in 1..(k - 1)
      BY <2>2, <2>4
    <3>2. /\ \A m \in (k - n)..(k - 1) : w[m] = Backslash
          /\ k - n = 1 \/ w[k - n - 1] # Backslash
      BY <2>2, <2>3, <2>4
    <3> HIDE DEF n
    <3> QED BY <1>2, <3>1, <3>2 DEF Hidden
  <2>6. (n + 1) % 2 = 1
    <3> HIDE DEF n
    <3> QED BY <2>4, <2>5
  <2>7. /\ \A m \in (k + 1 - (n + 1))..k : w[m] = Backslash
        /\ k + 1 - (n + 1) = 1 \/ w[k + 1 - (n + 1) - 1] # Backslash
    BY <1>2, <2>2, <2>3, <2>4
  <2> HIDE DEF n
  <2>8. (k + 1) - 1 = k
    OBVIOUS
  <2> QED BY <2>4, <2>6, <2>7, <2>8 DEF Hidden
<1> QED BY <1>1, <1>2

LEMMA NoneHiddenFirst ==
  ASSUME NEW w
  PROVE  ~Hidden(w, 1)
BY DEF Hidden

\* Whether a character is hidden depends on what stands before it only.
LEMMA HiddenByPrefix ==
  ASSUME NEW w, NEW v, NEW k \in Nat, \A m \in 1..(k - 1) : w[m] = v[m]
  PROVE  Hidden(w, k) <=> Hidden(v, k)
<1>1. \A n \in 1..(k - 1) : /\ \A m \in (k - n)..(k - 1) : w[m] = v[m]
                            /\ k - n = 1 \/ w[k - n - 1] = v[k - n - 1]
  OBVIOUS
<1> QED BY <1>1 DEF Hidden

\* The places of the text that are hidden in a string that starts at s.
Onward(s) == [k \in Nat |-> At(s + k - 1)]
HiddenFrom(s) == {i \in Nat : i >= s /\ Hidden(Onward(s), i - s + 1)}

LEMMA HiddenPlaces ==
  ASSUME NEW s \in Nat \ {0}, At(s) = Quote
  PROVE  /\ s \notin HiddenFrom(s) /\ s + 1 \notin HiddenFrom(s)
         /\ \A i \in Nat : i >= s => (i + 1 \in HiddenFrom(s) <=>
                                        At(i) = Backslash /\ i \notin HiddenFrom(s))
<1> DEFINE w == Onward(s)
<1>1. ASSUME NEW i \in Nat, i >= s
      PROVE  i + 1 \in HiddenFrom(s) <=> At(i) = Backslash /\ i \notin HiddenFrom(s)
  <2> DEFINE k == i - s + 1
  <2>1. k \in Nat \ {0} /\ i + 1 - s + 1 = k + 1 /\ s + k - 1 = i /\ i + 1 >= s
    BY <1>1
  <2>2. w[k] = At(i)
    BY <2>1 DEF Onward
  <2> HIDE DEF w, k
  <2>3. Hidden(w, k + 1) <=> w[k] = Backslash /\ ~Hidden(w, k)
    BY <2>1, HiddenStep
  <2> QED BY <1>1, <2>1, <2>2, <2>3 DEF HiddenFrom, w, k
<1>2. s \notin HiddenFrom(s)
  BY NoneHiddenFirst DEF HiddenFrom
<1>3. s + 1 \notin HiddenFrom(s)
  <2>0. Quote # Backslash
    BY DEF Quote, Backslash
  <2>1. s \in Nat /\ s >= s /\ At(s) # Backslash
    BY <2>0
  <2> QED BY <1>1, <2>1
<1> QED BY <1>1, <1>2, <1>3

LEMMA HiddenWindow ==
  ASSUME text \in Seq(Chars), NEW s \in 1..(Len(text) + 1), NEW j \in 1..(Len(text) + 1), s <= j,
         NEW k \in 1..(j - s)
  PROVE  Hidden(SubSeq(text, s, j - 1), k) <=> s + k - 1 \in HiddenFrom(s)
<1> DEFINE w == SubSeq(text, s, j - 1)
           i == s + k - 1
<1>1. \A m \in 1..(j - s) : w[m] = At(s + m - 1)
  BY Window
<1>2. k \in Nat /\ i \in Nat /\ i >= s /\ i - s + 1 = k
  OBVIOUS
<1>3. \A m \in 1..(k - 1) : w[m] = Onward(s)[m]
  BY <1>1 DEF Onward
<1> HIDE DEF w
<1>4. Hidden(w, k) <=> Hidden(Onward(s), k)
  BY <1>2, <1>3, HiddenByPrefix
<1> QED BY <1>2, <1>4 DEF HiddenFrom, w
-----------------------------------------------------------------------------
\* The scan of a string, from a place that is not hidden, stops at the first
\* quote that is not hidden, or at the end of the text.
LEMMA ClosingFirst ==
  ASSUME text \in Seq(Chars), NEW H \in SUBSET Nat, NEW s \in Nat,
         \A i \in Nat : i >= s => (i + 1 \in H <=> At(i) = Backslash /\ i \notin H),
         NEW i \in s..(Len(text) + 1), i \notin H
  PROVE  /\ Closing[i] \in i..(Len(text) + 1)
         /\ At(Closing[i]) \in {Quote, End}
         /\ At(Closing[i]) = Quote => Closing[i] \notin H
         /\ \A k \in i..(Closing[i] - 1) : At(k) = Quote => k \in H
<1> DEFINE N == Len(text)
           Good(j) == /\ Closing[j] \in j..(N + 1)
                      /\ At(Closing[j]) \in {Quote, End}
                      /\ At(Closing[j]) = Quote => Closing[j] \notin H
                      /\ \A k \in j..(Closing[j] - 1) : At(k) = Quote => k \in H
           M == {n \in Nat : \A j \in s..(N + 1) : j + n > N /\ j \notin H => Good(j)}
<1>0. N \in Nat /\ \A j \in s..(N + 1) : j \in Nat
  OBVIOUS
<1>1. 0 \in M
  <2> SUFFICES ASSUME NEW j \in s..(N + 1), j > N, j \notin H
               PROVE  Good(j)
    BY <1>0
  <2>1. At(j) = End
    BY <1>0, AtBehind
  <2>2. Closing[j] = j
    BY <1>0, <2>1, ClosingStep, Zenon
  <2>3. End # Quote /\ j \in j..(N + 1) /\ \A k \in j..(j - 1) : FALSE
    BY <1>0 DEF Quote, End
  <2> QED BY <2>1, <2>2, <2>3
<1>2. ASSUME NEW n \in Nat, n \in M
      PROVE  n + 1 \in M
  <2> SUFFICES ASSUME NEW j \in s..(N + 1), j + (n + 1) > N, j \notin H
               PROVE  Good(j)
    OBVIOUS
  <2>0. Quote # Backslash /\ Quote # End
    BY DEF Quote, Backslash, End
  <2>1. CASE At(j) \in {Quote, End}
    <3>1. Closing[j] = j
      BY <1>0, <2>1, ClosingStep, Zenon
    <3> QED BY <1>0, <2>1, <3>1
  <2>2. CASE At(j) \notin {Quote, End} /\ At(j) = Backslash /\ At(j + 1) # End
    <3>1. Closing[j] = Closing[j + 2]
      BY <1>0, <2>2, ClosingStep, Zenon
    <3>2. j + 1 \in 1..N
      BY <2>2, AtInside
    <3>3. j + 2 \in s..(N + 1) /\ (j + 2) + n > N /\ j + 1 \in Nat /\ j >= s /\ j + 1 >= s
          /\ (j + 1) + 1 = j + 2
      <4> HIDE DEF N
      <4> QED BY <1>0, <3>2
    <3>4. j + 1 \in H /\ j + 2 \notin H
      BY <1>0, <2>2, <3>3
    <3>5. Good(j + 2)
      <4> HIDE DEF Good
      <4> QED BY <1>2, <3>3, <3>4
    <3>6. \A k \in j..(Closing[j + 2] - 1) : k = j \/ k = j + 1 \/ k \in (j + 2)..(Closing[j + 2] - 1)
      BY <1>0, <3>5
    <3>7. \A k \in j..(Closing[j] - 1) : At(k) = Quote => k \in H
      BY <2>2, <3>1, <3>4, <3>5, <3>6
    <3>8. Closing[j] \in j..(N + 1)
      <4> HIDE DEF N
      <4> QED BY <1>0, <3>1, <3>5
    <3> QED BY <3>1, <3>5, <3>7, <3>8
  <2>3. CASE At(j) \notin {Quote, End} /\ ~(At(j) = Backslash /\ At(j + 1) # End)
    <3>1. Closing[j] = Closing[j + 1]
      BY <1>0, <2>3, ClosingStep, Zenon
    <3>2. j \in 1..N \/ j = 0
      BY <1>0, <2>3, AtInside
    <3>3. j + 1 \in s..(N + 1) /\ (j + 1) + n > N /\ j + 1 \in Nat /\ j >= s
      BY <1>0, <3>2
    <3>4. CASE At(j) = Backslash
      <4>1. At(j + 1) = End
        BY <2>3, <3>4
      <4>2. Closing[j + 1] = j + 1
        BY <3>3, <4>1, ClosingStep, Zenon
      <4>3. \A k \in j..((j + 1) - 1) : k = j
        BY <1>0
      <4> QED BY <1>0, <2>0, <2>3, <3>1, <3>3, <4>1, <4>2, <4>3
    <3>5. CASE At(j) # Backslash
      <4>1. j + 1 \notin H
        BY <1>0, <3>3, <3>5
      <4>2. Good(j + 1)
        <5> HIDE DEF Good
        <5> QED BY <1>2, <3>3, <4>1
      <4>3. \A k \in j..(Closing[j + 1] - 1) : k = j \/ k \in (j + 1)..(Closing[j + 1] - 1)
        BY <1>0, <4>2
      <4>4. \A k \in j..(Closing[j] - 1) : At(k) = Quote => k \in H
        BY <2>3, <3>1, <4>2, <4>3
      <4>5. Closing[j] \in j..(N + 1)
        <5> HIDE DEF N
        <5> QED BY <1>0, <3>1, <4>2
      <4> QED BY <3>1, <4>2, <4>4, <4>5
    <3> QED BY <3>4, <3>5
  <2> QED BY <2>1, <2>2, <2>3
<1>3. N + 1 \in M
  <2> HIDE DEF M
  <2>1. Nat \subseteq M
    BY <1>1, <1>2, Induction
  <2> QED BY <1>0, <2>1
<1> QED BY <1>0, <1>3
-----------------------------------------------------------------------------
\* What the decoding loop writes from i on, when f tells what it writes later.
Decodes(f, raw, i) ==
    IF i > Len(raw) \/ (raw[i] = Backslash /\ i = Len(raw)) THEN 0
    ELSE LET step == IF raw[i] = Backslash THEN 2 ELSE 1
         IN  IF (step = 2 /\ raw[i + 1] \notin Escape) \/ f[i + step] = -1
             THEN -1
             ELSE 1 + f[i + step]

LEMMA DecodesLater ==
  ASSUME NEW f, NEW g, NEW raw, NEW i, g[i + 1] = f[i + 1], g[i + 2] = f[i + 2]
  PROVE  Decodes(g, raw, i) = Decodes(f, raw, i)
<1>1. CASE raw[i] = Backslash
  BY <1>1 DEF Decodes
<1>2. CASE raw[i] # Backslash
  BY <1>2 DEF Decodes
<1> QED BY <1>1, <1>2

LEMMA DecodingExists ==
  ASSUME NEW raw \in Seq(Chars)
  PROVE  \E f : f = [i \in Nat |-> Decodes(f, raw, i)]
<1> DEFINE N == Len(raw)
           From(k) == {i \in Nat : i + k > N}
           M == {k \in Nat : \E f : f = [i \in From(k) |-> Decodes(f, raw, i)]}
<1>0. N \in Nat
  OBVIOUS
<1>1. 0 \in M
  <2> DEFINE f == [i \in From(0) |-> 0]
  <2>1. \A i \in From(0) : i > Len(raw)
    OBVIOUS
  <2> HIDE DEF From
  <2>2. \A i \in From(0) : Decodes(f, raw, i) = 0
    BY <2>1, Zenon DEF Decodes
  <2>3. f = [i \in From(0) |-> Decodes(f, raw, i)]
    BY <2>2, Zenon
  <2> QED BY <2>3
<1>2. ASSUME NEW k \in Nat, k \in M
      PROVE  k + 1 \in M
  <2>1. PICK f : f = [i \in From(k) |-> Decodes(f, raw, i)]
    BY <1>2
  <2> DEFINE g == [i \in From(k + 1) |-> IF i \in From(k) THEN f[i] ELSE Decodes(f, raw, i)]
  <2>2. \A i \in From(k + 1) : i + 1 \in From(k) /\ i + 2 \in From(k)
    BY <1>0
  <2>3. From(k) \subseteq From(k + 1)
    BY <1>0
  <2> HIDE DEF From
  <2>4. \A i \in From(k) : f[i] = Decodes(f, raw, i)
    BY <2>1, Zenon
  <2>5. \A i \in From(k + 1) : g[i + 1] = f[i + 1] /\ g[i + 2] = f[i + 2]
    BY <2>2, <2>3, Zenon
  <2>6. \A i \in From(k + 1) : g[i] = Decodes(f, raw, i)
    BY <2>4, Zenon
  <2> HIDE DEF g
  <2>7. \A i \in From(k + 1) : g[i] = Decodes(g, raw, i)
    <3> SUFFICES ASSUME NEW i \in From(k + 1)
                 PROVE  g[i] = Decodes(g, raw, i)
      OBVIOUS
    <3>1. g[i + 1] = f[i + 1] /\ g[i + 2] = f[i + 2]
      BY <2>5
    <3>2. Decodes(g, raw, i) = Decodes(f, raw, i)
      BY <3>1, DecodesLater
    <3> QED BY <2>6, <3>2
  <2>8. g = [i \in From(k + 1) |-> g[i]]
    BY DEF g
  <2>9. g = [i \in From(k + 1) |-> Decodes(g, raw, i)]
    BY <2>7, <2>8, Zenon
  <2> QED BY <2>9
<1>3. N + 1 \in M
  <2> HIDE DEF M
  <2>1. Nat \subseteq M
    BY <1>1, <1>2, Induction
  <2> QED BY <1>0, <2>1
<1>4. PICK f : f = [i \in From(N + 1) |-> Decodes(f, raw, i)]
  BY <1>3
<1>5. From(N + 1) = Nat
  BY <1>0
<1> QED BY <1>4, <1>5

LEMMA DecodingIsWritten ==
  ASSUME NEW raw \in Seq(Chars)
  PROVE  \E f : Unescape(raw) = f[1] /\ \A i \in Nat : f[i] = Decodes(f, raw, i)
<1> DEFINE f == CHOOSE f : f = [i \in Nat |-> Decodes(f, raw, i)]
<1>1. f = [i \in Nat |-> Decodes(f, raw, i)]
  BY DecodingExists, Zenon
<1>2. Unescape(raw) = f[1]
  BY Zenon DEF Unescape, Decodes
<1> HIDE DEF f
<1>3. \A i \in Nat : f[i] = Decodes(f, raw, i)
  BY <1>1, Zenon
<1> QED BY <1>2, <1>3

\* The characters that stand for themselves or for an escape, from i on.  Here
\* and below raw lies behind the opening quote: raw[i] is character i + 1.
Kept(H, raw, i) == {k \in (i + 1)..(Len(raw) + 1) : k \in H \/ raw[k - 1] # Backslash}
BadEscape(H, raw, i) == \E k \in (i + 1)..(Len(raw) + 1) : k \in H /\ raw[k - 1] \notin Escape

LEMMA KeptFinite ==
  ASSUME NEW H, NEW raw \in Seq(Chars), NEW i \in Nat
  PROVE  IsFiniteSet(Kept(H, raw, i)) /\ Cardinality(Kept(H, raw, i)) \in Nat
<1>1. Kept(H, raw, i) \subseteq (i + 1)..(Len(raw) + 1) /\ i + 1 \in Int /\ Len(raw) + 1 \in Int
  BY DEF Kept
<1>2. IsFiniteSet((i + 1)..(Len(raw) + 1))
  BY <1>1, FS_Interval
<1>3. IsFiniteSet(Kept(H, raw, i))
  BY <1>1, <1>2, FS_Subset
<1> QED BY <1>3, FS_CardinalityType

\* One character more is kept at the front.
LEMMA KeptMore ==
  ASSUME NEW H, NEW raw \in Seq(Chars), NEW i \in Nat, NEW j \in Nat, NEW k \in Nat, k <= j,
         \A m : m \in Kept(H, raw, i) <=> m = k \/ m \in Kept(H, raw, j)
  PROVE  Cardinality(Kept(H, raw, i)) = 1 + Cardinality(Kept(H, raw, j))
<1> DEFINE T == Kept(H, raw, j)
<1>1. IsFiniteSet(T) /\ Cardinality(T) \in Nat
  BY KeptFinite
<1>2. k \notin T
  BY DEF Kept
<1>3. Cardinality(T \cup {k}) = Cardinality(T) + 1
  <2> HIDE DEF T
  <2> QED BY <1>1, <1>2, FS_AddElement
<1>4. Kept(H, raw, i) = T \cup {k}
  OBVIOUS
<1>5. Cardinality(Kept(H, raw, i)) = Cardinality(T) + 1
  BY <1>3, <1>4, Zenon
<1> HIDE DEF T
<1> QED BY <1>1, <1>5 DEF T

\* What the decoding loop writes from a place that is not hidden: one
\* character for each that is kept, unless an unknown escape comes.
LEMMA DecodesWhole ==
  ASSUME NEW raw \in Seq(Chars), NEW H \in SUBSET Nat,
         \A k \in 1..Len(raw) : k + 2 \in H <=> raw[k] = Backslash /\ k + 1 \notin H,
         NEW f, \A i \in Nat : f[i] = Decodes(f, raw, i),
         NEW i \in 1..(Len(raw) + 1), i + 1 \notin H
  PROVE  f[i] = IF BadEscape(H, raw, i) THEN -1 ELSE Cardinality(Kept(H, raw, i))
<1> DEFINE N == Len(raw)
           Good(j) == f[j] = IF BadEscape(H, raw, j) THEN -1 ELSE Cardinality(Kept(H, raw, j))
           M == {n \in Nat : \A j \in 1..(N + 1) : j + n > N /\ j + 1 \notin H => Good(j)}
<1>0. N \in Nat /\ \A j \in 1..(N + 1) : j \in Nat
  OBVIOUS
<1>1. 0 \in M
  <2> SUFFICES ASSUME NEW j \in 1..(N + 1), j > N
               PROVE  Good(j)
    BY <1>0
  <2>1. j = N + 1
    BY <1>0
  <2>2. f[j] = 0
    BY <1>0, Zenon DEF Decodes
  <2>3. (j + 1)..(N + 1) = {}
    BY <1>0, <2>1
  <2>4. Kept(H, raw, j) = {} /\ ~BadEscape(H, raw, j)
    BY <2>3 DEF Kept, BadEscape
  <2> QED BY <2>2, <2>4, FS_EmptySet
<1>2. ASSUME NEW n \in Nat, n \in M
      PROVE  n + 1 \in M
  <2> SUFFICES ASSUME NEW j \in 1..(N + 1), j + (n + 1) > N, j + 1 \notin H
               PROVE  Good(j)
    OBVIOUS
  <2>0. f[j] = Decodes(f, raw, j)
    BY <1>0
  <2>1. CASE j > N
    BY <1>0, <1>1, <2>1
  <2>2. CASE j = N /\ raw[j] = Backslash
    <3>1. f[j] = 0
      BY <2>0, <2>2, Zenon DEF Decodes
    <3>2. (j + 1)..(N + 1) = {j + 1} /\ (j + 1) - 1 = j
      BY <1>0, <2>2
    <3>3. Kept(H, raw, j) = {} /\ ~BadEscape(H, raw, j)
      BY <2>2, <3>2 DEF Kept, BadEscape
    <3> QED BY <3>1, <3>3, FS_EmptySet
  <2>3. CASE j < N /\ raw[j] = Backslash
    <3>1. f[j] = IF raw[j + 1] \notin Escape \/ f[j + 2] = -1 THEN -1 ELSE 1 + f[j + 2]
      <4>1. ~(j > Len(raw)) /\ j # Len(raw)
        BY <1>0, <2>3
      <4> QED BY <2>0, <2>3, <4>1 DEF Decodes
    <3>2. /\ j + 2 \in 1..(N + 1) /\ (j + 2) + n > N /\ j + 1 \in 1..N /\ j \in 1..N
          /\ (j + 1) + 2 = (j + 2) + 1 /\ (j + 1) + 1 = j + 2
      <4> HIDE DEF N
      <4> QED BY <1>0, <2>3
    <3>3. j + 2 \in H /\ (j + 2) + 1 \notin H
      BY <2>3, <3>2
    <3>4. Good(j + 2)
      <4> HIDE DEF Good
      <4> QED BY <1>2, <3>2, <3>3
    <3>5. \A k : k \in (j + 1)..(N + 1) <=> k = j + 1 \/ k = j + 2 \/ k \in ((j + 2) + 1)..(N + 1)
      <4> HIDE DEF N
      <4> QED BY <1>0, <2>3
    <3>6. (j + 1) - 1 = j /\ (j + 2) - 1 = j + 1
      BY <1>0
    <3>7. BadEscape(H, raw, j) <=> raw[j + 1] \notin Escape \/ BadEscape(H, raw, j + 2)
      BY <3>3, <3>5, <3>6 DEF BadEscape
    <3>8. \A k : k \in Kept(H, raw, j) <=> k = j + 2 \/ k \in Kept(H, raw, j + 2)
      BY <2>3, <3>3, <3>5, <3>6 DEF Kept
    <3>9. Cardinality(Kept(H, raw, j)) = 1 + Cardinality(Kept(H, raw, j + 2))
      <4>1. j \in Nat /\ j + 2 \in Nat /\ j + 2 <= j + 2
        BY <1>0
      <4> QED BY <3>8, <4>1, KeptMore
    <3>10. Cardinality(Kept(H, raw, j + 2)) \in Nat
      BY <1>0, KeptFinite
    <3>11. CASE BadEscape(H, raw, j + 2)
      BY <3>1, <3>4, <3>7, <3>11
    <3>12. CASE ~BadEscape(H, raw, j + 2)
      BY <3>1, <3>4, <3>7, <3>9, <3>10, <3>12
    <3> QED BY <3>11, <3>12
  <2>4. CASE j <= N /\ raw[j] # Backslash
    <3>1. f[j] = IF f[j + 1] = -1 THEN -1 ELSE 1 + f[j + 1]
      <4>1. ~(j > Len(raw))
        BY <1>0, <2>4
      <4> QED BY <2>0, <2>4, <4>1 DEF Decodes
    <3>2. /\ j + 1 \in 1..(N + 1) /\ (j + 1) + n > N /\ j \in 1..N /\ (j + 1) + 1 = j + 2
      <4> HIDE DEF N
      <4> QED BY <1>0, <2>4
    <3>3. (j + 1) + 1 \notin H
      BY <2>4, <3>2
    <3>4. Good(j + 1)
      <4> HIDE DEF Good
      <4> QED BY <1>2, <3>2, <3>3
    <3>5. \A k : k \in (j + 1)..(N + 1) <=> k = j + 1 \/ k \in ((j + 1) + 1)..(N + 1)
      <4> HIDE DEF N
      <4> QED BY <1>0, <2>4
    <3>6. (j + 1) - 1 = j
      BY <1>0
    <3>7. BadEscape(H, raw, j) <=> BadEscape(H, raw, j + 1)
      BY <3>5 DEF BadEscape
    <3>8. \A k : k \in Kept(H, raw, j) <=> k = j + 1 \/ k \in Kept(H, raw, j + 1)
      BY <2>4, <3>5, <3>6 DEF Kept
    <3>9. Cardinality(Kept(H, raw, j)) = 1 + Cardinality(Kept(H, raw, j + 1))
      <4>1. j \in Nat /\ j + 1 \in Nat /\ j + 1 <= j + 1
        BY <1>0
      <4> QED BY <3>8, <4>1, KeptMore
    <3>10. Cardinality(Kept(H, raw, j + 1)) \in Nat
      BY <1>0, KeptFinite
    <3>11. CASE BadEscape(H, raw, j + 1)
      BY <3>1, <3>4, <3>7, <3>11
    <3>12. CASE ~BadEscape(H, raw, j + 1)
      BY <3>1, <3>4, <3>7, <3>9, <3>10, <3>12
    <3> QED BY <3>11, <3>12
  <2> QED BY <1>0, <2>1, <2>2, <2>3, <2>4
<1>3. N + 1 \in M
  <2> HIDE DEF M
  <2>1. Nat \subseteq M
    BY <1>1, <1>2, Induction
  <2> QED BY <1>0, <2>1
<1> QED BY <1>0, <1>3
-----------------------------------------------------------------------------
\* What a lexeme from s up to j is, in terms of the text.
NumberAt(s, j) == \E n \in s..(j - 1) :
    /\ \A i \in s..(j - 1) : i # n => At(i) \in Digit
    /\ At(n) \in Digit \/ (At(n) = "." /\ n # s /\ n # j - 1)
WordAt(s, j) == At(s) \in Letter /\ \A i \in s..(j - 1) : At(i) \in Letter \cup Digit
StringAt(s, j) ==
    /\ j >= s + 2 /\ At(s) = Quote /\ At(j - 1) = Quote
    /\ \A i \in (s + 1)..(j - 1) : /\ At(i) = Quote => (i \in HiddenFrom(s) <=> i < j - 1)
                                   /\ i \in HiddenFrom(s) => At(i) \in Escape
PunctuationAt(s, j) ==
    \/ j = s + 1 /\ At(s) \in Operator
    \/ j = s + 2 /\ At(s) \in DOMAIN Doubled /\ At(s + 1) = Doubled[At(s)]
LexemeAt(s, j) == NumberAt(s, j) \/ WordAt(s, j) \/ StringAt(s, j) \/ PunctuationAt(s, j)

LEMMA LexemeInText ==
  ASSUME text \in Seq(Chars), NEW s \in 1..(Len(text) + 1), NEW j \in (s + 1)..(Len(text) + 1)
  PROVE  IsLexeme(SubSeq(text, s, j - 1)) <=> LexemeAt(s, j)
<1> DEFINE w == SubSeq(text, s, j - 1)
           l == j - s
<1>0. /\ s \in Nat \ {0} /\ j \in Nat /\ l \in Nat \ {0} /\ s <= j /\ j \in 1..(Len(text) + 1)
      /\ \A k \in 1..l : s + k - 1 \in s..(j - 1) /\ s + k - 1 \in Nat
      /\ \A i \in s..(j - 1) : i - s + 1 \in 1..l /\ s + (i - s + 1) - 1 = i
      /\ s + 1 - 1 = s /\ s + l - 1 = j - 1 /\ s + 2 - 1 = s + 1
  OBVIOUS
<1>1. w \in Seq(Chars) /\ Len(w) = l /\ \A k \in 1..l : w[k] = At(s + k - 1)
  BY <1>0, Window
<1>2. \A k \in 1..l : Hidden(w, k) <=> s + k - 1 \in HiddenFrom(s)
  BY <1>0, HiddenWindow
<1> HIDE DEF w, l
<1>3. DOMAIN w = 1..l /\ 1 \in 1..l /\ l \in 1..l /\ w[1] = At(s) /\ w[l] = At(j - 1)
  BY <1>0, <1>1
<1>4. IsNumber(w) <=> NumberAt(s, j)
  <2>1. ASSUME IsNumber(w)
        PROVE  NumberAt(s, j)
    <3>1. PICK n \in 1..l : /\ \A k \in 1..l : k # n => w[k] \in Digit
                            /\ w[n] \in Digit \/ (w[n] = "." /\ n # 1 /\ n # l)
      BY <1>1, <1>3, <2>1 DEF IsNumber
    <3> DEFINE m == s + n - 1
    <3>2. m \in s..(j - 1) /\ m - s + 1 = n /\ At(m) = w[n]
      BY <1>0, <1>1
    <3>3. ASSUME NEW i \in s..(j - 1), i # m
          PROVE  At(i) \in Digit
      <4>1. i - s + 1 \in 1..l /\ i - s + 1 # n /\ At(i) = w[i - s + 1]
        BY <1>0, <1>1, <3>2, <3>3
      <4> QED BY <3>1, <4>1
    <3>4. n # 1 => m # s
      BY <1>0, <3>2
    <3>5. n # l => m # j - 1
      BY <1>0, <3>2 DEF l
    <3> HIDE DEF m
    <3> QED BY <3>1, <3>2, <3>3, <3>4, <3>5 DEF NumberAt
  <2>2. ASSUME NumberAt(s, j)
        PROVE  IsNumber(w)
    <3>1. PICK m \in s..(j - 1) : /\ \A i \in s..(j - 1) : i # m => At(i) \in Digit
                                  /\ At(m) \in Digit \/ (At(m) = "." /\ m # s /\ m # j - 1)
      BY <2>2 DEF NumberAt
    <3> DEFINE n == m - s + 1
    <3>2. n \in 1..l /\ s + n - 1 = m /\ w[n] = At(m)
      BY <1>0, <1>1
    <3>3. ASSUME NEW k \in 1..l, k # n
          PROVE  w[k] \in Digit
      <4>1. s + k - 1 \in s..(j - 1) /\ s + k - 1 # m /\ w[k] = At(s + k - 1)
        BY <1>0, <1>1, <3>2, <3>3
      <4> QED BY <3>1, <4>1
    <3>4. m # s => n # 1
      BY <1>0, <3>2
    <3>5. m # j - 1 => n # l
      BY <1>0, <3>2 DEF l
    <3> HIDE DEF n
    <3> QED BY <1>1, <1>3, <3>1, <3>2, <3>3, <3>4, <3>5 DEF IsNumber
  <2> QED BY <2>1, <2>2
<1>5. IsWord(w) <=> WordAt(s, j)
  <2>1. (\A k \in 1..l : w[k] \in Letter \cup Digit) <=>
        \A i \in s..(j - 1) : At(i) \in Letter \cup Digit
    <3>1. \A k \in 1..l : w[k] = At(s + k - 1) /\ s + k - 1 \in s..(j - 1)
      BY <1>0, <1>1
    <3>2. \A i \in s..(j - 1) : \E k \in 1..l : s + k - 1 = i
      BY <1>0
    <3> QED BY <3>1, <3>2, Zenon
  <2> QED BY <1>3, <2>1 DEF IsWord, WordAt
<1>6. IsPunctuation(w) <=> PunctuationAt(s, j)
  <2>1. (l = 1 <=> j = s + 1) /\ (l = 2 <=> j = s + 2)
    BY <1>0 DEF l
  <2>2. l = 2 => w[2] = At(s + 1)
    BY <1>0, <1>1
  <2> QED BY <1>1, <1>3, <2>1, <2>2 DEF IsPunctuation, PunctuationAt
<1>7. IsString(w) <=> StringAt(s, j)
  <2>1. (l >= 2 <=> j >= s + 2) /\ \A i \in (s + 1)..(j - 1) : i - s + 1 \in 2..l
        /\ \A k \in 2..l : s + k - 1 \in (s + 1)..(j - 1) /\ (k < l <=> s + k - 1 < j - 1)
    BY <1>0 DEF l
  <2>2. (\A k \in 2..l : /\ w[k] = Quote => (Hidden(w, k) <=> k < l)
                         /\ Hidden(w, k) => w[k] \in Escape)
        <=> \A i \in (s + 1)..(j - 1) : /\ At(i) = Quote => (i \in HiddenFrom(s) <=> i < j - 1)
                                        /\ i \in HiddenFrom(s) => At(i) \in Escape
    <3>1. \A k \in 2..l : /\ w[k] = At(s + k - 1) /\ (Hidden(w, k) <=> s + k - 1 \in HiddenFrom(s))
                          /\ (k < l <=> s + k - 1 < j - 1) /\ s + k - 1 \in (s + 1)..(j - 1)
      BY <1>0, <1>1, <1>2, <2>1
    <3>2. \A i \in (s + 1)..(j - 1) : i - s + 1 \in 2..l /\ s + (i - s + 1) - 1 = i
      BY <1>0, <2>1
    <3>3. \A i \in (s + 1)..(j - 1) : \E k \in 2..l : s + k - 1 = i
      BY <3>2
    <3> QED BY <3>1, <3>3, Zenon
  <2> QED BY <1>1, <1>3, <2>1, <2>2 DEF IsString, StringAt
<1>8. IsLexeme(w) <=> LexemeAt(s, j)
  BY <1>4, <1>5, <1>6, <1>7 DEF IsLexeme, LexemeAt
<1> QED BY <1>8 DEF w

LEMMA LexemesInText ==
  ASSUME text \in Seq(Chars), NEW s \in 1..(Len(text) + 1)
  PROVE  LexemesAt(s) = {j \in (s + 1)..(Len(text) + 1) : LexemeAt(s, j)}
<1>1. \A j \in (s + 1)..(Len(text) + 1) : IsLexeme(SubSeq(text, s, j - 1)) <=> LexemeAt(s, j)
  BY LexemeInText
<1> QED BY <1>1, Zenon DEF LexemesAt

\* The first character tells what kind of lexeme may start.
LEMMA KindByFirst ==
  ASSUME NEW s \in Nat, NEW j \in Nat, s < j, LexemeAt(s, j)
  PROVE  \/ At(s) \in Digit /\ NumberAt(s, j)
         \/ At(s) \in Letter /\ WordAt(s, j)
         \/ At(s) = Quote /\ StringAt(s, j)
         \/ At(s) \in Operator \cup DOMAIN Doubled /\ PunctuationAt(s, j)
<1>1. ASSUME NumberAt(s, j)
      PROVE  At(s) \in Digit
  <2>1. s \in s..(j - 1)
    OBVIOUS
  <2> QED BY <1>1, <2>1 DEF NumberAt
<1> QED BY <1>1 DEF LexemeAt, WordAt, StringAt, PunctuationAt
-----------------------------------------------------------------------------
Longest(s, j) == LexemesAt(s) # {} /\ j = Max(LexemesAt(s))

LEMMA NoLonger ==
  ASSUME text \in Seq(Chars), NEW s \in 1..(Len(text) + 1), NEW j \in (s + 1)..(Len(text) + 1),
         LexemeAt(s, j), \A k \in (j + 1)..(Len(text) + 1) : ~LexemeAt(s, k)
  PROVE  Longest(s, j)
<1> DEFINE S == LexemesAt(s)
<1>0. Len(text) \in Nat
  OBVIOUS
<1>1. S = {k \in (s + 1)..(Len(text) + 1) : LexemeAt(s, k)}
  BY LexemesInText
<1>2. j \in S /\ S \in SUBSET Nat /\ \A k \in S : k <= Len(text) + 1
  BY <1>1
<1>3. \A k \in S : k <= j
  BY <1>0, <1>1
<1> HIDE DEF S
<1>4. Max(S) \in S /\ \A k \in S : k <= Max(S)
  <2>1. Len(text) + 1 \in Nat /\ S # {}
    BY <1>0, <1>2
  <2> QED BY <1>2, <2>1, Greatest
<1>5. Max(S) = j
  <2>1. Max(S) \in Nat /\ j \in Nat /\ Max(S) <= j /\ j <= Max(S)
    BY <1>2, <1>3, <1>4
  <2> QED BY <2>1
<1> QED BY <1>2, <1>5 DEF Longest, S

LEMMA WordIsLongest ==
  ASSUME LexTyped, At(pos) \in Letter
  PROVE  /\ EndOf(Letter \cup Digit, pos) \in (pos + 1)..(Len(text) + 1)
         /\ Longest(pos, EndOf(Letter \cup Digit, pos))
<1> DEFINE to == EndOf(Letter \cup Digit, pos)
<1>0. text \in Seq(Chars) /\ pos \in 1..(Len(text) + 1) /\ Len(text) \in Nat
  BY DEF LexTyped
<1>1. /\ End \notin Letter \cup Digit
      /\ Letter \cap (Digit \cup Operator \cup DOMAIN Doubled \cup {Quote}) = {}
  BY LexerAssumption
<1>2. /\ to \in pos..(Len(text) + 1) /\ to > pos /\ At(to) \notin Letter \cup Digit
      /\ \A i \in pos..(to - 1) : At(i) \in Letter \cup Digit
  BY <1>0, <1>1, EndOfStops
<1> HIDE DEF to
<1>3. to \in (pos + 1)..(Len(text) + 1)
  BY <1>0, <1>2
<1>4. LexemeAt(pos, to)
  BY <1>2 DEF LexemeAt, WordAt
<1>5. ASSUME NEW k \in (to + 1)..(Len(text) + 1), LexemeAt(pos, k)
      PROVE  FALSE
  <2>1. k \in Nat /\ pos \in Nat /\ pos < k /\ to \in pos..(k - 1)
    BY <1>0, <1>3, <1>5
  <2>2. WordAt(pos, k)
    BY <1>1, <1>5, <2>1, KindByFirst
  <2> QED BY <1>2, <2>1, <2>2 DEF WordAt
<1> QED BY <1>0, <1>3, <1>4, <1>5, NoLonger DEF to

LEMMA NumberIsLongest ==
  ASSUME LexTyped, At(pos) \in Digit
  PROVE  NumberEnd(pos) \in (pos + 1)..(Len(text) + 1) /\ Longest(pos, NumberEnd(pos))
<1> DEFINE whole == EndOf(Digit, pos)
           to == NumberEnd(pos)
<1>0. text \in Seq(Chars) /\ pos \in 1..(Len(text) + 1) /\ Len(text) \in Nat
  BY DEF LexTyped
<1>1. /\ End \notin Digit
      /\ Digit \cap (Letter \cup Operator \cup DOMAIN Doubled \cup {Quote}) = {}
  BY LexerAssumption
<1>2. /\ whole \in pos..(Len(text) + 1) /\ whole > pos /\ At(whole) \notin Digit
      /\ \A i \in pos..(whole - 1) : At(i) \in Digit
  BY <1>0, <1>1, EndOfStops
<1>3. to = IF At(whole) = "." /\ At(whole + 1) \in Digit THEN EndOf(Digit, whole + 1) ELSE whole
  BY Zenon DEF NumberEnd
<1> HIDE DEF whole, to
<1>4. ASSUME NEW k \in Nat, pos < k, LexemeAt(pos, k)
      PROVE  NumberAt(pos, k)
  BY <1>0, <1>1, <1>4, KindByFirst
<1>5. CASE At(whole) = "." /\ At(whole + 1) \in Digit
  <2>1. whole + 1 \in 1..Len(text) /\ whole + 1 \in 1..(Len(text) + 1)
    BY <1>0, <1>1, <1>5, AtInside
  <2>2. /\ to \in (whole + 1)..(Len(text) + 1) /\ to > whole + 1 /\ At(to) \notin Digit
        /\ \A i \in (whole + 1)..(to - 1) : At(i) \in Digit
    BY <1>0, <1>1, <1>3, <1>5, <2>1, EndOfStops
  <2>3. to \in (pos + 1)..(Len(text) + 1) /\ whole \in pos..(to - 1) /\ whole # pos /\ whole # to - 1
    BY <1>0, <1>2, <2>2
  <2>4. \A i \in pos..(to - 1) : i # whole => At(i) \in Digit
    <3>1. \A i \in pos..(to - 1) : i = whole \/ i \in pos..(whole - 1) \/ i \in (whole + 1)..(to - 1)
      BY <1>0, <1>2, <2>2
    <3> QED BY <1>2, <2>2, <3>1
  <2>5. LexemeAt(pos, to)
    BY <1>5, <2>3, <2>4 DEF LexemeAt, NumberAt
  <2>6. ASSUME NEW k \in (to + 1)..(Len(text) + 1), LexemeAt(pos, k)
        PROVE  FALSE
    <3>1. k \in Nat /\ pos < k /\ whole \in pos..(k - 1) /\ to \in pos..(k - 1) /\ whole # to
      BY <1>0, <2>2, <2>3, <2>6
    <3>2. NumberAt(pos, k)
      BY <1>4, <2>6, <3>1
    <3>3. PICK n \in pos..(k - 1) : /\ \A i \in pos..(k - 1) : i # n => At(i) \in Digit
                                    /\ At(n) \in Digit \/ At(n) = "."
      BY <3>2 DEF NumberAt
    <3> QED BY <1>2, <2>2, <3>1, <3>3
  <2> QED BY <1>0, <2>3, <2>5, <2>6, NoLonger DEF to
<1>6. CASE ~(At(whole) = "." /\ At(whole + 1) \in Digit)
  <2>1. to = whole /\ to \in (pos + 1)..(Len(text) + 1)
    BY <1>0, <1>2, <1>3, <1>6
  <2>2. LexemeAt(pos, to)
    <3>1. pos \in pos..(to - 1)
      BY <1>0, <2>1
    <3> QED BY <1>2, <2>1, <3>1 DEF LexemeAt, NumberAt
  <2>3. ASSUME NEW k \in (to + 1)..(Len(text) + 1), LexemeAt(pos, k)
        PROVE  FALSE
    <3>1. k \in Nat /\ pos < k /\ whole \in pos..(k - 1)
      BY <1>0, <2>1, <2>3
    <3>2. NumberAt(pos, k)
      BY <1>4, <2>3, <3>1
    <3>3. PICK n \in pos..(k - 1) : /\ \A i \in pos..(k - 1) : i # n => At(i) \in Digit
                                    /\ At(n) \in Digit \/ (At(n) = "." /\ n # k - 1)
      BY <3>2 DEF NumberAt
    <3>4. n = whole /\ At(whole) = "." /\ whole # k - 1
      BY <1>2, <3>1, <3>3
    <3>5. whole + 1 \in pos..(k - 1) /\ whole + 1 # n
      BY <1>0, <1>2, <3>1, <3>4
    <3> QED BY <1>6, <3>3, <3>4, <3>5
  <2> QED BY <1>0, <2>1, <2>2, <2>3, NoLonger DEF to
<1> QED BY <1>5, <1>6 DEF to

LEMMA PunctuationIsLongest ==
  ASSUME LexTyped, At(pos) \in Operator \cup DOMAIN Doubled
  PROVE  /\ IsDoubled => pos + 2 \in (pos + 1)..(Len(text) + 1) /\ Longest(pos, pos + 2)
         /\ ~IsDoubled /\ At(pos) \in Operator =>
               pos + 1 \in (pos + 1)..(Len(text) + 1) /\ Longest(pos, pos + 1)
         /\ ~IsDoubled /\ At(pos) \notin Operator => LexemesAt(pos) = {}
<1>0. text \in Seq(Chars) /\ pos \in 1..(Len(text) + 1) /\ Len(text) \in Nat
  BY DEF LexTyped
<1>1. At(pos) # End /\ At(pos) \notin Letter \cup Digit \cup {Quote}
  BY LexerAssumption
<1>2. pos \in 1..Len(text)
  BY <1>0, <1>1, AtInside
<1>3. ASSUME NEW k \in (pos + 1)..(Len(text) + 1), LexemeAt(pos, k)
      PROVE  (k = pos + 1 /\ At(pos) \in Operator) \/ (k = pos + 2 /\ IsDoubled)
  <2>1. k \in Nat /\ pos \in Nat /\ pos < k
    BY <1>0, <1>3
  <2>2. PunctuationAt(pos, k)
    BY <1>1, <1>3, <2>1, KindByFirst
  <2> QED BY <2>2 DEF PunctuationAt, IsDoubled
<1>4. ASSUME IsDoubled
      PROVE  pos + 2 \in (pos + 1)..(Len(text) + 1) /\ Longest(pos, pos + 2)
  <2>1. At(pos + 1) \in Range(Doubled)
    BY <1>4 DEF IsDoubled, Range
  <2>2. At(pos + 1) # End
    BY <2>1, LexerAssumption
  <2>3. pos + 1 \in 1..Len(text)
    BY <1>0, <2>2, AtInside
  <2>4. pos + 2 \in (pos + 1)..(Len(text) + 1)
    BY <1>0, <1>2, <2>3
  <2>5. LexemeAt(pos, pos + 2)
    BY <1>4 DEF IsDoubled, LexemeAt, PunctuationAt
  <2>6. \A k \in (pos + 2 + 1)..(Len(text) + 1) : ~LexemeAt(pos, k)
    BY <1>0, <1>3
  <2> QED BY <1>0, <2>4, <2>5, <2>6, NoLonger
<1>5. ASSUME ~IsDoubled, At(pos) \in Operator
      PROVE  pos + 1 \in (pos + 1)..(Len(text) + 1) /\ Longest(pos, pos + 1)
  <2>1. pos + 1 \in (pos + 1)..(Len(text) + 1)
    BY <1>0, <1>2
  <2>2. LexemeAt(pos, pos + 1)
    BY <1>5 DEF LexemeAt, PunctuationAt
  <2>3. \A k \in (pos + 1 + 1)..(Len(text) + 1) : ~LexemeAt(pos, k)
    BY <1>0, <1>3, <1>5
  <2> QED BY <1>0, <2>1, <2>2, <2>3, NoLonger
<1>6. ASSUME ~IsDoubled, At(pos) \notin Operator
      PROVE  LexemesAt(pos) = {}
  BY <1>0, <1>3, <1>6, LexemesInText
<1> QED BY <1>4, <1>5, <1>6
-----------------------------------------------------------------------------
\* The number of characters of the string that stands from s up to j.
Decoded(s, j) == LET w == SubSeq(text, s, j - 1)
                 IN  Cardinality({k \in 2..(Len(w) - 1) : Hidden(w, k) \/ w[k] # Backslash})

LEMMA StringIsLongest ==
  ASSUME LexTyped, At(pos) = Quote, NEW close, close = Closing[pos + 1],
         NEW size, size = Unescape(SubSeq(text, pos + 1, close - 1))
  PROVE  /\ At(close) = End \/ size = -1 => LexemesAt(pos) = {}
         /\ At(close) # End /\ size # -1 =>
               /\ close + 1 \in (pos + 1)..(Len(text) + 1) /\ size \in Sizes
               /\ Longest(pos, close + 1) /\ size = Decoded(pos, close + 1)
<1> DEFINE H == HiddenFrom(pos)
           raw == SubSeq(text, pos + 1, close - 1)
           n == close - pos - 1
           Bad == \E i \in (pos + 1)..(close - 1) : i \in H /\ At(i) \notin Escape
           K == {k \in Nat : pos + k - 1 \in H}
<1>0. text \in Seq(Chars) /\ pos \in 1..(Len(text) + 1) /\ Len(text) \in Nat /\ pos \in Nat \ {0}
  BY DEF LexTyped
<1>1. Quote # End /\ Quote \notin Letter \cup Digit \cup Operator \cup DOMAIN Doubled
  BY LexerAssumption DEF Quote, End
<1>2. pos \in 1..Len(text) /\ pos + 1 \in (pos + 1)..(Len(text) + 1) /\ pos + 1 \in 1..(Len(text) + 1)
  <2>1. pos \in 1..Len(text)
    BY <1>0, <1>1, AtInside
  <2> QED BY <1>0, <2>1
<1>3. /\ H \in SUBSET Nat /\ pos + 1 \notin H
      /\ \A i \in Nat : i >= pos => (i + 1 \in H <=> At(i) = Backslash /\ i \notin H)
  <2>1. H \in SUBSET Nat
    BY DEF HiddenFrom
  <2> QED BY <1>0, <2>1, HiddenPlaces
<1>4. /\ close \in (pos + 1)..(Len(text) + 1)
      /\ At(close) \in {Quote, End}
      /\ At(close) = Quote => close \notin H
      /\ \A k \in (pos + 1)..(close - 1) : At(k) = Quote => k \in H
  <2> HIDE DEF H
  <2>1. \A i \in Nat : i >= pos + 1 => (i + 1 \in H <=> At(i) = Backslash /\ i \notin H)
    <3>1. \A i \in Nat : i >= pos + 1 => i >= pos
      BY <1>0
    <3> QED BY <1>3, <3>1
  <2>2. pos + 1 \in Nat
    BY <1>0
  <2> QED BY <1>0, <1>2, <1>3, <2>1, <2>2, ClosingFirst
<1> HIDE DEF H
<1>5. /\ raw \in Seq(Chars) /\ Len(raw) = n /\ n \in Nat
      /\ \A k \in 1..n : raw[k] = At(pos + k)
  <2>1. /\ close \in 1..(Len(text) + 1) /\ pos + 1 <= close /\ close - (pos + 1) = n /\ n \in Nat
        /\ \A k \in 1..n : pos + 1 + k - 1 = pos + k
    BY <1>0, <1>4
  <2>2. /\ raw \in Seq(Chars) /\ Len(raw) = close - (pos + 1)
        /\ \A k \in 1..(close - (pos + 1)) : raw[k] = At(pos + 1 + k - 1)
    BY <1>0, <1>2, <2>1, Window
  <2> HIDE DEF raw, n
  <2> QED BY <2>1, <2>2
<1> HIDE DEF raw
<1>6. size = IF Bad THEN -1 ELSE Cardinality(Kept(K, raw, 1))
  <2>1. PICK f : Unescape(raw) = f[1] /\ \A i \in Nat : f[i] = Decodes(f, raw, i)
    BY <1>5, DecodingIsWritten
  <2>2. \A k \in 1..Len(raw) : k + 2 \in K <=> raw[k] = Backslash /\ k + 1 \notin K
    <3> SUFFICES ASSUME NEW k \in 1..n
                 PROVE  k + 2 \in K <=> raw[k] = Backslash /\ k + 1 \notin K
      BY <1>5
    <3>1. /\ k + 2 \in Nat /\ pos + (k + 2) - 1 = pos + k + 1
          /\ k + 1 \in Nat /\ pos + (k + 1) - 1 = pos + k /\ pos + k \in Nat /\ pos + k >= pos
      BY <1>0
    <3>2. pos + k + 1 \in H <=> At(pos + k) = Backslash /\ pos + k \notin H
      BY <1>3, <3>1
    <3> QED BY <1>5, <3>1, <3>2
  <2>3. 1 + 1 \notin K /\ 1 \in 1..(Len(raw) + 1) /\ K \in SUBSET Nat
    <3>1. pos + (1 + 1) - 1 = pos + 1
      BY <1>0
    <3> QED BY <1>3, <1>5, <3>1
  <2> HIDE DEF K, Bad
  <2>4. f[1] = IF BadEscape(K, raw, 1) THEN -1 ELSE Cardinality(Kept(K, raw, 1))
    BY <1>5, <2>1, <2>2, <2>3, DecodesWhole
  <2>5. BadEscape(K, raw, 1) <=> Bad
    <3>1. /\ \A k \in 2..(n + 1) : /\ k - 1 \in 1..n /\ k \in Nat /\ pos + (k - 1) = pos + k - 1
                                   /\ pos + k - 1 \in (pos + 1)..(close - 1)
          /\ \A i \in (pos + 1)..(close - 1) : i - pos + 1 \in 2..(n + 1) /\ pos + (i - pos + 1) - 1 = i
      BY <1>0, <1>4
    <3> HIDE DEF n
    <3>2. \A k \in 2..(n + 1) : raw[k - 1] = At(pos + k - 1) /\ (k \in K <=> pos + k - 1 \in H)
      BY <1>5, <3>1 DEF K
    <3>3. BadEscape(K, raw, 1) <=> \E k \in 2..(n + 1) : k \in K /\ raw[k - 1] \notin Escape
      BY <1>5 DEF BadEscape
    <3>4. ASSUME NEW k \in 2..(n + 1), k \in K, raw[k - 1] \notin Escape
          PROVE  Bad
      <4>1. pos + k - 1 \in (pos + 1)..(close - 1) /\ pos + k - 1 \in H /\ At(pos + k - 1) \notin Escape
        BY <3>1, <3>2, <3>4
      <4> QED BY <4>1 DEF Bad
    <3>5. ASSUME NEW i \in (pos + 1)..(close - 1), i \in H, At(i) \notin Escape
          PROVE  \E k \in 2..(n + 1) : k \in K /\ raw[k - 1] \notin Escape
      <4>1. i - pos + 1 \in 2..(n + 1) /\ pos + (i - pos + 1) - 1 = i
        BY <3>1
      <4>2. i - pos + 1 \in K /\ raw[(i - pos + 1) - 1] \notin Escape
        BY <3>2, <3>5, <4>1
      <4> QED BY <4>1, <4>2
    <3> QED BY <3>3, <3>4, <3>5 DEF Bad
  <2> QED BY <2>1, <2>4, <2>5 DEF raw
<1>7. ASSUME NEW k \in (pos + 1)..(Len(text) + 1), LexemeAt(pos, k)
      PROVE  k - 1 = close /\ At(close) = Quote /\ ~Bad
  <2>1. k \in Nat /\ pos \in Nat /\ pos < k
    BY <1>0, <1>7
  <2>2. StringAt(pos, k)
    BY <1>1, <1>7, <2>1, KindByFirst
  <2>3. /\ k >= pos + 2 /\ At(k - 1) = Quote
        /\ \A i \in (pos + 1)..(k - 1) : /\ At(i) = Quote => (i \in H <=> i < k - 1)
                                         /\ i \in H => At(i) \in Escape
    BY <2>2 DEF StringAt, H
  <2>4. k - 1 \in (pos + 1)..(k - 1) /\ k - 1 \notin H
    BY <1>0, <2>1, <2>3
  <2>5. ~(k - 1 < close)
    <3> SUFFICES ASSUME k - 1 < close
                 PROVE  FALSE
      OBVIOUS
    <3>1. k - 1 \in (pos + 1)..(close - 1)
      BY <1>0, <1>4, <2>1, <2>3
    <3> QED BY <1>4, <2>3, <2>4, <3>1
  <2>6. ~(k - 1 > close)
    <3> SUFFICES ASSUME k - 1 > close
                 PROVE  FALSE
      OBVIOUS
    <3>1. close \in (pos + 1)..(k - 1) /\ close < k - 1 /\ close \in 1..Len(text)
      BY <1>0, <1>4, <2>1
    <3>2. At(close) = Quote
      BY <1>0, <1>4, <3>1, AtEnd
    <3> QED BY <1>4, <2>3, <3>1, <3>2
  <2>7. k - 1 = close
    BY <1>0, <1>4, <2>1, <2>5, <2>6
  <2>8. \A i \in (pos + 1)..(close - 1) : i \in (pos + 1)..(k - 1)
    BY <1>0, <1>4, <2>7
  <2> QED BY <2>3, <2>7, <2>8
<1>8. ASSUME At(close) = End \/ size = -1
      PROVE  LexemesAt(pos) = {}
  <2>1. At(close) = Quote => Bad
    <3>1. Cardinality(Kept(K, raw, 1)) \in Nat
      BY <1>5, KeptFinite
    <3> HIDE DEF Bad, K
    <3> QED BY <1>1, <1>6, <1>8, <3>1
  <2>2. \A k \in (pos + 1)..(Len(text) + 1) : ~LexemeAt(pos, k)
    BY <1>7, <2>1
  <2> QED BY <1>0, <2>2, LexemesInText
<1>9. ASSUME At(close) # End, size # -1
      PROVE  /\ close + 1 \in (pos + 1)..(Len(text) + 1) /\ size \in Sizes
             /\ Longest(pos, close + 1) /\ size = Decoded(pos, close + 1)
  <2>1. close \in 1..Len(text) /\ close + 1 \in (pos + 1)..(Len(text) + 1) /\ At(close) = Quote
    <3>1. close \in 1..Len(text)
      BY <1>0, <1>9, AtInside
    <3> QED BY <1>0, <1>4, <1>9, <3>1
  <2>2. ~Bad /\ size = Cardinality(Kept(K, raw, 1))
    <3> HIDE DEF Bad, K
    <3> QED BY <1>6, <1>9
  <2>3. StringAt(pos, close + 1)
    <3>1. close + 1 >= pos + 2 /\ (close + 1) - 1 = close
      BY <1>0, <1>4
    <3>2. ASSUME NEW i \in (pos + 1)..close
          PROVE  /\ At(i) = Quote => (i \in H <=> i < close)
                 /\ i \in H => At(i) \in Escape
      <4>1. CASE i = close
        BY <1>0, <1>4, <2>1, <4>1
      <4>2. CASE i # close
        <5>1. i \in (pos + 1)..(close - 1) /\ i < close
          BY <1>0, <1>4, <4>2
        <5> QED BY <1>4, <2>2, <5>1
      <4> QED BY <4>1, <4>2
    <3> QED BY <2>1, <3>1, <3>2 DEF StringAt, H
  <2>4. Longest(pos, close + 1)
    <3>1. LexemeAt(pos, close + 1)
      BY <2>3 DEF LexemeAt
    <3>2. \A k \in (close + 1 + 1)..(Len(text) + 1) : k \in (pos + 1)..(Len(text) + 1) /\ k - 1 # close
      BY <1>0, <1>4
    <3>3. \A k \in (close + 1 + 1)..(Len(text) + 1) : ~LexemeAt(pos, k)
      BY <1>7, <3>2
    <3> QED BY <1>0, <2>1, <3>1, <3>3, NoLonger
  <2>5. Decoded(pos, close + 1) = Cardinality(Kept(K, raw, 1))
    <3> DEFINE w == SubSeq(text, pos, close)
               j == close + 1
    <3>1. j \in 1..(Len(text) + 1) /\ pos <= j /\ j - 1 = close /\ j - pos = n + 2
      BY <1>0, <1>4, <2>1
    <3>2. Len(w) = n + 2 /\ \A k \in 1..(n + 2) : w[k] = At(pos + k - 1)
      <4> HIDE DEF j, n, w
      <4>1. /\ Len(SubSeq(text, pos, j - 1)) = j - pos
            /\ \A k \in 1..(j - pos) : SubSeq(text, pos, j - 1)[k] = At(pos + k - 1)
        BY <1>0, <3>1, Window
      <4>2. w = SubSeq(text, pos, j - 1)
        BY <3>1 DEF w
      <4> QED BY <3>1, <4>1, <4>2
    <3>3. \A k \in 1..(n + 2) : Hidden(w, k) <=> pos + k - 1 \in H
      <4> HIDE DEF j, n
      <4> QED BY <1>0, <3>1, HiddenWindow DEF H
    <3> HIDE DEF w, n
    <3>4. /\ \A k \in 2..(n + 1) : /\ k - 1 \in 1..n /\ k \in Nat /\ pos + (k - 1) = pos + k - 1
                                   /\ k \in 1..(n + 2)
          /\ n + 2 - 1 = n + 1 /\ 1 + 1 = 2
      BY <1>0, <1>5
    <3>5. \A k \in 2..(n + 1) : (Hidden(w, k) \/ w[k] # Backslash) <=> (k \in K \/ raw[k - 1] # Backslash)
      BY <1>5, <3>2, <3>3, <3>4
    <3>6. {k \in 2..(Len(w) - 1) : Hidden(w, k) \/ w[k] # Backslash} = Kept(K, raw, 1)
      <4>1. 2..(Len(w) - 1) = 2..(n + 1) /\ (1 + 1)..(Len(raw) + 1) = 2..(n + 1)
        BY <1>5, <3>2, <3>4
      <4> HIDE DEF K
      <4> QED BY <3>5, <4>1, Zenon DEF Kept
    <3>7. Decoded(pos, close + 1) = Cardinality({k \in 2..(Len(w) - 1) : Hidden(w, k) \/ w[k] # Backslash})
      <4>1. (close + 1) - 1 = close
        BY <1>0, <1>4
      <4> QED BY <4>1, Zenon DEF Decoded, w
    <3> QED BY <3>6, <3>7, Zenon
  <2>6. size \in Sizes
    BY <1>5, Zenon DEF Sizes, raw
  <2> QED BY <2>1, <2>2, <2>4, <2>5, <2>6
<1> QED BY <1>8, <1>9
-----------------------------------------------------------------------------
\* Line and column tell where a place is.
LEMMA PlaceByLineAndColumn ==
  ASSUME NEW i \in Nat \ {0}, NEW j \in Nat \ {0}, i <= j,
         LineOf(i) = LineOf(j), i - StartOf(i) = j - StartOf(j)
  PROVE  i = j
<1>1. /\ LineOf(j) = LineOf(i) + Cardinality(Newlines(i, j))
      /\ StartOf(j) = IF Newlines(i, j) = {} THEN StartOf(i) ELSE Max(Newlines(i, j))
  BY Counted
<1>2. LineOf(i) \in Nat /\ IsFiniteSet(Newlines(i, j)) /\ Cardinality(Newlines(i, j)) \in Nat
  BY LineTyped, NewlinesFinite
<1>3. Cardinality(Newlines(i, j)) = 0
  BY <1>1, <1>2
<1>4. Newlines(i, j) = {}
  BY <1>2, <1>3, FS_EmptySet
<1>5. StartOf(j) = StartOf(i) /\ StartOf(i) \in Nat
  BY <1>1, <1>4, StartBefore
<1> QED BY <1>5

LEMMA ErrorPlace ==
  ASSUME LexTyped, errAt = <<line, col>>
  PROVE  ErrPos = pos
<1> DEFINE Good(i) == errAt = <<LineOf(i), i - StartOf(i)>>
<1>0. /\ text \in Seq(Chars) /\ pos \in 1..(Len(text) + 1) /\ Len(text) \in Nat
      /\ line = LineOf(pos) /\ col = pos - StartOf(pos)
  BY DEF LexTyped
<1>1. ErrPos = CHOOSE i \in 1..(Len(text) + 1) : Good(i)
  BY Zenon DEF ErrPos, LineOf, StartOf
<1>2. Good(pos)
  BY <1>0
<1>3. ASSUME NEW i \in 1..(Len(text) + 1), Good(i)
      PROVE  i = pos
  <2>1. LineOf(i) = LineOf(pos) /\ i - StartOf(i) = pos - StartOf(pos)
    BY <1>2, <1>3
  <2>2. i \in Nat \ {0} /\ pos \in Nat \ {0} /\ (i <= pos \/ pos <= i)
    BY <1>0
  <2> QED BY <2>1, <2>2, PlaceByLineAndColumn
<1> HIDE DEF Good
<1> QED BY <1>0, <1>1, <1>2, <1>3

\* No token starts here: no lexeme does, or a comment begins that never ends.
NoneAt(i) == \/ LexemesAt(i) = {}
             \/ At(i) = "/" /\ At(i + 1) = "*" /\ Closers(i) = {}
Fails == LexError /\ NoneAt(pos)

\* What a token is made of.
Right(kind, s, j, size) == Longest(s, j) /\ (kind = "string" => size = Decoded(s, j))
RightToken(t) == t.kind = "eof" \/ Right(t.kind, t.from, t.to, t.size)

TokensRight == \A n \in DOMAIN tokens : RightToken(tokens[n])
ErrorPlaced == lexed = "lex" => errAt = <<line, col>> /\ NoneAt(pos)

LexInv == LexTyped /\ TokensPlaced /\ Covered /\ TokensRight /\ ErrorPlaced

-----------------------------------------------------------------------------
(* The steps of the lexer *)

\* A skip of blanks or of a comment is a gap.
LEMMA SkipBlankEffect ==
  ASSUME LexTyped, SkipBlank
  PROVE  \E to \in (pos + 1)..(Len(text) + 1) : Skip(to) /\ IsGap(pos, to)
<1> DEFINE to == BlankEnd(pos)
<1>1. Skip(to) /\ At(pos) \in Blank
  BY DEF SkipBlank
<1>2. End \notin Blank
  BY LexerAssumption
<1>3. to \in pos..(Len(text) + 1) /\ to > pos /\ \A j \in pos..(to - 1) : At(j) \in Blank
  BY <1>1, <1>2, EndOfStops DEF LexTyped, BlankEnd
<1> HIDE DEF to
<1>4. IsGap(pos, to)
  BY <1>3, BlanksAreGap DEF LexTyped
<1> QED BY <1>1, <1>3, <1>4 DEF LexTyped

LEMMA SkipLineCommentEffect ==
  ASSUME LexTyped, SkipLineComment
  PROVE  \E to \in (pos + 1)..(Len(text) + 1) : Skip(to) /\ IsGap(pos, to)
<1> DEFINE T == {j \in pos..(Len(text) + 1) : At(j) \in {Newline, End}}
           to == Min(T)
<1>1. Skip(to) /\ At(pos) = "/" /\ At(pos + 1) = "/"
  BY DEF SkipLineComment
<1>2. Len(text) + 1 \in T /\ T \in SUBSET Nat
  BY AtBehind DEF LexTyped
<1>3. to \in T /\ \A j \in T : to <= j
  <2> HIDE DEF T
  <2> QED BY <1>2, Least
<1> HIDE DEF to
<1>4. to \in pos..(Len(text) + 1) /\ At(to) \in {Newline, End}
  BY <1>3
<1>5. to >= pos + 2
  <2>1. At(to) # "/"
    BY <1>4 DEF Newline, End
  <2>2. to # pos /\ to # pos + 1
    BY <1>1, <2>1
  <2> QED BY <1>4, <2>2 DEF LexTyped
<1>6. \A j \in pos..(to - 1) : At(j) # Newline
  BY <1>3, <1>4 DEF LexTyped
<1> DEFINE w == SubSeq(text, pos, to - 1)
<1>7. /\ Len(w) = to - pos /\ \A k \in 1..(to - pos) : w[k] = At(pos + k - 1)
      /\ w \in Seq(Chars)
  <2>1. pos \in 1..(Len(text) + 1) /\ to \in 1..(Len(text) + 1) /\ pos <= to
    BY <1>4 DEF LexTyped
  <2> QED BY <2>1, Window DEF LexTyped
<1>8. w \in Seq(Chars)
  BY <1>7
<1> HIDE DEF w
<1>9. w[1] = "/" /\ w[2] = "/" /\ \A k \in DOMAIN w : w[k] # Newline
  BY <1>1, <1>4, <1>5, <1>6, <1>7, <1>8 DEF LexTyped
<1>10. IsLineComment(w)
  BY <1>5, <1>7, <1>9, <1>4 DEF IsLineComment, LexTyped
<1>11. IsGap(pos, to)
  BY <1>4, <1>5, <1>10, PieceIsGap DEF Piece, w, LexTyped
<1> QED BY <1>1, <1>4, <1>5, <1>11 DEF LexTyped

LEMMA SkipBlockCommentEffect ==
  ASSUME LexTyped, SkipBlockComment
  PROVE  Fails \/ \E to \in (pos + 1)..(Len(text) + 1) : Skip(to) /\ IsGap(pos, to)
<1> SUFFICES ASSUME Closers(pos) # {}
             PROVE  \E to \in (pos + 1)..(Len(text) + 1) : Skip(to) /\ IsGap(pos, to)
  BY DEF SkipBlockComment, Fails, NoneAt
<1> DEFINE m == Min(Closers(pos))
           to == m + 2
           w == SubSeq(text, pos, to - 1)
<1>1. Skip(to) /\ At(pos) = "/" /\ At(pos + 1) = "*"
  BY DEF SkipBlockComment
<1>2. m \in Closers(pos) /\ \A j \in Closers(pos) : m <= j
  <2>1. Closers(pos) \in SUBSET Nat
    BY DEF Closers, LexTyped
  <2> QED BY <2>1, Least
<1> HIDE DEF m
<1>3. m \in (pos + 2)..Len(text) /\ At(m) = "*" /\ At(m + 1) = "/"
  BY <1>2 DEF Closers
<1>4. to \in (pos + 1)..(Len(text) + 1)
  <2>1. m + 1 \in 1..Len(text)
    BY <1>3, AtInside DEF LexTyped, End
  <2> QED BY <1>3, <2>1 DEF LexTyped
<1>5. \A j \in (pos + 2)..(m - 1) : ~(At(j) = "*" /\ At(j + 1) = "/")
  BY <1>2, <1>3 DEF Closers, LexTyped
<1>7. Len(w) = to - pos /\ \A k \in 1..(to - pos) : w[k] = At(pos + k - 1)
  <2>1. pos \in 1..(Len(text) + 1) /\ to \in 1..(Len(text) + 1) /\ pos <= to
    BY <1>4 DEF LexTyped
  <2> HIDE DEF to
  <2> QED BY <2>1, Window DEF LexTyped
<1> HIDE DEF w
<1>8. Len(w) >= 4 /\ w[1] = "/" /\ w[2] = "*"
  BY <1>1, <1>3, <1>7 DEF LexTyped
<1>9. ASSUME NEW j \in 3..(Len(w) - 1)
      PROVE  (w[j] = "*" /\ w[j + 1] = "/") <=> j = Len(w) - 1
  <2>1. w[j] = At(pos + j - 1) /\ w[j + 1] = At(pos + j)
    BY <1>3, <1>7 DEF LexTyped
  <2>2. CASE j = Len(w) - 1
    <3>1. pos + j - 1 = m /\ pos + j = m + 1
      BY <1>3, <1>7, <2>2 DEF LexTyped
    <3> QED BY <1>3, <2>1, <2>2, <3>1
  <2>3. CASE j # Len(w) - 1
    <3>1. pos + j - 1 \in (pos + 2)..(m - 1) /\ pos + j = (pos + j - 1) + 1
      BY <1>3, <1>7, <2>3 DEF LexTyped
    <3> QED BY <1>5, <2>1, <2>3, <3>1
  <2> QED BY <2>2, <2>3
<1>10. IsBlockComment(w)
  BY <1>8, <1>9 DEF IsBlockComment
<1>11. IsGap(pos, to)
  <2>1. Piece(pos, to)
    BY <1>10 DEF Piece, w
  <2> HIDE DEF to
  <2> QED BY <1>4, <2>1, PieceIsGap DEF LexTyped
<1> QED BY <1>1, <1>4, <1>11

\* A token ends behind its first character, which is not blank, and within the
\* text.
Tokens == \E to \in (pos + 1)..(Len(text) + 1), kind \in TokenKinds, size \in Sizes :
    Token(kind, to, size) /\ At(pos) \notin Blank \cup {End} /\ Right(kind, pos, to, size)

LEMMA TokenMade ==
  ASSUME NEW to \in (pos + 1)..(Len(text) + 1), NEW kind \in TokenKinds, NEW size \in Sizes,
         Token(kind, to, size), At(pos) \notin Blank \cup {End}, Right(kind, pos, to, size)
  PROVE  Tokens
BY Zenon DEF Tokens

LEMMA NumberEffect ==
  ASSUME LexTyped, Number
  PROVE  Tokens
<1>1. At(pos) \in Digit /\ Token("number", NumberEnd(pos), 0)
  BY DEF Number
<1>2. NumberEnd(pos) \in (pos + 1)..(Len(text) + 1) /\ Right("number", pos, NumberEnd(pos), 0)
  BY <1>1, NumberIsLongest DEF Right
<1>3. At(pos) \notin Blank \cup {End} /\ "number" \in TokenKinds /\ 0 \in Sizes
  BY <1>1, LexerAssumption DEF Sizes, TokenKinds
<1> QED BY <1>1, <1>2, <1>3, TokenMade, Zenon

LEMMA StringEffect ==
  ASSUME LexTyped, String
  PROVE  Fails \/ Tokens
<1> DEFINE close == Closing[pos + 1]
           size == Unescape(SubSeq(text, pos + 1, close - 1))
<1>1. At(pos) = Quote
  BY DEF String
<1>2. IF At(close) = End \/ size = -1 THEN LexError ELSE Token("string", close + 1, size)
  BY Zenon DEF String
<1> HIDE DEF close, size
<1>3. /\ At(close) = End \/ size = -1 => LexemesAt(pos) = {}
      /\ At(close) # End /\ size # -1 =>
            /\ close + 1 \in (pos + 1)..(Len(text) + 1) /\ size \in Sizes
            /\ Longest(pos, close + 1) /\ size = Decoded(pos, close + 1)
  BY <1>1, StringIsLongest DEF close, size
<1>4. CASE At(close) = End \/ size = -1
  BY <1>2, <1>3, <1>4 DEF Fails, NoneAt
<1>5. CASE At(close) # End /\ size # -1
  <2>1. Token("string", close + 1, size) /\ Right("string", pos, close + 1, size)
    BY <1>2, <1>3, <1>5 DEF Right
  <2>2. At(pos) \notin Blank \cup {End} /\ "string" \in TokenKinds
    BY <1>1, LexerAssumption DEF TokenKinds, Quote, End
  <2> QED BY <1>3, <1>5, <2>1, <2>2, TokenMade, Zenon
<1> QED BY <1>4, <1>5

LEMMA WordEffect ==
  ASSUME LexTyped, Word
  PROVE  Tokens
<1> DEFINE to == EndOf(Letter \cup Digit, pos)
<1>1. At(pos) \in Letter /\ Token("word", to, 0)
  BY DEF Word
<1>2. to \in (pos + 1)..(Len(text) + 1) /\ Right("word", pos, to, 0)
  BY <1>1, WordIsLongest DEF Right
<1> HIDE DEF to
<1>3. At(pos) \notin Blank \cup {End} /\ "word" \in TokenKinds /\ 0 \in Sizes
  BY <1>1, LexerAssumption DEF Sizes, TokenKinds
<1> QED BY <1>1, <1>2, <1>3, TokenMade, Zenon

LEMMA PunctuationEffect ==
  ASSUME LexTyped, Punctuation
  PROVE  Fails \/ Tokens
<1>1. At(pos) \in Operator \cup DOMAIN Doubled
  BY DEF Punctuation
<1>2. At(pos) \notin Blank \cup {End} /\ "op" \in TokenKinds /\ 0 \in Sizes
  BY <1>1, LexerAssumption DEF Sizes, TokenKinds
<1>3. CASE IsDoubled /\ Token("op", pos + 2, 0)
  <2>1. pos + 2 \in (pos + 1)..(Len(text) + 1) /\ Right("op", pos, pos + 2, 0)
    BY <1>1, <1>3, PunctuationIsLongest DEF Right
  <2> QED BY <1>2, <1>3, <2>1, TokenMade, Zenon
<1>4. CASE ~IsDoubled /\ At(pos) \in Operator /\ Token("op", pos + 1, 0)
  <2>1. pos + 1 \in (pos + 1)..(Len(text) + 1) /\ Right("op", pos, pos + 1, 0)
    BY <1>1, <1>4, PunctuationIsLongest DEF Right
  <2> QED BY <1>2, <1>4, <2>1, TokenMade, Zenon
<1>5. CASE ~IsDoubled /\ At(pos) \notin Operator /\ LexError
  BY <1>1, <1>5, PunctuationIsLongest DEF Fails, NoneAt
<1> QED BY <1>3, <1>4, <1>5 DEF Punctuation

LEMMA UnexpectedEffect ==
  ASSUME LexTyped, Unexpected
  PROVE  Fails
<1>1. LexError /\ At(pos) \notin Letter \cup Digit \cup Operator \cup DOMAIN Doubled \cup {Quote}
  BY DEF Unexpected
<1>2. text \in Seq(Chars) /\ pos \in 1..(Len(text) + 1) /\ Len(text) \in Nat
  BY DEF LexTyped
<1>3. ASSUME NEW j \in (pos + 1)..(Len(text) + 1), LexemeAt(pos, j)
      PROVE  FALSE
  <2>1. pos \in Nat /\ j \in Nat /\ pos < j
    BY <1>2
  <2> QED BY <1>1, <1>3, <2>1, KindByFirst
<1>4. LexemesAt(pos) = {}
  BY <1>2, <1>3, LexemesInText
<1> QED BY <1>1, <1>4 DEF Fails, NoneAt
-----------------------------------------------------------------------------
\* A step of the lexer skips blanks or a comment, makes a token, fails or is
\* at the end.
LEMMA TokenizeEffect ==
  ASSUME LexTyped, Tokenize
  PROVE  \/ \E to \in (pos + 1)..(Len(text) + 1) : Skip(to) /\ IsGap(pos, to)
         \/ Tokens
         \/ Fails
         \/ EndOfText
BY SkipBlankEffect, SkipLineCommentEffect, SkipBlockCommentEffect,
   NumberEffect, StringEffect, WordEffect, PunctuationEffect, UnexpectedEffect
   DEF Tokenize
-----------------------------------------------------------------------------
\* What stands in the text is the same after a step that leaves it alone.
LEMMA TextFixed ==
  ASSUME text' = text
  PROVE  /\ \A i : At(i)' = At(i)
         /\ \A i : LineOf(i)' = LineOf(i) /\ StartOf(i)' = StartOf(i)
         /\ \A i, j : IsGap(i, j)' <=> IsGap(i, j)
<1>1. \A i : At(i)' = At(i)
  BY DEF At
<1>2. \A i : LineOf(i)' = LineOf(i) /\ StartOf(i)' = StartOf(i)
  BY <1>1 DEF LineOf, StartOf, Newlines
<1>3. ASSUME NEW i, NEW j
      PROVE  IsGap(i, j)' <=> IsGap(i, j)
  BY <1>1, Zenon DEF IsGap
<1> QED BY <1>1, <1>2, <1>3

LEMMA PlacesFixed ==
  ASSUME text' = text
  PROVE  /\ LineOf(pos)' = LineOf(pos') /\ StartOf(pos)' = StartOf(pos')
         /\ IsGap(LastTo, pos)' = IsGap(LastTo', pos')
<1>1. \A i : At(i)' = At(i)
  BY TextFixed
<1>2. LineOf(pos)' = LineOf(pos') /\ StartOf(pos)' = StartOf(pos')
  BY <1>1 DEF LineOf, StartOf, Newlines
<1>3. IsGap(LastTo, pos)' = IsGap(LastTo', pos')
  BY <1>1, Zenon DEF IsGap
<1> QED BY <1>2, <1>3

\* What stands before a token.
GapBefore(n) == IsGap(IF n = 1 THEN 1 ELSE tokens[n - 1].to, tokens[n].from)

LEMMA GapFixed ==
  ASSUME text' = text, NEW n
  PROVE  GapBefore(n)' <=> IsGap(IF n = 1 THEN 1 ELSE tokens'[n - 1].to, tokens'[n].from)
<1>1. \A i : At(i)' = At(i)
  BY TextFixed
<1> QED BY <1>1, Zenon DEF GapBefore, IsGap

\* So are the lexemes.
LEMMA LexemesFixed ==
  ASSUME text' = text
  PROVE  /\ TokensRight' <=> \A n \in DOMAIN tokens' : RightToken(tokens'[n])
         /\ pos' = pos => (NoneAt(pos)' <=> NoneAt(pos))
<1>1. \A i : At(i)' = At(i)
  BY TextFixed
<1>2. \A i : LexemesAt(i)' = LexemesAt(i)
  BY Zenon DEF LexemesAt
<1>3. \A i, j : (Longest(i, j)' <=> Longest(i, j)) /\ Decoded(i, j)' = Decoded(i, j)
  BY <1>2, Zenon DEF Longest, Decoded
<1>4. TokensRight' <=> \A n \in DOMAIN tokens' : RightToken(tokens'[n])
  BY Zenon DEF TokensRight, RightToken, Right, Longest, LexemesAt, Decoded
<1>5. ASSUME pos' = pos
      PROVE  NoneAt(pos)' <=> NoneAt(pos)
  BY <1>1, <1>5, Zenon DEF NoneAt, LexemesAt, Closers
<1> QED BY <1>4, <1>5

\* A token that is made keeps the others, and they their places.
LEMMA TokensGrow ==
  ASSUME LexInv, lexed = "todo", text' = text, NEW t \in TokenSet, tokens' = Append(tokens, t),
         pos' \in pos..(Len(text) + 1), t.from = pos, t.to = pos', t.line = LineOf(pos),
         t.kind = "eof" \/ At(pos) \notin Blank \cup {End}, RightToken(t)
  PROVE  /\ tokens' \in Seq(TokenSet) /\ TokensPlaced' /\ GapsAreBlank' /\ TokensRight'
         /\ LastTo' = pos'
<1> DEFINE N == Len(tokens)
<1>0. /\ N \in Nat /\ tokens \in Seq(TokenSet) /\ DOMAIN tokens = 1..N
      /\ pos \in 1..(Len(text) + 1) /\ Len(text) \in Nat
  BY DEF LexInv, LexTyped
<1>1. /\ tokens' \in Seq(TokenSet) /\ Len(tokens') = N + 1 /\ DOMAIN tokens' = 1..(N + 1)
      /\ tokens'[N + 1] = t /\ \A n \in 1..N : tokens'[n] = tokens[n]
  BY <1>0, AppendProperties
<1> HIDE DEF N
<1>2. LastTo' = pos'
  <2>1. tokens' # <<>>
    BY <1>0, <1>1
  <2> QED BY <1>1, <2>1 DEF LastTo
<1>3. ASSUME NEW n \in 1..(N + 1)
      PROVE  /\ tokens'[n].from >= 1 /\ tokens'[n].from <= tokens'[n].to /\ tokens'[n].to <= pos'
             /\ tokens'[n].line = LineOf(tokens'[n].from)
             /\ tokens'[n].kind = "eof" \/ At(tokens'[n].from) \notin Blank \cup {End}
  <2>1. CASE n = N + 1
    BY <1>0, <1>1, <2>1
  <2>2. CASE n # N + 1
    <3>1. n \in 1..N /\ tokens'[n] = tokens[n] /\ n \in DOMAIN tokens
      BY <1>0, <1>1, <2>2
    <3>2. tokens[n] \in TokenSet
      BY <1>0, <3>1
    <3>3. tokens[n].to \in Nat
      BY <3>2 DEF TokenSet
    <3>4. /\ tokens[n].from >= 1 /\ tokens[n].from <= tokens[n].to /\ tokens[n].to <= pos
          /\ tokens[n].line = LineOf(tokens[n].from)
          /\ tokens[n].kind = "eof" \/ At(tokens[n].from) \notin Blank \cup {End}
      BY <3>1 DEF LexInv, TokensPlaced
    <3>5. tokens[n].to <= pos'
      BY <1>0, <3>3, <3>4
    <3> QED BY <3>1, <3>4, <3>5
  <2> QED BY <2>1, <2>2
<1>4. TokensPlaced'
  <2>1. \A i : At(i)' = At(i)
    BY TextFixed
  <2>2. TokensPlaced' <=> \A n \in DOMAIN tokens' :
          /\ tokens'[n].from >= 1 /\ tokens'[n].from <= tokens'[n].to /\ tokens'[n].to <= pos'
          /\ tokens'[n].line = LineOf(tokens'[n].from)
          /\ tokens'[n].kind = "eof" \/ At(tokens'[n].from) \notin Blank \cup {End}
    BY <2>1, Zenon DEF TokensPlaced, LineOf, Newlines
  <2> QED BY <1>1, <1>3, <2>2
<1>5. ASSUME NEW n \in 1..(N + 1)
      PROVE  GapBefore(n)'
  <2>1. CASE n = N + 1
    <3>1. IsGap(LastTo, pos)
      BY DEF LexInv, Covered
    <3>2. LastTo = IF n = 1 THEN 1 ELSE tokens'[n - 1].to
      <4>1. CASE N = 0
        BY <1>0, <2>1, <4>1 DEF LastTo, N
      <4>2. CASE N # 0
        <5>1. tokens # <<>> /\ N \in 1..N /\ n - 1 = N /\ n # 1
          BY <1>0, <2>1, <4>2 DEF N
        <5>2. LastTo = tokens[N].to
          BY <5>1 DEF LastTo, N
        <5> QED BY <1>1, <5>1, <5>2
      <4> QED BY <4>1, <4>2
    <3>3. tokens'[n].from = pos
      BY <1>1, <2>1
    <3> QED BY <3>1, <3>2, <3>3, GapFixed, Zenon
  <2>2. CASE n # N + 1
    <3>1. n \in 1..N /\ (n # 1 => n - 1 \in 1..N)
      BY <1>0, <2>2
    <3>2. tokens'[n] = tokens[n] /\ (n # 1 => tokens'[n - 1] = tokens[n - 1])
      BY <1>1, <3>1
    <3>3. IsGap(IF n = 1 THEN 1 ELSE tokens[n - 1].to, tokens[n].from)
      BY <1>0, <3>1 DEF LexInv, Covered, GapsAreBlank
    <3>4. IsGap(IF n = 1 THEN 1 ELSE tokens'[n - 1].to, tokens'[n].from)
      BY <3>2, <3>3, Zenon
    <3> QED BY <3>4, GapFixed, Zenon
  <2> QED BY <2>1, <2>2
<1>6. GapsAreBlank'
  <2>1. GapsAreBlank <=> \A n \in DOMAIN tokens : GapBefore(n)
    BY Zenon DEF GapsAreBlank, GapBefore
  <2>2. GapsAreBlank' <=> \A n \in DOMAIN tokens' : GapBefore(n)'
    BY Zenon DEF GapsAreBlank, GapBefore
  <2> QED BY <1>1, <1>5, <2>2
<1>7. TokensRight'
  <2>1. \A n \in 1..(N + 1) : n = N + 1 \/ (n \in 1..N /\ n \in DOMAIN tokens)
    BY <1>0
  <2>2. \A n \in DOMAIN tokens' : RightToken(tokens'[n])
    BY <1>1, <2>1 DEF LexInv, TokensRight
  <2> QED BY <2>2, LexemesFixed
<1> QED BY <1>1, <1>2, <1>4, <1>6, <1>7

\* Each step keeps what the lexer relies on.
LEMMA TokenizeKeeps ==
  ASSUME LexInv, Tokenize
  PROVE  LexInv'
<1>0. /\ text \in Seq(Chars) /\ tokens \in Seq(TokenSet) /\ Len(text) \in Nat /\ lexed = "todo"
      /\ pos \in 1..(Len(text) + 1) /\ pos \in Nat \ {0} /\ line = LineOf(pos) /\ col = pos - StartOf(pos)
  BY DEF LexInv, LexTyped, Tokenize, SkipBlank, SkipLineComment, SkipBlockComment, Number, String,
         Word, Punctuation, Unexpected, EndOfText, Lexing
<1>1. text' = text
  <2>1. \/ \E to \in (pos + 1)..(Len(text) + 1) : Skip(to)
        \/ Tokens \/ LexError \/ EndOfText
    BY TokenizeEffect DEF LexInv, Fails
  <2> QED BY <2>1 DEF Skip, Tokens, Token, LexError, EndOfText
<1>2. /\ LineOf(pos)' = LineOf(pos') /\ StartOf(pos)' = StartOf(pos')
      /\ IsGap(LastTo, pos)' <=> IsGap(LastTo', pos')
      /\ \A i, j : IsGap(i, j)' <=> IsGap(i, j)
      /\ \A i : At(i)' = At(i) /\ LineOf(i)' = LineOf(i)
  BY <1>1, TextFixed, PlacesFixed
<1>3. CASE \E to \in (pos + 1)..(Len(text) + 1) : Skip(to) /\ IsGap(pos, to)
  <2>1. PICK to \in (pos + 1)..(Len(text) + 1) : Skip(to) /\ IsGap(pos, to)
    BY <1>3
  <2>2. to \in Nat /\ pos <= to /\ Advance(to) /\ tokens' = tokens /\ lexed' = lexed
    BY <1>0, <2>1 DEF Skip
  <2>3. pos' = to /\ line' = LineOf(to) /\ col' = to - StartOf(to)
    BY <1>0, <2>2, AdvanceCounts
  <2>4. LexTyped'
    BY <1>0, <1>1, <1>2, <2>1, <2>2, <2>3 DEF LexTyped
  <2>5. LastTo' = LastTo /\ LastTo \in Nat /\ LastTo <= pos
    <3>1. LastTo' = LastTo
      BY <2>2 DEF LastTo
    <3>2. CASE tokens = <<>>
      BY <1>0, <3>1, <3>2 DEF LastTo
    <3>3. CASE tokens # <<>>
      <4>1. Len(tokens) \in DOMAIN tokens /\ tokens[Len(tokens)] \in TokenSet
        BY <1>0, <3>3
      <4>2. tokens[Len(tokens)].to \in Nat /\ tokens[Len(tokens)].to <= pos
        BY <4>1 DEF TokenSet, LexInv, TokensPlaced
      <4> QED BY <3>1, <3>3, <4>2 DEF LastTo
    <3> QED BY <3>2, <3>3
  <2>6. TokensPlaced'
    <3>1. \A n \in DOMAIN tokens : tokens[n].to <= to
      <4> SUFFICES ASSUME NEW n \in DOMAIN tokens
                   PROVE  tokens[n].to <= to
        OBVIOUS
      <4>1. tokens[n] \in TokenSet
        BY <1>0
      <4>2. tokens[n].to \in Nat /\ tokens[n].to <= pos
        BY <4>1 DEF TokenSet, LexInv, TokensPlaced
      <4> QED BY <1>0, <2>2, <4>2
    <3>2. TokensPlaced' <=> \A n \in DOMAIN tokens :
            /\ tokens[n].from >= 1 /\ tokens[n].from <= tokens[n].to /\ tokens[n].to <= to
            /\ tokens[n].line = LineOf(tokens[n].from)
            /\ tokens[n].kind = "eof" \/ At(tokens[n].from) \notin Blank \cup {End}
      BY <1>2, <2>2, <2>3, Zenon DEF TokensPlaced, LineOf, Newlines
    <3> QED BY <3>1, <3>2 DEF LexInv, TokensPlaced
  <2>7. GapsAreBlank'
    <3>1. ASSUME NEW n \in DOMAIN tokens
          PROVE  GapBefore(n)'
      <4>1. IsGap(IF n = 1 THEN 1 ELSE tokens[n - 1].to, tokens[n].from)
        BY Zenon DEF LexInv, Covered, GapsAreBlank
      <4> QED BY <1>1, <2>2, <4>1, GapFixed, Zenon
    <3>2. GapsAreBlank' <=> \A n \in DOMAIN tokens' : GapBefore(n)'
      BY Zenon DEF GapsAreBlank, GapBefore
    <3> QED BY <2>2, <3>1, <3>2
  <2>8. IsGap(LastTo, to)
    BY <1>0, <2>1, <2>2, <2>5, GapsJoin DEF LexInv, Covered
  <2>9. Covered'
    BY <1>2, <2>3, <2>5, <2>7, <2>8 DEF Covered
  <2>10. TokensRight'
    BY <1>1, <2>2, LexemesFixed DEF LexInv, TokensRight
  <2> QED BY <1>0, <2>2, <2>4, <2>6, <2>9, <2>10 DEF LexInv, ErrorPlaced
<1>4. CASE Tokens
  <2>1. PICK to \in (pos + 1)..(Len(text) + 1), kind \in TokenKinds, size \in Sizes :
          /\ Token(kind, to, size) /\ At(pos) \notin Blank \cup {End}
          /\ Right(kind, pos, to, size)
    BY <1>4, Zenon DEF Tokens
  <2> DEFINE t == [kind |-> kind, from |-> pos, to |-> to, line |-> line, size |-> size]
  <2>2. /\ to \in Nat /\ pos <= to /\ to <= Len(text) + 1 /\ Advance(to)
        /\ tokens' = Append(tokens, t) /\ lexed' = lexed
    BY <1>0, <2>1 DEF Token
  <2>3. pos' = to /\ line' = LineOf(to) /\ col' = to - StartOf(to)
    BY <1>0, <2>2, AdvanceCounts
  <2>4. t \in TokenSet
    <3>1. line \in Nat
      BY <1>0, LineTyped
    <3> QED BY <1>0, <2>1, <2>2, <3>1 DEF TokenSet
  <2>5. t.from = pos /\ t.to = pos' /\ t.line = LineOf(pos) /\ RightToken(t)
    BY <1>0, <2>1, <2>3 DEF RightToken
  <2> HIDE DEF t
  <2>6. /\ tokens' \in Seq(TokenSet) /\ TokensPlaced' /\ GapsAreBlank' /\ TokensRight'
        /\ LastTo' = pos'
    <3>1. pos' \in pos..(Len(text) + 1)
      BY <1>0, <2>2, <2>3
    <3> QED BY <1>0, <1>1, <2>1, <2>2, <2>4, <2>5, <3>1, TokensGrow
  <2>7. LexTyped'
    BY <1>0, <1>1, <1>2, <2>1, <2>2, <2>3, <2>6 DEF LexTyped
  <2>8. Covered'
    <3>1. IsGap(to, to)
      BY <2>2, EmptyGap
    <3> QED BY <1>2, <2>3, <2>6, <3>1 DEF Covered
  <2> QED BY <1>0, <2>2, <2>6, <2>7, <2>8 DEF LexInv, ErrorPlaced
<1>5. CASE Fails
  <2>1. /\ tokens' = <<>> /\ lexed' = "lex" /\ pos' = pos /\ line' = line /\ col' = col
        /\ errAt' = <<line, col>> /\ NoneAt(pos)
    BY <1>5 DEF Fails, LexError
  <2>2. LexTyped'
    BY <1>0, <1>1, <1>2, <2>1 DEF LexTyped
  <2>3. TokensPlaced' /\ GapsAreBlank'
    BY <2>1 DEF TokensPlaced, GapsAreBlank
  <2>4. TokensRight' /\ ErrorPlaced'
    BY <1>1, <2>1, LexemesFixed DEF TokensRight, ErrorPlaced
  <2> QED BY <2>1, <2>2, <2>3, <2>4 DEF LexInv, Covered
<1>6. CASE EndOfText
  <2> DEFINE t == [kind |-> "eof", from |-> pos, to |-> pos, line |-> line, size |-> 0]
  <2>1. /\ tokens' = Append(tokens, t) /\ lexed' = "ok" /\ pos' = pos /\ line' = line /\ col' = col
    BY <1>6 DEF EndOfText
  <2>2. t \in TokenSet
    <3>1. line \in Nat
      BY <1>0, LineTyped
    <3> QED BY <1>0, <3>1 DEF TokenSet, Sizes
  <2>3. t.from = pos /\ t.to = pos' /\ t.line = LineOf(pos) /\ t.kind = "eof" /\ RightToken(t)
    BY <1>0, <2>1 DEF RightToken
  <2> HIDE DEF t
  <2>4. tokens' \in Seq(TokenSet) /\ TokensPlaced' /\ GapsAreBlank' /\ TokensRight'
    <3>1. pos' \in pos..(Len(text) + 1)
      BY <1>0, <2>1
    <3> QED BY <1>0, <1>1, <2>1, <2>2, <2>3, <3>1, TokensGrow
  <2>5. LexTyped'
    BY <1>0, <1>1, <1>2, <2>1, <2>4 DEF LexTyped
  <2> QED BY <2>1, <2>4, <2>5 DEF LexInv, Covered, ErrorPlaced
<1>7. LexTyped
  BY DEF LexInv
<1> QED BY <1>3, <1>4, <1>5, <1>6, <1>7, TokenizeEffect
-----------------------------------------------------------------------------
(* The text that the preprocessor hands to the lexer *)

\* The text of the n-th line that was copied.
LineText(n) == disk[out[n].file][out[n].line].text

\* The newlines of s before place i.
Ends(s, i) == {m \in 1..(i - 1) : s[m] = Newline}

\* s has the first k lines that were copied, each ended.
Lined(s, k) ==
    /\ Cardinality(Ends(s, Len(s) + 1)) = k
    /\ Max({0} \cup Ends(s, Len(s) + 1)) = Len(s)
    /\ \A i \in 1..Len(s) : s[i] # Newline =>
          /\ 1 + Cardinality(Ends(s, i)) \in 1..k
          /\ i - Max({0} \cup Ends(s, i)) \in DOMAIN LineText(1 + Cardinality(Ends(s, i)))
          /\ LineText(1 + Cardinality(Ends(s, i)))[i - Max({0} \cup Ends(s, i))] = s[i]

LEMMA EndsFinite ==
  ASSUME NEW s, NEW i \in Nat
  PROVE  Ends(s, i) \in SUBSET (1..(i - 1)) /\ IsFiniteSet(Ends(s, i))
<1>1. Ends(s, i) \in SUBSET (1..(i - 1))
  BY DEF Ends
<1>2. IsFiniteSet(1..(i - 1))
  BY FS_Interval
<1> QED BY <1>1, <1>2, FS_Subset

LEMMA NothingLined == Lined(<<>>, 0)
<1>1. Ends(<<>>, Len(<<>>) + 1) = {} /\ Len(<<>>) = 0
  BY DEF Ends
<1>2. {0} \cup {} = {0} /\ Max({0}) = 0
  <2>1. {0} \in SUBSET Nat /\ {0} # {} /\ \A x \in {0} : x <= 0
    OBVIOUS
  <2> QED BY <2>1, Greatest
<1>3. 1..Len(<<>>) = {} /\ Cardinality({}) = 0
  BY <1>1, FS_EmptySet
<1>4. /\ Cardinality(Ends(<<>>, Len(<<>>) + 1)) = 0
      /\ Max({0} \cup Ends(<<>>, Len(<<>>) + 1)) = Len(<<>>)
  BY <1>1, <1>2, <1>3
<1> QED BY <1>3, <1>4, Zenon DEF Lined

LEMMA LineAppended ==
  ASSUME NEW s \in Seq(Chars), NEW k \in Nat, Lined(s, k), LineText(k + 1) \in Seq(Chars),
         \A j \in DOMAIN LineText(k + 1) : LineText(k + 1)[j] # Newline
  PROVE  Lined(s \o Append(LineText(k + 1), Newline), k + 1)
<1> DEFINE t == LineText(k + 1)
           e == Append(t, Newline)
           r == s \o e
<1>1. /\ Len(s) \in Nat /\ Len(t) \in Nat /\ Len(e) = Len(t) + 1 /\ Len(r) = Len(s) + Len(t) + 1
      /\ DOMAIN t = 1..Len(t)
      /\ \A i \in 1..Len(s) : r[i] = s[i]
      /\ \A i \in (Len(s) + 1)..(Len(s) + Len(t)) : i - Len(s) \in 1..Len(t) /\ r[i] = t[i - Len(s)]
      /\ r[Len(s) + Len(t) + 1] = Newline
  <2>1. e \in Seq(Chars) /\ Len(e) = Len(t) + 1 /\ e[Len(t) + 1] = Newline
        /\ \A j \in 1..Len(t) : e[j] = t[j]
    <3>1. Newline \in Chars
      BY DEF Chars, Newline, End
    <3> QED BY <3>1, AppendProperties
  <2>2. Len(s) \in Nat /\ Len(t) \in Nat /\ DOMAIN t = 1..Len(t)
    OBVIOUS
  <2> HIDE DEF e, t
  <2>3. /\ Len(r) = Len(s) + Len(e)
        /\ \A i \in 1..(Len(s) + Len(e)) : r[i] = IF i <= Len(s) THEN s[i] ELSE e[i - Len(s)]
    BY <2>1, ConcatProperties
  <2> HIDE DEF r
  <2>4. \A i \in 1..Len(s) : r[i] = s[i]
    BY <2>1, <2>2, <2>3
  <2>5. ASSUME NEW i \in (Len(s) + 1)..(Len(s) + Len(t))
        PROVE  i - Len(s) \in 1..Len(t) /\ r[i] = t[i - Len(s)]
    <3>1. i \in 1..(Len(s) + Len(e)) /\ ~(i <= Len(s)) /\ i - Len(s) \in 1..Len(t)
      BY <2>1, <2>2
    <3>2. r[i] = e[i - Len(s)]
      BY <2>3, <3>1
    <3> QED BY <2>1, <3>1, <3>2
  <2>6. r[Len(s) + Len(t) + 1] = Newline
    <3>1. Len(s) + Len(t) + 1 \in 1..(Len(s) + Len(e)) /\ ~(Len(s) + Len(t) + 1 <= Len(s))
          /\ (Len(s) + Len(t) + 1) - Len(s) = Len(t) + 1
      BY <2>1, <2>2
    <3> QED BY <2>1, <2>3, <3>1
  <2> QED BY <2>1, <2>2, <2>3, <2>4, <2>5, <2>6
<1>2. \A j \in 1..Len(t) : t[j] # Newline
  BY <1>1
<1> DEFINE N == Len(s)
           L == Len(t)
           E == Ends(s, N + 1)
<1> HIDE DEF e, r
<1>3. Cardinality(E) = k /\ Max({0} \cup E) = N /\ N \in Nat /\ L \in Nat
      /\ IsFiniteSet(E) /\ E \in SUBSET (1..N)
  <2>1. N + 1 \in Nat /\ (N + 1) - 1 = N
    BY <1>1
  <2>2. E \in SUBSET (1..N) /\ IsFiniteSet(E)
    BY <2>1, EndsFinite
  <2> QED BY <1>1, <2>2 DEF Lined
<1>4. \A i \in 1..N : Ends(r, i) = Ends(s, i)
  <2> SUFFICES ASSUME NEW i \in 1..N
               PROVE  Ends(r, i) = Ends(s, i)
    OBVIOUS
  <2>1. \A m \in 1..(i - 1) : r[m] = s[m]
    BY <1>1
  <2> QED BY <2>1 DEF Ends
<1>5. \A i \in (N + 1)..(N + L + 1) : Ends(r, i) = E
  <2> SUFFICES ASSUME NEW i \in (N + 1)..(N + L + 1)
               PROVE  Ends(r, i) = E
    OBVIOUS
  <2>1. \A m \in 1..(i - 1) : IF m <= N THEN m \in 1..N /\ r[m] = s[m]
                              ELSE r[m] # Newline
    <3> SUFFICES ASSUME NEW m \in 1..(i - 1)
                 PROVE  IF m <= N THEN m \in 1..N /\ r[m] = s[m] ELSE r[m] # Newline
      OBVIOUS
    <3>1. CASE m <= N
      BY <1>1, <3>1
    <3>2. CASE ~(m <= N)
      <4>1. m \in (N + 1)..(N + L)
        BY <1>3, <3>2
      <4> QED BY <1>1, <1>2, <3>2, <4>1
    <3> QED BY <3>1, <3>2
  <2>2. \A m \in 1..N : m \in 1..(i - 1) /\ m <= N
    BY <1>3
  <2>3. E = {m \in 1..N : s[m] = Newline}
    <3>1. (N + 1) - 1 = N
      BY <1>3
    <3> QED BY <3>1 DEF Ends
  <2> HIDE DEF E
  <2> QED BY <2>1, <2>2, <2>3 DEF Ends
<1>6. Ends(r, Len(r) + 1) = E \cup {N + L + 1} /\ N + L + 1 \notin E
  <2>1. Ends(r, N + L + 1) = E
    BY <1>3, <1>5
  <2>2. Len(r) + 1 = (N + L + 1) + 1
    BY <1>1
  <2>3. 1..((Len(r) + 1) - 1) = 1..((N + L + 1) - 1) \cup {N + L + 1}
    BY <1>3, <2>2
  <2>4. r[N + L + 1] = Newline
    BY <1>1
  <2>5. Ends(r, Len(r) + 1) = Ends(r, N + L + 1) \cup {N + L + 1}
    BY <2>3, <2>4 DEF Ends
  <2>6. N + L + 1 \notin E
    BY <1>3
  <2> QED BY <2>1, <2>5, <2>6
<1>7. Cardinality(Ends(r, Len(r) + 1)) = k + 1
  BY <1>3, <1>6, FS_AddElement
<1>8. Max({0} \cup Ends(r, Len(r) + 1)) = Len(r)
  <2> DEFINE S == {0} \cup Ends(r, Len(r) + 1)
  <2>1. S \in SUBSET Nat /\ S # {} /\ N + L + 1 \in S /\ \A x \in S : x <= N + L + 1
    BY <1>3, <1>6
  <2>2. Max(S) \in S /\ \A x \in S : x <= Max(S)
    <3> HIDE DEF S
    <3> QED BY <1>3, <2>1, Greatest
  <2>3. Max(S) = N + L + 1
    <3> HIDE DEF S
    <3>1. Max(S) \in Nat /\ Max(S) <= N + L + 1 /\ N + L + 1 <= Max(S)
      BY <2>1, <2>2
    <3> QED BY <1>3, <3>1
  <2> QED BY <1>1, <2>3
<1>9. ASSUME NEW i \in 1..Len(r), r[i] # Newline
      PROVE  /\ 1 + Cardinality(Ends(r, i)) \in 1..(k + 1)
             /\ i - Max({0} \cup Ends(r, i)) \in DOMAIN LineText(1 + Cardinality(Ends(r, i)))
             /\ LineText(1 + Cardinality(Ends(r, i)))[i - Max({0} \cup Ends(r, i))] = r[i]
  <2>1. CASE i <= N
    <3>1. i \in 1..N /\ r[i] = s[i] /\ Ends(r, i) = Ends(s, i)
      <4>1. i \in 1..N
        BY <1>1, <1>3, <2>1
      <4> QED BY <1>1, <1>4, <4>1
    <3>2. 1 + Cardinality(Ends(s, i)) \in 1..k => 1 + Cardinality(Ends(s, i)) \in 1..(k + 1)
      OBVIOUS
    <3> QED BY <1>9, <3>1, <3>2 DEF Lined
  <2>2. CASE ~(i <= N)
    <3>1. i \in (N + 1)..(N + L + 1) /\ i # N + L + 1
      BY <1>1, <1>3, <1>9, <2>2
    <3>2. Ends(r, i) = E /\ i \in (N + 1)..(N + L)
      BY <1>3, <1>5, <3>1
    <3>3. 1 + Cardinality(Ends(r, i)) = k + 1 /\ Max({0} \cup Ends(r, i)) = N
      BY <1>3, <3>2
    <3>4. i - N \in 1..L /\ r[i] = t[i - N]
      BY <1>1, <3>2
    <3> QED BY <1>1, <3>3, <3>4
  <2> QED BY <2>1, <2>2
<1>10. Lined(r, k + 1)
  BY <1>7, <1>8, <1>9 DEF Lined
<1> QED BY <1>10 DEF r, e
-----------------------------------------------------------------------------
\* Frontend.

\* What main has allocated and not freed between two stages.
HeldByStage == /\ stage \in {"preprocess", "lex", "parse", "compile", "run", "exited"}
               /\ stage \in {"preprocess", "exited"} => held = {}
               /\ stage = "lex" => held = {"src"}
               /\ stage = "parse" => held = {"tokens"}
               /\ stage = "compile" => held = {"program"}
               /\ stage = "run" => held = {"chunk", "vm"}

\* Only the stage "preprocess" touches what the preprocessor keeps.
LEMMA StageSteps ==
  ASSUME [Next]_vars
  PROVE  Expand \/ UNCHANGED importVars
BY DEF Next, vars, Preprocess, Preprocessed, PreprocessFailed, Lex, LexDone, Parse, Compile, Run

\* The text the preprocessor hands to the lexer, when it has any.
Whole == FlattenSeq([n \in DOMAIN out |-> Copied(n)])

CleanLines ==
    \A f \in File : \A i \in DOMAIN disk[f] : \A j \in DOMAIN disk[f][i].text :
        disk[f][i].text[j] \notin {Newline, End}

LEMMA WholeIsLines ==
  ASSUME Typed, CleanLines, out # <<>>
  PROVE  Whole \in Seq(Chars) /\ Lined(Whole, Len(out))
<1> DEFINE N == Len(out)
           ss == [n \in DOMAIN out |-> Copied(n)]
<1>1. N \in Nat /\ N # 0 /\ DOMAIN out = 1..N
  BY DEF Typed
<1>2. ASSUME NEW n \in 1..N
      PROVE  /\ LineText(n) \in Seq(Chars) /\ \A j \in DOMAIN LineText(n) : LineText(n)[j] # Newline
             /\ Copied(n) = Append(LineText(n), Newline) /\ Copied(n) \in Seq(Chars)
  <2>1. out[n] \in Copies /\ out[n].line \in DOMAIN disk[out[n].file]
    BY <1>1 DEF Typed
  <2>2. out[n].file \in File
    BY <2>1 DEF Copies
  <2>3. disk[out[n].file] \in Seq(Line)
    BY <2>2 DEF Typed
  <2>4. disk[out[n].file][out[n].line] \in Line
    BY <2>1, <2>3
  <2>5. LineText(n) \in Seq(STRING)
    BY <2>4 DEF Line, LineText
  <2>6. \A j \in DOMAIN LineText(n) : LineText(n)[j] \notin {Newline, End}
    BY <2>1, <2>2 DEF CleanLines, LineText
  <2>7. LineText(n) \in Seq(Chars)
    <3>1. \A j \in 1..Len(LineText(n)) : LineText(n)[j] \in Chars
      BY <2>5, <2>6 DEF Chars
    <3> QED BY <2>5, <3>1
  <2>8. Copied(n) = Append(LineText(n), Newline)
    BY DEF Copied, LineText
  <2>9. Newline \in Chars
    BY DEF Chars, Newline, End
  <2>10. Copied(n) \in Seq(Chars)
    BY <2>7, <2>8, <2>9, AppendProperties
  <2> QED BY <2>6, <2>7, <2>8, <2>10
<1>3. ss \in Seq(Seq(Chars)) /\ Len(ss) = N /\ ss # <<>> /\ \A n \in 1..N : ss[n] = Copied(n)
  <2>1. ss = [n \in 1..N |-> Copied(n)]
    BY <1>1
  <2> HIDE DEF ss
  <2>2. ss \in [1..N -> Seq(Chars)]
    BY <1>2, <2>1
  <2>3. ss \in Seq(Seq(Chars)) /\ Len(ss) = N
    BY <1>1, <2>2
  <2>4. ss # <<>>
    BY <1>1, <2>3
  <2> QED BY <2>1, <2>3, <2>4
<1> HIDE DEF ss
<1>4. PICK f : IsFlat(f, ss, Len(ss)) /\ FlattenSeq(ss) = f[Len(ss)]
  BY <1>3, FlattenIsFlat
<1>5. /\ \A i \in 1..N : f[i] \in Seq(Chars)
      /\ \A i \in 1..N : f[i] = IF i = 1 THEN ss[i] ELSE f[i - 1] \o ss[i]
  BY <1>3, <1>4, FlatTyped
<1> DEFINE M == {k \in Nat : k + 1 \in 1..N => Lined(f[k + 1], k + 1)}
<1>6. 0 \in M
  <2>1. 1 \in 1..N /\ f[1] = Copied(1)
    BY <1>1, <1>3, <1>5
  <2>2. <<>> \in Seq(Chars) /\ 0 + 1 = 1
    OBVIOUS
  <2>3. Lined(<<>> \o Append(LineText(1), Newline), 1)
    BY <1>2, <2>1, <2>2, NothingLined, LineAppended
  <2>4. <<>> \o Append(LineText(1), Newline) = f[1]
    BY <1>2, <2>1, ConcatEmptySeq
  <2>5. Lined(f[1], 1)
    BY <2>3, <2>4
  <2>6. Lined(f[0 + 1], 0 + 1)
    BY <2>2, <2>5
  <2> QED BY <2>6
<1>7. ASSUME NEW k \in Nat, k \in M
      PROVE  k + 1 \in M
  <2> SUFFICES ASSUME k + 1 + 1 \in 1..N
               PROVE  Lined(f[k + 1 + 1], k + 1 + 1)
    OBVIOUS
  <2> DEFINE m == k + 1
  <2>1. m \in Nat /\ m \in 1..N /\ m + 1 \in 1..N /\ m + 1 # 1 /\ (m + 1) - 1 = m
    BY <1>1
  <2>2. Lined(f[m], m)
    BY <1>7, <2>1
  <2> HIDE DEF m
  <2>3. f[m + 1] = f[m] \o Append(LineText(m + 1), Newline)
    <3>1. PICK n : n = m + 1
      OBVIOUS
    <3>2. n \in 1..N /\ n # 1 /\ n - 1 = m
      BY <2>1, <3>1
    <3>3. f[n] = f[n - 1] \o ss[n]
      BY ONLY <1>5, <3>2
    <3>4. ss[n] = Append(LineText(n), Newline)
      BY <1>2, <1>3, <3>2
    <3> QED BY ONLY <3>1, <3>2, <3>3, <3>4
  <2>4. Lined(f[m + 1], m + 1)
    BY <1>2, <1>5, <2>1, <2>2, <2>3, LineAppended
  <2> QED BY <2>4 DEF m
<1>8. Lined(f[N], N) /\ f[N] \in Seq(Chars)
  <2>1. Nat \subseteq M
    <3> HIDE DEF M
    <3> QED BY <1>6, <1>7, Induction
  <2> DEFINE p == N - 1
  <2>2. p \in Nat /\ p + 1 = N /\ N \in 1..N
    BY <1>1
  <2>3. p + 1 \in 1..N => Lined(f[p + 1], p + 1)
    <3> HIDE DEF p
    <3> QED BY <2>1, <2>2
  <2>4. Lined(f[N], N)
    <3> HIDE DEF p
    <3> QED BY <2>2, <2>3
  <2> QED BY <1>5, <2>2, <2>4
<1>9. Whole = f[N]
  BY <1>3, <1>4 DEF Whole, ss
<1> QED BY <1>8, <1>9

\* Between the preprocessor and the end of the run.
TextInv ==
    /\ LexInv
    /\ CleanLines
    /\ stage = "preprocess" => LexInit /\ text = <<>>
    /\ stage \notin {"preprocess", "exited"} /\ out # <<>> => text = Whole
    /\ exit \in {0, 3, 4, 5, 6, 7} \cup {None}

\* The lexer at its start, whatever the text.
TextTyped == text \in Seq(Chars)

LEMMA LexerStarts == LexInit /\ TextTyped => LexInv
<1> SUFFICES ASSUME LexInit, TextTyped
             PROVE  LexInv
  OBVIOUS
<1> USE DEF TextTyped
<1>1. Newlines(1, 1) = {} /\ {0} \cup {} = {0}
  BY DEF Newlines
<1>2. Max({0}) = 0
  <2>1. {0} \in SUBSET Nat /\ {0} # {} /\ \A x \in {0} : x <= 0
    OBVIOUS
  <2> QED BY <2>1, Greatest
<1>3. LineOf(1) = 1 /\ StartOf(1) = 0
  <2>1. Cardinality(Newlines(1, 1)) = 0
    BY <1>1, FS_EmptySet
  <2>2. Max({0} \cup Newlines(1, 1)) = 0
    BY <1>1, <1>2, Zenon
  <2> QED BY <2>1, <2>2 DEF LineOf, StartOf
<1>4. LexTyped
  BY <1>3 DEF LexInit, LexTyped
<1>5. TokensPlaced /\ GapsAreBlank /\ TokensRight /\ ErrorPlaced
  BY DEF LexInit, TokensPlaced, GapsAreBlank, TokensRight, ErrorPlaced
<1>6. IsGap(LastTo, pos)
  BY EmptyGap DEF LexInit, LastTo
<1> QED BY <1>4, <1>5, <1>6 DEF LexInv, Covered

\* Stages that touch neither the text nor the tokens.
LEMMA LexerIdle ==
  ASSUME LexInv, UNCHANGED lexVars
  PROVE  LexInv'
<1>1. /\ text' = text /\ pos' = pos /\ line' = line /\ col' = col
      /\ tokens' = tokens /\ lexed' = lexed /\ errAt' = errAt
  BY DEF lexVars
<1>2. \A i : At(i)' = At(i)
  BY <1>1, TextFixed
<1>3. LexTyped'
  BY <1>1, <1>2 DEF LexInv, LexTyped, LineOf, StartOf, Newlines
<1>4. TokensPlaced'
  BY <1>1, <1>2 DEF LexInv, TokensPlaced, LineOf, Newlines
<1>5. ASSUME NEW n \in DOMAIN tokens
      PROVE  GapBefore(n)'
  <2>1. IsGap(IF n = 1 THEN 1 ELSE tokens[n - 1].to, tokens[n].from)
    BY Zenon DEF LexInv, Covered, GapsAreBlank
  <2> QED BY <1>1, <2>1, GapFixed, Zenon
<1>6. GapsAreBlank'
  <2>1. GapsAreBlank' <=> \A n \in DOMAIN tokens' : GapBefore(n)'
    BY Zenon DEF GapsAreBlank, GapBefore
  <2> QED BY <1>1, <1>5, <2>1
<1>7. IsGap(LastTo, pos)' <=> IsGap(LastTo, pos)
  <2>1. LastTo' = LastTo
    BY <1>1 DEF LastTo
  <2>2. IsGap(LastTo, pos)' <=> IsGap(LastTo', pos')
    BY <1>1, PlacesFixed
  <2> QED BY <1>1, <2>1, <2>2
<1>8. Covered'
  BY <1>1, <1>6, <1>7 DEF LexInv, Covered
<1>9. TokensRight' /\ ErrorPlaced'
  BY <1>1, LexemesFixed DEF LexInv, TokensRight, ErrorPlaced
<1> QED BY <1>3, <1>4, <1>8, <1>9 DEF LexInv

\* The disk is as it was, and the copied lines are, once they are the text.
LEMMA TextInvKept ==
  ASSUME Typed, TextInv, [Next]_vars
  PROVE  TextInv'
<1>1. disk' = disk
  BY StageSteps DEF importVars, Expand, OpenEntry, CopyLine, ImportLine, BadDirective, EndOfFile,
     ProcessFile, GiveUp
<1>2. CleanLines'
  BY <1>1 DEF TextInv, CleanLines
<1>3. ASSUME UNCHANGED importVars
      PROVE  Whole' = Whole /\ out' = out
  BY <1>3 DEF importVars, Whole, Copied
<1>4. CASE Preprocess
  <2>1. stage' = stage /\ exit' = exit /\ UNCHANGED lexVars /\ stage = "preprocess"
    BY <1>4 DEF Preprocess
  <2>2. LexInv'
    BY <2>1, LexerIdle DEF TextInv
  <2>3. LexInit' /\ text' = <<>>
    BY <2>1 DEF TextInv, LexInit, lexVars
  <2> QED BY <1>2, <2>1, <2>2, <2>3 DEF TextInv
<1>5. CASE Preprocessed
  <2>1. /\ stage = "preprocess" /\ stage' = "lex" /\ exit' = exit /\ UNCHANGED importVars
        /\ text' \in IF out = <<>> THEN Leftover ELSE {Whole}
        /\ UNCHANGED <<pos, line, col, tokens, lexed, errAt>>
    BY <1>5 DEF Preprocessed, Go, Whole
  <2>2. TextTyped'
    <3> USE DEF TextTyped
    <3>1. CASE out = <<>>
      <4>1. text' \in Seq(STRING \ {End})
        BY <2>1, <3>1, FrontendAssumption
      <4>2. \A i \in 1..Len(text') : text'[i] \in Chars
        BY <4>1 DEF Chars
      <4> QED BY <4>1, <4>2
    <3>2. CASE out # <<>>
      BY <2>1, <3>2, WholeIsLines DEF TextInv
    <3> QED BY <3>1, <3>2
  <2>3. LexInit'
    BY <2>1 DEF TextInv, LexInit
  <2>4. LexInv'
    BY <2>2, <2>3, LexerStarts, PTL
  <2>5. out' # <<>> => text' = Whole'
    BY <1>3, <2>1
  <2> QED BY <1>2, <2>1, <2>4, <2>5 DEF TextInv
<1>6. CASE Lex
  <2>1. /\ stage = "lex" /\ stage' = "lex" /\ exit' = exit /\ Tokenize /\ UNCHANGED importVars
    BY <1>6 DEF Lex
  <2>2. LexInv'
    BY <2>1, TokenizeKeeps DEF TextInv
  <2>3. text' = text
    BY <2>1 DEF Tokenize, SkipBlank, SkipLineComment, SkipBlockComment, Number, String, Word,
       Punctuation, Unexpected, EndOfText, Skip, Token, LexError
  <2> QED BY <1>2, <1>3, <2>1, <2>2, <2>3 DEF TextInv
<1>7. ASSUME UNCHANGED <<importVars, lexVars>>, stage' # "preprocess" \/ stage' = stage,
             stage' = "exited" \/ stage \notin {"preprocess", "exited"} \/ stage' = stage,
             exit' \in {0, 3, 4, 5, 6, 7} \cup {None}
      PROVE  TextInv'
  <2>1. LexInv'
    BY <1>7, LexerIdle DEF TextInv
  <2>2. text' = text /\ (LexInit => LexInit')
    BY <1>7 DEF lexVars, LexInit
  <2> QED BY <1>2, <1>3, <1>7, <2>1, <2>2 DEF TextInv
<1>8. CASE PreprocessFailed
  BY <1>7, <1>8 DEF PreprocessFailed, Exit
<1>9. CASE LexDone
  BY <1>7, <1>9 DEF LexDone, Go, Exit, TextInv
<1>10. CASE Parse
  BY <1>7, <1>10 DEF Parse, Go, Exit, TextInv
<1>11. CASE Compile
  BY <1>7, <1>11 DEF Compile, Go, Exit, TextInv
<1>12. CASE Run
  BY <1>7, <1>12 DEF Run, Exit
<1>13. CASE UNCHANGED vars
  BY <1>7, <1>13 DEF vars, TextInv
<1> QED BY <1>4, <1>5, <1>6, <1>8, <1>9, <1>10, <1>11, <1>12, <1>13 DEF Next

FrontendInv == ImportsInv /\ HeldByStage /\ TextInv

\* Every stage frees what it was given, on its error paths as well, and keeps
\* what it made.
LEMMA HeldByStageKept ==
  ASSUME HeldByStage, [Next]_vars
  PROVE  HeldByStage'
<1> USE DEF HeldByStage
<1>1. CASE Preprocess
  BY <1>1 DEF Preprocess
<1>2. CASE Preprocessed
  BY <1>2 DEF Preprocessed, Go
<1>3. CASE PreprocessFailed
  BY <1>3 DEF PreprocessFailed, Exit
<1>4. CASE Lex
  BY <1>4 DEF Lex
<1>5. CASE LexDone
  BY <1>5 DEF LexDone, Go, Exit, AfterTokenize
<1>6. CASE Parse
  BY <1>6 DEF Parse, Go, Exit
<1>7. CASE Compile
  BY <1>7 DEF Compile, Go, Exit
<1>8. CASE Run
  BY <1>8 DEF Run, Exit
<1>9. CASE UNCHANGED vars
  BY <1>9 DEF vars
<1> QED BY <1>1, <1>2, <1>3, <1>4, <1>5, <1>6, <1>7, <1>8, <1>9 DEF Next

\* Both hold in every state of the program.
THEOREM FrontendInvariantHolds == Spec => []FrontendInv
<1>1. Init => FrontendInv
  <2> SUFFICES ASSUME Init
               PROVE  FrontendInv
    OBVIOUS
  <2>1. ImportsInv /\ HeldByStage
    BY ImportsStart DEF Init, HeldByStage
  <2>2. TextTyped
    BY DEF Init, TextTyped
  <2>3. LexInv
    BY <2>2, LexerStarts DEF Init
  <2>4. CleanLines
    BY FrontendAssumption DEF Init, ImportsInit, CleanLines
  <2> QED BY <2>1, <2>3, <2>4 DEF Init, FrontendInv, TextInv
<1>2. FrontendInv /\ [Next]_vars => FrontendInv'
  <2> SUFFICES ASSUME FrontendInv, [Next]_vars
               PROVE  FrontendInv'
    OBVIOUS
  <2>1. ImportsInv'
    BY StageSteps, ExpandKeeps, IdleKeeps DEF FrontendInv
  <2>2. HeldByStage'
    BY HeldByStageKept DEF FrontendInv
  <2>3. TextInv'
    BY TextInvKept DEF FrontendInv, ImportsInv
  <2> QED BY <2>1, <2>2, <2>3 DEF FrontendInv
<1> QED BY <1>1, <1>2, PTL DEF Spec
-----------------------------------------------------------------------------
\* After a successful expansion every line of every file that was opened
\* stands in the text exactly once, in order and behind what its imports bring
\* (process_file_recursive), for any files and any links between them.
THEOREM OnceInOrderAlways == Spec => []ExpandedOnceInOrder
<1>1. FrontendInv => ExpandedOnceInOrder
  BY ExpandedInOrder DEF FrontendInv
<1> QED BY <1>1, FrontendInvariantHolds, PTL

\* A cycle is reported only when some file needs itself, a missing file only
\* when one is named, a bad directive only when there is one
\* (process_file_recursive, process_text).
THEOREM FailsForCauseAlways == Spec => []FailsForCause
<1>1. FrontendInv => FailsForCause
  BY DEF FrontendInv, ImportsInv
<1> QED BY <1>1, FrontendInvariantHolds, PTL

\* Whatever stage fails, main has freed what it allocated (main.c:54-96).
THEOREM ReleasedAlways == Spec => []ReleasedAtExit
<1>1. FrontendInv => ReleasedAtExit
  BY DEF FrontendInv, HeldByStage, ReleasedAtExit
<1> QED BY <1>1, FrontendInvariantHolds, PTL

\* Every variable has its type; the lexer never reads behind the text, for any
\* text and any alphabet (femboy_tokenize, process_file_recursive).
THEOREM TypeAlways == Spec => []TypeOK
<1>1. FrontendInv => TypeOK
  <2> SUFFICES ASSUME FrontendInv
               PROVE  TypeOK
    OBVIOUS
  <2>1. Typed /\ HeldByStage /\ LexTyped /\ exit \in {0, 3, 4, 5, 6, 7} \cup {None}
    BY DEF FrontendInv, ImportsInv, TextInv, LexInv
  <2>2. ImportsTypeOK
    <3>1. /\ open \cup done \subseteq File \cup Path /\ open \cap done = {}
          /\ expansion \in {"todo", "ok", "cyclic", "io", "lex"}
          /\ openedAs \in [File -> Path \cup {None}]
      BY <2>1 DEF Typed
    <3>2. ASSUME NEW n \in DOMAIN calls
          PROVE  /\ calls[n].path \in Path /\ calls[n].pending \in BOOLEAN
                 /\ calls[n].line \in 1..(Len(Lines(calls[n].path)) + 1)
      <4>1. n \in 1..Depth /\ calls[n] \in Activation
        BY <2>1 DEF Typed, Depth
      <4>2. calls[n].line \in 1..(Len(disk[FileAt(n)]) + 1)
        BY <2>1, <4>1 DEF Typed
      <4> QED BY <4>1, <4>2 DEF Activation, Lines, FileAt
    <3>3. ASSUME NEW n \in DOMAIN out
          PROVE  out[n].file \in File /\ out[n].line \in DOMAIN disk[out[n].file]
      <4>1. out[n] \in Copies
        BY <2>1 DEF Typed
      <4> QED BY <2>1, <4>1 DEF Typed, Copies
    <3> QED BY <3>1, <3>2, <3>3 DEF ImportsTypeOK
  <2>3. line \in Nat /\ col \in Nat
    <3>1. pos \in Nat \ {0} /\ line = LineOf(pos) /\ col = pos - StartOf(pos)
      BY <2>1 DEF LexTyped
    <3>2. LineOf(pos) \in Nat /\ StartOf(pos) \in 0..(pos - 1)
      BY <3>1, LineTyped, StartBefore
    <3> QED BY <3>1, <3>2
  <2>4. held \subseteq Pieces
    BY <2>1 DEF HeldByStage, Pieces
  <2> QED BY <2>1, <2>2, <2>3, <2>4 DEF TypeOK, LexTyped, HeldByStage
<1> QED BY <1>1, FrontendInvariantHolds, PTL

\* Between two tokens stand blanks and whole comments and nothing else
\* (skip_ws_comments), for any text and any alphabet.
THEOREM GapsAlways == Spec => []GapsAreBlank
<1>1. FrontendInv => GapsAreBlank
  BY DEF FrontendInv, TextInv, LexInv, Covered
<1> QED BY <1>1, FrontendInvariantHolds, PTL

\* The line a token reports is the number of the copied line it stands on, and
\* its place in that line is what it counts from the last newline
\* (process_text, next_token), for any files and links between them.
THEOREM LinesAlways == Spec => []LinesAreCopiedLines
<1>1. FrontendInv => LinesAreCopiedLines
  <2> SUFFICES ASSUME FrontendInv, stage \notin {"preprocess", "exited"}, out # <<>>,
                      NEW n \in DOMAIN tokens, tokens[n].kind # "eof"
               PROVE  /\ tokens[n].line \in DOMAIN out
                      /\ tokens[n].from - StartOf(tokens[n].from) \in DOMAIN LineText(tokens[n].line)
                      /\ LineText(tokens[n].line)[tokens[n].from - StartOf(tokens[n].from)]
                            = At(tokens[n].from)
    BY Zenon DEF LinesAreCopiedLines, StartOf, LineText
  <2> DEFINE i == tokens[n].from
  <2>1. LexTyped /\ TokensPlaced /\ Typed /\ CleanLines /\ text = Whole
    BY DEF FrontendInv, ImportsInv, TextInv, LexInv
  <2>2. At(i) \notin Blank \cup {End} /\ tokens[n].line = LineOf(i)
    BY <2>1 DEF TokensPlaced
  <2>3. i \in 1..Len(text) /\ At(i) = text[i] /\ text[i] # Newline
    <3>1. i \in 1..Len(text) /\ At(i) = text[i]
      BY <2>1, <2>2, AtInside DEF LexTyped
    <3> QED BY <2>2, <3>1, LexerAssumption
  <2>4. Lined(text, Len(out)) /\ Len(out) \in Nat /\ DOMAIN out = 1..Len(out)
    BY <2>1, WholeIsLines DEF Typed
  <2> HIDE DEF i
  <2>5. Newlines(1, i) = Ends(text, i)
    <3>1. \A m \in 1..(i - 1) : At(m) = text[m]
      BY <2>1, <2>3 DEF LexTyped, At
    <3> QED BY <3>1 DEF Newlines, Ends
  <2>6. /\ LineOf(i) \in 1..Len(out)
        /\ i - StartOf(i) \in DOMAIN LineText(LineOf(i))
        /\ LineText(LineOf(i))[i - StartOf(i)] = text[i]
    BY <2>3, <2>4, <2>5 DEF Lined, LineOf, StartOf
  <2> QED BY <2>2, <2>3, <2>4, <2>6 DEF i
<1> QED BY <1>1, FrontendInvariantHolds, PTL

\* Every token is the longest lexeme that starts where it starts, and an error
\* stands where no lexeme starts or a comment begins that never ends
\* (next_token), for any text and any alphabet.
THEOREM LongestAlways == Spec => []LongestLexeme
<1>1. FrontendInv => LongestLexeme
  <2> SUFFICES ASSUME FrontendInv
               PROVE  LongestLexeme
    OBVIOUS
  <2>1. LexTyped /\ TokensRight /\ ErrorPlaced
    BY DEF FrontendInv, TextInv, LexInv
  <2>2. \A n \in DOMAIN tokens : tokens[n].kind # "eof" =>
          LexemesAt(tokens[n].from) # {} /\ tokens[n].to = Max(LexemesAt(tokens[n].from))
    BY <2>1, Zenon DEF TokensRight, RightToken, Right, Longest
  <2>3. ASSUME lexed = "lex"
        PROVE  \/ LexemesAt(ErrPos) = {}
               \/ /\ At(ErrPos) = "/" /\ At(ErrPos + 1) = "*"
                  /\ ~ \E j \in (ErrPos + 2)..(Len(text) - 1) : At(j) = "*" /\ At(j + 1) = "/"
    <3>1. ErrPos = pos /\ NoneAt(pos) /\ pos \in Nat /\ Len(text) \in Nat
      BY <2>1, <2>3, ErrorPlace DEF ErrorPlaced, LexTyped
    <3>2. CASE LexemesAt(pos) = {}
      BY <3>1, <3>2
    <3>3. CASE At(pos) = "/" /\ At(pos + 1) = "*" /\ Closers(pos) = {}
      <4>1. \A j \in (pos + 2)..(Len(text) - 1) : j \in (pos + 2)..Len(text)
        BY <3>1
      <4>2. ~ \E j \in (pos + 2)..(Len(text) - 1) : At(j) = "*" /\ At(j + 1) = "/"
        BY <3>3, <4>1 DEF Closers
      <4> QED BY <3>1, <3>3, <4>2
    <3> QED BY <3>1, <3>2, <3>3 DEF NoneAt
  <2> QED BY <2>2, <2>3 DEF LongestLexeme
<1> QED BY <1>1, FrontendInvariantHolds, PTL

\* A string token holds one character for every plain character and every
\* escape between its quotes: the scan for the closing quote and the decoding
\* loop of next_token pair the backslashes alike, for any text.
THEOREM StringsAlways == Spec => []StringsDecodeWhole
<1>1. FrontendInv => StringsDecodeWhole
  <2> SUFFICES ASSUME FrontendInv, NEW n \in DOMAIN tokens, tokens[n].kind = "string"
               PROVE  tokens[n].size = Decoded(tokens[n].from, tokens[n].to)
    BY Zenon DEF StringsDecodeWhole, Decoded
  <2>1. RightToken(tokens[n])
    BY DEF FrontendInv, TextInv, LexInv, TokensRight
  <2> QED BY <2>1 DEF RightToken, Right
<1> QED BY <1>1, FrontendInvariantHolds, PTL
=============================================================================
