------------------------------ MODULE Imports ------------------------------
(***************************************************************************)
(* src/src/preprocessor.c: the entry file is copied line by line, and each *)
(* import directive is replaced by the text of the file it names, depth    *)
(* first.  A file is known by its canonical path, but what its own imports *)
(* mean depends on the directory of the path it was opened under.          *)
(***************************************************************************)
EXTENDS Integers, Sequences, FiniteSets, SequencesExt

CONSTANTS File,     \* files of the disk, i.e. canonical paths
          Path,     \* spelled paths: arguments of process_file_recursive
          Real,     \* [Path -> File \cup {None}]: realpath, None for no file
          Spelling, \* what stands between the quotes of an import
          Full,     \* [Path -> [Spelling -> Path]]: dirname_of(path) + "/" + it
          Entry,    \* argv[1]
          Disks,    \* sets of the contents files may have, by some index
          None

\* A line as try_parse_import_line sees it.  `text` is the whole line when it
\* is no directive, what follows the ';' of an import otherwise; it may spell
\* an import again.  "bad" is an import without a closing quote or a ';'.
Line == [kind : {"text", "bad"}, to : {None}, text : Seq(STRING)]
          \cup [kind : {"import"}, to : Spelling, text : Seq(STRING)]

ASSUME ImportsAssumption ==
    /\ Real \in [Path -> File \cup {None}] /\ None \notin File
    /\ Full \in [Path -> [Spelling -> Path]]
    /\ Entry \in Path
    /\ File \cap Path = {}
    /\ \A k \in DOMAIN Disks : Disks[k] \subseteq [File -> Seq(Line)]

VARIABLES disk,       \* File -> its lines
          open, done, \* canonical paths in ps.visited: in_progress or not
          calls,      \* activations of process_text, innermost last
          out,        \* the StrBuf: which line of which file was copied
          expansion,  \* "todo", then the status of femboy_preprocess_file
          openedAs    \* File -> the path it was read under (for properties)

importVars == <<disk, open, done, calls, out, expansion, openedAs>>

Lines(p) == disk[Real[p]]
Caller == calls[Len(calls)]
CurLine == Lines(Caller.path)[Caller.line]

\* canonicalize_path: realpath, or the path itself when that fails.
Canonical(p) == IF Real[p] = None THEN p ELSE Real[p]

ImportsTypeOK ==
    /\ open \cup done \subseteq File \cup Path
    /\ open \cap done = {}
    /\ \A n \in DOMAIN calls :
          /\ calls[n].path \in Path /\ calls[n].pending \in BOOLEAN
          /\ calls[n].line \in 1..(Len(Lines(calls[n].path)) + 1)
    /\ \A n \in DOMAIN out : out[n].file \in File /\ out[n].line \in DOMAIN disk[out[n].file]
    /\ expansion \in {"todo", "ok", "cyclic", "io", "lex"}
    /\ openedAs \in [File -> Path \cup {None}]

ImportsInit ==
    /\ \E k \in DOMAIN Disks : disk \in Disks[k]
    /\ open = {} /\ done = {} /\ calls = <<>> /\ out = <<>>
    /\ expansion = "todo"
    /\ openedAs = [f \in File |-> None]
-----------------------------------------------------------------------------
\* The recursion unwinds with the first error.
GiveUp(why) == /\ expansion' = why
               /\ calls' = <<>>
               /\ UNCHANGED <<disk, open, done, out, openedAs>>

\* Mutant of Lookup: a finished file is read again.
LookupOpenOnly(c) == IF c \in open THEN "open" ELSE "new"

\* What find_visited says of a canonical path.
Lookup(c) == IF c \in open THEN "open" ELSE IF c \in done THEN "done" ELSE "new"

\* process_file_recursive(path), called from the activations in `callers`. No
\* file also stands for one that cannot be read to its end (69): in both cases
\* the expansion is given up at once, with the same code.
ProcessFile(path, callers) ==
    LET c == Canonical(path) IN
    \/ Lookup(c) = "open" /\ GiveUp("cyclic")
    \/ /\ Lookup(c) = "done"
       /\ calls' = callers
       /\ UNCHANGED <<disk, open, done, out, expansion, openedAs>>
    \/ Lookup(c) = "new" /\ Real[path] = None /\ GiveUp("io")
    \/ /\ Lookup(c) = "new" /\ Real[path] # None
       /\ open' = open \cup {c}
       /\ calls' = Append(callers, [path |-> path, line |-> 1, pending |-> FALSE])
       /\ openedAs' = [openedAs EXCEPT ![Real[path]] = path]
       /\ UNCHANGED <<disk, done, out, expansion>>

OpenEntry ==
    /\ expansion = "todo" /\ open \cup done = {}
    /\ ProcessFile(Entry, <<>>)

Reading == calls # <<>> /\ Caller.line <= Len(Lines(Caller.path))

SetCaller(frame) == [calls EXCEPT ![Len(calls)] = frame]

\* The text of the line, or the rest of an import's line after the import.
CopyLine ==
    /\ Reading /\ (CurLine.kind = "text" \/ Caller.pending)
    /\ out' = Append(out, [file |-> Real[Caller.path], line |-> Caller.line])
    /\ calls' = SetCaller([Caller EXCEPT !.line = @ + 1, !.pending = FALSE])
    /\ UNCHANGED <<disk, open, done, expansion, openedAs>>

ImportLine ==
    /\ Reading /\ CurLine.kind = "import" /\ ~Caller.pending
    /\ ProcessFile(Full[Caller.path][CurLine.to], SetCaller([Caller EXCEPT !.pending = TRUE]))

BadDirective == Reading /\ CurLine.kind = "bad" /\ GiveUp("lex")

\* Mutant of Finished: in_progress stays set.
FinishedStaysOpen(c) == [open |-> open, done |-> done \cup {c}]

Finished(c) == [open |-> open \ {c}, done |-> done \cup {c}]

EndOfFile ==
    /\ calls # <<>> /\ Caller.line > Len(Lines(Caller.path))
    /\ open' = Finished(Canonical(Caller.path)).open
    /\ done' = Finished(Canonical(Caller.path)).done
    /\ calls' = Front(calls)
    /\ expansion' = IF Len(calls) = 1 THEN "ok" ELSE "todo"
    /\ UNCHANGED <<disk, out, openedAs>>

Expand == OpenEntry \/ CopyLine \/ ImportLine \/ BadDirective \/ EndOfFile
-----------------------------------------------------------------------------
(* What the expansion promises *)

ImportsOf(p) == IF Real[p] = None THEN {}
                ELSE {Full[p][Lines(p)[i].to] :
                        i \in {j \in DOMAIN Lines(p) : Lines(p)[j].kind = "import"}}

\* The paths in S and all that imports lead to from them: the least set that
\* imports do not lead out of.
Leads(S) == {q \in Path : \A C \in SUBSET Path :
                S \subseteq C /\ (\A p \in C : ImportsOf(p) \subseteq C) => q \in C}
Needed == Leads({Entry})

Position(f, i) == CHOOSE n \in DOMAIN out : out[n] = [file |-> f, line |-> i]

(* After success every line of every file that was opened stands in the    *)
(* text exactly once, in its file's order, and what an import brings,      *)
(* directly or through others, stands before the rest of the import's line *)
(* (process_file_recursive, preprocessor.c:217; README.md:64-69).          *)
ExpandedOnceInOrder ==
    expansion = "ok" =>
        /\ IsInjective(out)
        /\ \A f \in done : \A i \in DOMAIN disk[f] :
              /\ \E n \in DOMAIN out : out[n] = [file |-> f, line |-> i]
              /\ \A j \in 1..(i - 1) : Position(f, j) < Position(f, i)
              /\ disk[f][i].kind = "import" =>
                    LET g == Canonical(Full[openedAs[f]][disk[f][i].to])
                    IN  /\ g \in done
                        /\ \A j \in DOMAIN disk[g] : Position(g, j) < Position(f, i)

(* The entry's expansion fails only for a reason: a cycle is reported when *)
(* some file needs itself, a missing file when one is named, a bad         *)
(* directive when there is one; a diamond is no cycle (preprocessor.c:221). *)
FailsForCause ==
    /\ expansion = "cyclic" =>
          \E p \in Needed : \E q \in Leads(ImportsOf(p)) : Canonical(p) = Canonical(q)
    /\ expansion = "io" => \E p \in Needed : Real[p] = None
    /\ expansion = "lex" => \E p \in Needed : \E i \in DOMAIN Lines(p) : Lines(p)[i].kind = "bad"
=============================================================================
