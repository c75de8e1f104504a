---------------------------- MODULE ManagedHeap ----------------------------
(***************************************************************************)
(* What the virtual machine needs from automatic memory management, with  *)
(* no collector in sight: values flow only along references the running    *)
(* program can follow, an object comes into being when it is allocated,    *)
(* and it goes away only when the program can no longer reach it.          *)
(***************************************************************************)
CONSTANTS Obj,      \* the objects that can ever be live at once
          Slot      \* element positions of an array, keys of a map

VARIABLES alive,    \* the objects that exist
          roots,    \* the objects the program holds directly
          fields    \* [Obj -> [Slot -> contents]]

mhVars == <<alive, roots, fields>>

\* The objects that object o refers to.
Refs(o) == {fields[o][s] : s \in Slot} \cap Obj

\* S contains every object its members refer to.
Closed(S) == \A o \in S : Refs(o) \subseteq S

\* The objects the program can get at: the least closed set around roots.
Reach == {o \in Obj : \A S \in SUBSET Obj : roots \subseteq S /\ Closed(S) => o \in S}

OnlyChanges(o) == \A p \in Obj \ {o} : fields'[p] = fields[p]

Init == /\ alive = {}
        /\ roots = {}
        /\ \A o \in Obj : Refs(o) = {}

\* The program drops, copies and loads references, and stores reachable
\* references into at most one object it can reach.
Mutate == /\ alive' = alive
          /\ roots' \subseteq Reach
          /\ \/ fields' = fields
             \/ \E o \in Reach : OnlyChanges(o) /\ Refs(o)' \subseteq Reach

\* A new object appears; the program may store it into one object it can reach.
Allocate(o) == /\ o \notin alive
               /\ alive' = alive \cup {o}
               /\ roots' \subseteq Reach \cup {o}
               /\ Refs(o)' = {}
               /\ \/ OnlyChanges(o)
                  \/ \E p \in Reach \ {o} : /\ \A q \in Obj \ {o, p} : fields'[q] = fields[q]
                                            /\ Refs(p)' \subseteq Reach \cup {o}

\* The memory of an object is reused only once the program cannot reach it.
Reclaim(o) == /\ o \in alive \ Reach
              /\ alive' = alive \ {o}
              /\ roots' = roots
              /\ OnlyChanges(o)

\* The program ends, and everything goes.
Shutdown == /\ alive' = {}
            /\ roots' = {}
            /\ \A o \in Obj : Refs(o)' = {}

Next == \/ Mutate
        \/ \E o \in Obj : Allocate(o) \/ Reclaim(o)
        \/ Shutdown

Spec == Init /\ [][Next]_mhVars

\* Nothing the program can reach has been taken away from it.
Safe == Reach \subseteq alive
=============================================================================
