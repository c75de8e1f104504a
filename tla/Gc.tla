-------------------------------- MODULE Gc ---------------------------------
(***************************************************************************)
(* The stop-the-world mark-and-sweep collector of src/src/gc.c: the list   *)
(* of objects, their sizes, the byte counter and its threshold, the mark   *)
(* walk and the sweep.  The interpreter is single threaded: pc says where  *)
(* its one thread is.  No property depends on the order of the recursion   *)
(* in mark_object nor on that of the object list, so both are free here,   *)
(* and what sweep unmarks on its way it unmarks at its end.                *)
(*                                                                         *)
(* Sizes are counted in cells: 1 for the object header, 1 for each array   *)
(* cell, map entry or key.                                                 *)
(***************************************************************************)
EXTENDS Integers, FiniteSets

CONSTANTS Obj,              \* addresses malloc can hand out for an object
          Nil,              \* every value that is not a heap object
          NoEntry,          \* an unused array cell or map entry
          MaxItems,         \* bound: elements of an array, distinct keys
          InitialThreshold, \* GC_INITIAL_THRESHOLD
          ArrayMinCap,      \* capacity of an array made without a hint (4)
          MapMinCap         \* MAP_MIN_CAP (8)

ASSUME GcAssumption ==
    /\ IsFiniteSet(Obj) /\ Nil \notin Obj /\ NoEntry \notin Obj /\ Nil # NoEntry
    /\ MaxItems \in Nat \ {0}
    /\ InitialThreshold \in Nat
    /\ ArrayMinCap \in Nat \ {0}
    /\ MapMinCap \in Nat /\ MapMinCap >= 2

Value == Obj \cup {Nil}
Slot  == 1..MaxItems
Kind  == {"string", "array", "map"}

VARIABLES objects,    \* vm->objects, the list of registered objects
          kind, cap,  \* type and capacity of each object
          fields,     \* array cells, or the value under each map key
          marked,     \* the objects whose mark bit is set
          bytes,      \* vm->bytes_allocated
          threshold,  \* vm->gc_threshold
          pc,         \* where the thread is
          pending     \* mark_value calls still to be made

collector == <<marked, threshold, pending>>
gcVars == <<objects, kind, cap, fields, marked, bytes, threshold, pc, pending>>

Empty    == [s \in Slot |-> NoEntry]
Refs(o)  == {fields[o][s] : s \in Slot} \cap Obj
Used(o)  == {s \in Slot : fields[o][s] # NoEntry}
Count(o) == Cardinality(Used(o))

\* object_size: the keys of a map are not part of it.
Size(o) == 1 + cap[o]

GcTypeOK ==
    /\ objects \subseteq Obj
    /\ kind \in [Obj -> Kind]
    /\ cap \in [Obj -> Nat]
    /\ fields \in [Obj -> [Slot -> Value \cup {NoEntry}]]
    /\ marked \subseteq Obj
    /\ bytes \in Int
    /\ threshold \in Nat
    /\ pending \subseteq Obj

\* No object, no byte, the threshold of vm_init.
GcInit ==
    /\ objects = {} /\ marked = {} /\ pending = {}
    /\ kind = [o \in Obj |-> "string"]
    /\ cap = [o \in Obj |-> 0]
    /\ fields = [o \in Obj |-> Empty]
    /\ bytes = 0 /\ threshold = InitialThreshold
    /\ pc = "run"
-----------------------------------------------------------------------------
(***************************************************************************)
(* Allocation                                                              *)
(***************************************************************************)
\* maybe_collect, on entry to every gc_new_*: collect first if the counter
\* has passed the threshold, and mark from the roots given.
MaybeCollect(roots) ==
    /\ IF bytes > threshold THEN pc' = "mark" /\ pending' = roots
                            ELSE pc' = "new" /\ pending' = pending
    /\ UNCHANGED <<objects, kind, cap, fields, marked, bytes, threshold>>

\* The new object o: its memory comes from malloc, and register_object links
\* it into the list and counts its bytes.
Register(o, k, c) ==
    /\ o \notin objects
    /\ objects' = objects \cup {o}
    /\ kind' = [kind EXCEPT ![o] = k]
    /\ cap' = [cap EXCEPT ![o] = c]
    /\ fields' = [fields EXCEPT ![o] = Empty]
    /\ bytes' = bytes + 1 + c
    /\ UNCHANGED collector

\* gc_array_push: doubles a full array, then stores v behind the last element.
PushCap(a) == IF Count(a) < cap[a] THEN cap[a]
              ELSE IF cap[a] = 0 THEN ArrayMinCap ELSE 2 * cap[a]

ArrayPush(a, v) ==
    /\ Count(a) < MaxItems
    /\ cap' = [cap EXCEPT ![a] = PushCap(a)]
    /\ bytes' = bytes + PushCap(a) - cap[a]
    /\ fields' = [fields EXCEPT ![a][Count(a) + 1] = v]

\* value_map_set: grows a map loaded above 3/4 before looking the key up (also
\* for a key it has); a key not there yet is copied and its bytes counted.
SetCap(m) == IF cap[m] = 0 THEN MapMinCap
             ELSE IF 4 * (Count(m) + 1) > 3 * cap[m] THEN 2 * cap[m] ELSE cap[m]

NewKeyBytes(m, k) == IF fields[m][k] = NoEntry THEN 1 ELSE 0

MapSet(m, k, v) ==
    /\ cap' = [cap EXCEPT ![m] = SetCap(m)]
    /\ bytes' = bytes + SetCap(m) - cap[m] + NewKeyBytes(m, k)
    /\ fields' = [fields EXCEPT ![m][k] = v]

\* Mutant of MapDelete: takes a key off the counter without looking whether
\* the map had it.
MapDeleteUncounts(m, k) ==
    /\ fields' = [fields EXCEPT ![m][k] = NoEntry]
    /\ bytes' = bytes - 1
    /\ UNCHANGED cap

\* value_map_delete: frees the key and leaves a tombstone; no byte is taken
\* off the counter.
MapDelete(m, k) ==
    /\ fields' = [fields EXCEPT ![m][k] = NoEntry]
    /\ UNCHANGED <<cap, bytes>>
-----------------------------------------------------------------------------
(***************************************************************************)
(* Collection                                                              *)
(***************************************************************************)
\* Mutants of MarkObject: the elements of arrays are not visited; an object
\* already marked is visited again.
MarkObjectFlat(o) ==
    /\ pc = "mark" /\ o \in pending
    /\ marked' = marked \cup {o}
    /\ pending' = (pending \ {o})
                  \cup (IF o \in marked \/ kind[o] = "array" THEN {} ELSE Refs(o))
    /\ UNCHANGED <<objects, kind, cap, fields, bytes, threshold, pc>>

MarkObjectAgain(o) ==
    /\ pc = "mark" /\ o \in pending
    /\ marked' = marked \cup {o}
    /\ pending' = (pending \ {o}) \cup Refs(o)
    /\ UNCHANGED <<objects, kind, cap, fields, bytes, threshold, pc>>

\* One mark_object call: an object already marked is left alone, any other is
\* marked and every value it holds will be visited.
MarkObject(o) ==
    /\ pc = "mark" /\ o \in pending
    /\ marked' = marked \cup {o}
    /\ pending' = (pending \ {o}) \cup (IF o \in marked THEN {} ELSE Refs(o))
    /\ UNCHANGED <<objects, kind, cap, fields, bytes, threshold, pc>>

\* mark_roots has returned and sweep starts.
BeginSweep ==
    /\ pc = "mark" /\ pending = {}
    /\ pc' = "sweep"
    /\ UNCHANGED <<objects, kind, cap, fields, marked, bytes, threshold, pending>>

\* sweep comes to an object without a mark: it is unlinked, its size (keys
\* excluded) subtracted, its memory freed.
FreeObject(o) ==
    /\ pc = "sweep" /\ o \in objects \ marked
    /\ objects' = objects \ {o}
    /\ bytes' = bytes - Size(o)
    /\ kind' = [kind EXCEPT ![o] = "string"]
    /\ cap' = [cap EXCEPT ![o] = 0]
    /\ fields' = [fields EXCEPT ![o] = Empty]
    /\ UNCHANGED <<marked, threshold, pc, pending>>

\* Mutant of EndCollect: the marks stay.
EndCollectMarked ==
    /\ pc = "sweep" /\ objects \subseteq marked
    /\ threshold' = IF 2 * bytes > InitialThreshold THEN 2 * bytes ELSE InitialThreshold
    /\ pc' = "new"
    /\ UNCHANGED <<objects, kind, cap, fields, marked, bytes, pending>>

\* sweep has been through the list, and has unmarked what it kept.  Back in
\* maybe_collect, the next threshold is twice what is left, and at least the
\* initial one.
EndCollect ==
    /\ pc = "sweep" /\ objects \subseteq marked
    /\ marked' = marked \ objects
    /\ threshold' = IF 2 * bytes > InitialThreshold THEN 2 * bytes ELSE InitialThreshold
    /\ pc' = "new"
    /\ UNCHANGED <<objects, kind, cap, fields, bytes, pending>>

Collect == \/ \E o \in Obj : MarkObject(o) \/ FreeObject(o)
           \/ BeginSweep
           \/ EndCollect

\* gc_free_all
FreeAll ==
    /\ objects' = {} /\ bytes' = 0
    /\ kind' = [o \in Obj |-> "string"]
    /\ cap' = [o \in Obj |-> 0]
    /\ fields' = [o \in Obj |-> Empty]
    /\ UNCHANGED collector
-----------------------------------------------------------------------------
\* The cells that the registered objects take up (Size of each), and those of
\* the keys live in maps.
Cells    == UNION {{o} \X (0..cap[o]) : o \in objects}
KeyCells == {e \in objects \X Slot : kind[e[1]] = "map" /\ fields[e[1]][e[2]] # NoEntry}
HeapSize == Cardinality(Cells)
KeyBytes == Cardinality(KeyCells)
=============================================================================
