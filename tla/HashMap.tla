------------------------------- MODULE HashMap -----------------------------
(***************************************************************************)
(* The open-addressing hash table behind maps: gc_map_find_slot and        *)
(* gc_map_grow of src/src/gc.c under value_map_set, get, has and delete of *)
(* src/src/value.c, probe by probe, for one map.                           *)
(***************************************************************************)
EXTENDS Integers, FiniteSets

CONSTANTS Key, Val, Missing,
          Hash,      \* [Key -> Nat], hash_string of each key
          MinCap,    \* MAP_MIN_CAP (8)
          Null,      \* an entry never used since the table was made
          Tomb,      \* an entry whose key was deleted
          None       \* no index

ASSUME MapAssumption ==
    /\ Hash \in [Key -> Nat]
    /\ MinCap \in Nat /\ MinCap >= 2
    /\ Null \notin Key /\ Tomb \notin Key /\ Null # Tomb
    /\ Missing \notin Val
    /\ None \notin Nat

VARIABLES cap, keyAt, valAt, count,  \* the ObjMap: entries are 0 .. cap-1
          pc, request, answer,       \* the call under way
          slot, tomb,                \* idx and first_tombstone of find_slot
          newCap, newKeyAt, newValAt, live, i  \* locals of gc_map_grow

table  == <<cap, keyAt, valAt, count>>
growth == <<newCap, newKeyAt, newValAt, live, i>>
vars   == <<table, pc, request, answer, slot, tomb, growth>>

Index(c) == 0..(c - 1)
Home(k, c) == Hash[k] % c
\* Mutant of Succ: steps by two.
SuccByTwo(s, c) == (s + 2) % c

Succ(s, c) == (s + 1) % c

Live(s) == keyAt[s] \notin {Null, Tomb}

Contents == [k \in Key |-> IF \E s \in Index(cap) : keyAt[s] = k
                           THEN valAt[CHOOSE s \in Index(cap) : keyAt[s] = k]
                           ELSE Missing]

D == INSTANCE Dictionary WITH dict <- Contents

TypeOK == /\ cap \in Nat /\ count \in Nat
          /\ keyAt \in [Index(cap) -> Key \cup {Null, Tomb}]
          /\ valAt \in [Index(cap) -> Val \cup {Missing}]
          /\ pc \in {"idle", "find", "grow", "move"}
          /\ request \in D!Call \cup {D!Idle}
          /\ slot \in Nat /\ tomb \in Nat \cup {None}
          /\ newCap \in Nat /\ live \in Nat /\ i \in Nat
          /\ newKeyAt \in [Index(newCap) -> Key \cup {Null}]
          /\ newValAt \in [Index(newCap) -> Val \cup {Missing}]

NoTable == [s \in Index(0) |-> Null]
NoGrowth == newCap = 0 /\ newKeyAt = NoTable /\ newValAt = NoTable /\ live = 0 /\ i = 0

Init == /\ cap = 0 /\ keyAt = NoTable /\ valAt = NoTable /\ count = 0
        /\ pc = "idle" /\ request = D!Idle /\ answer = Missing
        /\ slot = 0 /\ tomb = None
        /\ NoGrowth
-----------------------------------------------------------------------------
\* gc_map_find_slot starts at the home of k in a table of capacity c.
StartFind(k, c) == pc' = "find" /\ slot' = Home(k, c) /\ tomb' = None

StartGrow == /\ pc' = "grow"
             /\ newCap' = IF cap = 0 THEN MinCap ELSE 2 * cap
             /\ newKeyAt' = [s \in Index(newCap') |-> Null]
             /\ newValAt' = [s \in Index(newCap') |-> Missing]
             /\ live' = 0 /\ i' = 0

\* Mutant of Overloaded: the table grows only when it is full.
OverloadedFull == cap = 0 \/ count = cap

\* value_map_set grows the table if one more key would load it above 3/4,
\* counting live keys only, and before it knows whether the key is new.
Overloaded == cap = 0 \/ 4 * (count + 1) > 3 * cap

BeginSet(k, v) ==
    /\ pc = "idle"
    /\ request' = [op |-> "set", key |-> k, val |-> v]
    /\ \/ Overloaded /\ StartGrow /\ UNCHANGED <<slot, tomb>>
       \/ ~Overloaded /\ StartFind(k, cap) /\ UNCHANGED growth
    /\ UNCHANGED <<table, answer>>

\* value_map_get, value_map_has and value_map_delete.  On a map that never
\* had a key the look-up is over before it starts.
BeginLookup(o, k) ==
    /\ pc = "idle"
    /\ request' = [op |-> o, key |-> k]
    /\ StartFind(k, IF cap = 0 THEN 1 ELSE cap)
    /\ UNCHANGED <<table, answer, growth>>

Return(v) == pc' = "idle" /\ request' = D!Idle /\ answer' = v /\ slot' = 0 /\ tomb' = None

LookupEmpty == /\ pc = "find" /\ cap = 0
               /\ Return(IF request.op = "get" THEN Missing ELSE FALSE)
               /\ UNCHANGED <<table, growth>>

\* One turn of find_slot past a tombstone (the first one is remembered) or
\* another key.  Only a Null entry or the key itself ends the loop.
Probe == /\ pc = "find" /\ cap > 0
         /\ keyAt[slot] \notin {Null, request.key}
         /\ tomb' = IF keyAt[slot] = Tomb /\ tomb = None THEN slot ELSE tomb
         /\ slot' = Succ(slot, cap)
         /\ UNCHANGED <<table, pc, request, answer, growth>>

\* Mutant of FoundAt: a tombstone passed on the way is preferred to the key.
FoundAtTomb(s) == /\ pc = "find" /\ cap > 0
                  /\ keyAt[slot] \in {Null, request.key}
                  /\ s = IF tomb # None THEN tomb ELSE slot

\* The entry find_slot returns: the key's own, or the one to put it in.
FoundAt(s) == /\ pc = "find" /\ cap > 0
              /\ keyAt[slot] \in {Null, request.key}
              /\ s = IF keyAt[slot] = Null /\ tomb # None THEN tomb ELSE slot

\* Mutant of SetFound: counts a key it overwrites.
SetFoundCounts(s) ==
    /\ FoundAt(s) /\ request.op = "set"
    /\ valAt' = [valAt EXCEPT ![s] = request.val]
    /\ keyAt' = [keyAt EXCEPT ![s] = request.key] /\ count' = count + 1
    /\ Return(request.val)
    /\ UNCHANGED <<cap, growth>>

SetFound(s) ==
    /\ FoundAt(s) /\ request.op = "set"
    /\ valAt' = [valAt EXCEPT ![s] = request.val]
    /\ IF Live(s) THEN UNCHANGED <<keyAt, count>>
                  ELSE keyAt' = [keyAt EXCEPT ![s] = request.key] /\ count' = count + 1
    /\ Return(request.val)
    /\ UNCHANGED <<cap, growth>>

GetFound(s) ==
    /\ FoundAt(s) /\ request.op = "get"
    /\ Return(IF Live(s) THEN valAt[s] ELSE Missing)
    /\ UNCHANGED <<table, growth>>

\* Mutants of DeleteFound: the entry becomes empty instead of a tombstone; a
\* key that is not there is discounted too.
DeleteFoundClears(s) ==
    /\ FoundAt(s) /\ request.op = "delete"
    /\ IF Live(s) THEN /\ keyAt' = [keyAt EXCEPT ![s] = Null]
                       /\ valAt' = [valAt EXCEPT ![s] = Missing]
                       /\ count' = count - 1
                  ELSE UNCHANGED <<keyAt, valAt, count>>
    /\ Return(Live(s))
    /\ UNCHANGED <<cap, growth>>

DeleteFoundDiscounts(s) ==
    /\ FoundAt(s) /\ request.op = "delete"
    /\ keyAt' = [keyAt EXCEPT ![s] = IF Live(s) THEN Tomb ELSE keyAt[s]]
    /\ valAt' = [valAt EXCEPT ![s] = Missing]
    /\ count' = count - 1
    /\ Return(Live(s))
    /\ UNCHANGED <<cap, growth>>

DeleteFound(s) ==
    /\ FoundAt(s) /\ request.op = "delete"
    /\ IF Live(s) THEN /\ keyAt' = [keyAt EXCEPT ![s] = Tomb]
                       /\ valAt' = [valAt EXCEPT ![s] = Missing]
                       /\ count' = count - 1
                  ELSE UNCHANGED <<keyAt, valAt, count>>
    /\ Return(Live(s))
    /\ UNCHANGED <<cap, growth>>
-----------------------------------------------------------------------------
\* gc_map_grow: the next old entry; an unused one is passed over.
SkipEntry == /\ pc = "grow" /\ i < cap /\ ~Live(i)
             /\ i' = i + 1
             /\ UNCHANGED <<table, pc, request, answer, slot, tomb, newCap, newKeyAt, newValAt, live>>

StartMove == /\ pc = "grow" /\ i < cap /\ Live(i)
             /\ pc' = "move"
             /\ slot' = Home(keyAt[i], newCap)
             /\ UNCHANGED <<table, request, answer, tomb, growth>>

\* find_slot in the new table, which has no tombstones and not this key.
MoveProbe == /\ pc = "move" /\ newKeyAt[slot] # Null
             /\ slot' = Succ(slot, newCap)
             /\ UNCHANGED <<table, pc, request, answer, tomb, growth>>

MoveEntry == /\ pc = "move" /\ newKeyAt[slot] = Null
             /\ newKeyAt' = [newKeyAt EXCEPT ![slot] = keyAt[i]]
             /\ newValAt' = [newValAt EXCEPT ![slot] = valAt[i]]
             /\ live' = live + 1 /\ i' = i + 1
             /\ pc' = "grow" /\ slot' = 0
             /\ UNCHANGED <<table, request, answer, tomb, newCap>>

\* The new table replaces the old one, and value_map_set goes on to look up.
EndGrow == /\ pc = "grow" /\ i = cap
           /\ cap' = newCap /\ keyAt' = newKeyAt /\ valAt' = newValAt /\ count' = live
           /\ newCap' = 0 /\ newKeyAt' = NoTable /\ newValAt' = NoTable /\ live' = 0 /\ i' = 0
           /\ StartFind(request.key, newCap)
           /\ UNCHANGED <<request, answer>>
-----------------------------------------------------------------------------
Begin == \E k \in Key : \/ \E v \in Val : BeginSet(k, v)
                        \/ \E o \in {"get", "delete"} : BeginLookup(o, k)

Step == \/ LookupEmpty \/ Probe
        \/ \E s \in Index(cap) : SetFound(s) \/ GetFound(s) \/ DeleteFound(s)
        \/ SkipEntry \/ StartMove \/ MoveProbe \/ MoveEntry \/ EndGrow

Next == Begin \/ Step

Spec == Init /\ [][Next]_vars

\* The interpreter does not stop in the middle of an operation on a map.
FairSpec == Spec /\ WF_vars(Step)
-----------------------------------------------------------------------------
\* The entries find_slot looks at on its way from the home of k to entry s.
Before(k, s, c) == LET h == Home(k, c) IN
    IF h <= s THEN h..(s - 1) ELSE (h..(c - 1)) \cup (0..(s - 1))

\* A look-up of a live key cannot stop short of it: there is no Null entry
\* between its home and its place, in either table, and no key is there twice.
ChainsIntact ==
    /\ \A s \in Index(cap) : Live(s) =>
         /\ \A b \in Before(keyAt[s], s, cap) : keyAt[b] \notin {Null, keyAt[s]}
         /\ \A t \in Index(cap) : keyAt[t] = keyAt[s] => t = s
    /\ \A s \in Index(newCap) : newKeyAt[s] # Null =>
         \A b \in Before(newKeyAt[s], s, newCap) : newKeyAt[b] \notin {Null, newKeyAt[s]}

\* len(m) is the number of keys the map has.
CountExact == count = Cardinality({s \in Index(cap) : Live(s)})

\* Live keys take up at most three quarters of the entries, whatever the order
\* of sets, deletes and growths; so find_slot finds a Null entry in the new
\* table of gc_map_grow, which has no tombstone to hide one.
LoadBounded == /\ 4 * count <= 3 * cap
               /\ pc = "move" => \E s \in Index(newCap) : newKeyAt[s] = Null

\* The table behaves as a dictionary, growing and tombstones included.
RefinesDictionary == D!Spec

\* Every operation returns as long as some entry has never been used.
HasNull == \E s \in Index(cap) : keyAt[s] = Null
ReturnsWithRoom == (pc = "find" /\ HasNull) ~> pc = "idle"

\* Every operation returns.
AlwaysReturns == (pc # "idle") ~> (pc = "idle")
=============================================================================
