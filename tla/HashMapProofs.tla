---------------------------- MODULE HashMapProofs --------------------------
(***************************************************************************)
(* Proofs about HashMap, for any keys, values, hash function and minimal   *)
(* capacity: types, load, count, probe chains, and that the table behaves  *)
(* as a Dictionary.                                                        *)
(***************************************************************************)
EXTENDS HashMap, FiniteSetTheorems, TLAPS

\* A look-up for a key has a call that asks for it; growth belongs to a set.
CallUnderWay ==
    /\ pc = "idle" => request = D!Idle
    /\ pc # "idle" => request \in D!Call
    /\ pc \in {"grow", "move"} => request.op = "set"

\* A table is never smaller than the first one.
Sized == cap = 0 \/ cap >= MinCap

\* No entry on the way from the home of k to s ends a search for k.
Passed(k, s, c, ka) == \A b \in Before(k, s, c) : ka[b] \notin {Null, k}

\* find_slot has passed the entries behind it, and those before the first
\* tombstone it remembers.
Searching ==
    pc = "find" /\ cap > 0 =>
       /\ slot \in Index(cap)
       /\ Passed(request.key, slot, cap, keyAt)
       /\ tomb # None => /\ tomb \in Index(cap) /\ keyAt[tomb] = Tomb
                         /\ Passed(request.key, tomb, cap, keyAt)

\* The used entries among the first n of a table.
Used(ka, n) == {s \in Index(n) : ka[s] \notin {Null, Tomb}}

\* gc_map_grow has moved the live entries below i, each once, and only those.
Growing ==
    /\ pc \in {"idle", "find"} => NoGrowth
    /\ pc \in {"grow", "move"} =>
         /\ newCap = (IF cap = 0 THEN MinCap ELSE 2 * cap) /\ i <= cap
         /\ \A j \in Index(i) : Live(j) =>
              \E s \in Index(newCap) : newKeyAt[s] = keyAt[j] /\ newValAt[s] = valAt[j]
         /\ \A s \in Index(newCap) : newKeyAt[s] # Null =>
              \E j \in Index(i) : newKeyAt[s] = keyAt[j] /\ newValAt[s] = valAt[j]
         /\ live = Cardinality(Used(newKeyAt, newCap))
         /\ live = Cardinality(Used(keyAt, i))
    /\ pc = "move" => /\ i < cap /\ Live(i) /\ slot \in Index(newCap)
                      /\ Passed(keyAt[i], slot, newCap, newKeyAt)

\* A set that no longer grows the table has room for its key.
Room == /\ 4 * count <= 3 * cap
        /\ pc = "find" /\ request.op = "set" => 4 * (count + 1) <= 3 * cap

\* Only a live entry has a value.
ValuesLive == \A s \in Index(cap) : Live(s) => valAt[s] \in Val

IInv == /\ TypeOK
        /\ CallUnderWay
        /\ Sized
        /\ Searching
        /\ Growing
        /\ Room
        /\ ValuesLive
        /\ ChainsIntact
        /\ CountExact
-----------------------------------------------------------------------------
(***************************************************************************)
(* Places in a table                                                       *)
(***************************************************************************)
\* A home is an entry of the table.
LEMMA HomeInTable ==
  ASSUME NEW k \in Key, NEW c \in Nat \ {0}
  PROVE  Home(k, c) \in Index(c)
<1>1. Hash[k] \in Nat
  BY MapAssumption
<1> QED BY <1>1 DEF Home, Index

\* A step wraps around at the end of the table, and nowhere else.
LEMMA SuccWraps ==
  ASSUME NEW c \in Nat \ {0}, NEW s \in Index(c)
  PROVE  /\ Succ(s, c) = IF s = c - 1 THEN 0 ELSE s + 1
         /\ Succ(s, c) \in Index(c)
<1>1. CASE s = c - 1
  <2>1. (s + 1) % c = 0
    BY <1>1 DEF Index
  <2> QED BY <1>1, <2>1 DEF Succ, Index
<1>2. CASE s # c - 1
  <2>1. s + 1 \in 0..(c - 1)
    BY <1>2 DEF Index
  <2>2. (s + 1) % c = s + 1
    BY <2>1
  <2> QED BY <1>2, <2>1, <2>2 DEF Succ, Index
<1> QED BY <1>1, <1>2

\* The way to an entry stays in the table, does not include the entry, and is
\* empty if the entry is the home.
LEMMA WayInTable ==
  ASSUME NEW k \in Key, NEW c \in Nat \ {0}, NEW s \in Index(c)
  PROVE  /\ Before(k, s, c) \subseteq Index(c) \ {s}
         /\ Before(k, Home(k, c), c) = {}
BY HomeInTable DEF Before, Index

\* One step adds the entry left to the way.
LEMMA WayGrows ==
  ASSUME NEW k \in Key, NEW c \in Nat \ {0}, NEW s \in Index(c)
  PROVE  Before(k, Succ(s, c), c) \subseteq Before(k, s, c) \cup {s}
<1>1. Home(k, c) \in 0..(c - 1) /\ s \in 0..(c - 1)
  BY HomeInTable DEF Index
<1>2. Succ(s, c) = IF s = c - 1 THEN 0 ELSE s + 1
  BY SuccWraps
<1> QED BY <1>1, <1>2 DEF Before

\* Of two entries, one is on the way to the other.
LEMMA WaysOrdered ==
  ASSUME NEW k \in Key, NEW c \in Nat \ {0}, NEW s \in Index(c), NEW t \in Index(c), s # t
  PROVE  s \in Before(k, t, c) \/ t \in Before(k, s, c)
<1>1. Home(k, c) \in 0..(c - 1) /\ s \in 0..(c - 1) /\ t \in 0..(c - 1)
  BY HomeInTable DEF Index
<1> QED BY <1>1 DEF Before
-----------------------------------------------------------------------------
(***************************************************************************)
(* Calls, and counting used entries                                        *)
(***************************************************************************)
\* What a call asks for.
LEMMA CallParts ==
  ASSUME NEW r \in D!Call
  PROVE  /\ r.op \in {"set", "get", "delete"} /\ r.key \in Key
         /\ r.op = "set" => r.val \in Val
         /\ r # D!Idle
BY DEF D!Call, D!Idle

\* A table has at most as many used entries as entries, and no fewer than a
\* part of it.
LEMMA UsedBounded ==
  ASSUME NEW ka, NEW n \in Nat, NEW m \in Nat, n <= m
  PROVE  /\ IsFiniteSet(Used(ka, n)) /\ Cardinality(Used(ka, n)) \in Nat
         /\ Cardinality(Used(ka, n)) <= n
         /\ Cardinality(Used(ka, n)) <= Cardinality(Used(ka, m))
<1>1. \A j \in Nat : IsFiniteSet(Index(j)) /\ Cardinality(Index(j)) = j
  BY FS_Interval DEF Index
<1>2. Used(ka, n) \subseteq Index(n) /\ Used(ka, m) \subseteq Index(m)
  BY DEF Used
<1>3. Used(ka, n) \subseteq Used(ka, m)
  BY DEF Used, Index
<1>4. IsFiniteSet(Used(ka, n)) /\ IsFiniteSet(Used(ka, m))
  BY <1>1, <1>2, FS_Subset
<1>5. Cardinality(Used(ka, n)) <= n
  BY <1>1, <1>2, FS_Subset
<1> QED BY <1>3, <1>4, <1>5, FS_Subset, FS_CardinalityType

\* The part of a table grows by its next entry if that is used.
LEMMA UsedNext ==
  ASSUME NEW ka, NEW n \in Nat
  PROVE  Cardinality(Used(ka, n + 1)) =
         Cardinality(Used(ka, n)) + (IF ka[n] \in {Null, Tomb} THEN 0 ELSE 1)
<1>1. IsFiniteSet(Used(ka, n)) /\ Cardinality(Used(ka, n)) \in Nat
  BY UsedBounded
<1>2. n \notin Used(ka, n)
  BY DEF Used, Index
<1>3. Index(n + 1) = Index(n) \cup {n}
  BY DEF Index
<1>4. Used(ka, n + 1) = IF ka[n] \in {Null, Tomb} THEN Used(ka, n) ELSE Used(ka, n) \cup {n}
  BY <1>3 DEF Used
<1> QED BY <1>1, <1>2, <1>4, FS_AddElement

\* An unused entry that gets a key is one more used entry.
LEMMA UsedFilled ==
  ASSUME NEW ka, NEW kb, NEW n \in Nat, NEW s \in Index(n),
         \A t \in Index(n) : t # s => kb[t] = ka[t],
         ka[s] \in {Null, Tomb}, kb[s] \notin {Null, Tomb}
  PROVE  Cardinality(Used(kb, n)) = Cardinality(Used(ka, n)) + 1
<1>1. IsFiniteSet(Used(ka, n)) /\ Cardinality(Used(ka, n)) \in Nat
  BY UsedBounded
<1>2. s \notin Used(ka, n)
  BY DEF Used
<1>3. Used(kb, n) = Used(ka, n) \cup {s}
  BY DEF Used
<1> QED BY <1>1, <1>2, <1>3, FS_AddElement

\* A used entry that becomes a tombstone is one less.
LEMMA UsedDropped ==
  ASSUME NEW ka, NEW kb, NEW n \in Nat, NEW s \in Index(n),
         \A t \in Index(n) : t # s => kb[t] = ka[t],
         ka[s] \notin {Null, Tomb}, kb[s] = Tomb
  PROVE  Cardinality(Used(kb, n)) = Cardinality(Used(ka, n)) - 1
<1>1. IsFiniteSet(Used(ka, n)) /\ Cardinality(Used(ka, n)) \in Nat
  BY UsedBounded
<1>2. s \in Used(ka, n)
  BY DEF Used
<1>3. Used(kb, n) = Used(ka, n) \ {s}
  BY DEF Used
<1> QED BY <1>1, <1>2, <1>3, FS_RemoveElement

\* A fresh table has no used entry.
LEMMA UsedFresh ==
  ASSUME NEW n \in Nat, NEW ka, \A s \in Index(n) : ka[s] = Null
  PROVE  Cardinality(Used(ka, n)) = 0
<1>1. Used(ka, n) = {}
  BY DEF Used
<1> QED BY <1>1, FS_EmptySet
-----------------------------------------------------------------------------
(***************************************************************************)
(* What a search knows                                                     *)
(***************************************************************************)
\* A search for k that meets a Null entry shows that k is nowhere.
LEMMA NullProvesAbsence ==
  ASSUME IInv, pc = "find", cap > 0, keyAt[slot] = Null
  PROVE  \A t \in Index(cap) : keyAt[t] # request.key
<1>1. /\ cap \in Nat \ {0} /\ slot \in Index(cap) /\ request.key \in Key
      /\ Passed(request.key, slot, cap, keyAt)
  BY CallParts DEF IInv, TypeOK, CallUnderWay, Searching
<1>2. SUFFICES ASSUME NEW t \in Index(cap), keyAt[t] = request.key
               PROVE  FALSE
  OBVIOUS
<1>3. t # slot /\ Live(t)
  BY <1>1, <1>2, MapAssumption DEF Live
<1>4. t \notin Before(request.key, slot, cap)
  BY <1>1, <1>2 DEF Passed
<1>5. slot \in Before(request.key, t, cap)
  BY <1>1, <1>3, <1>4, WaysOrdered
<1>6. keyAt[slot] # Null
  BY <1>2, <1>3, <1>5 DEF IInv, ChainsIntact
<1> QED BY <1>6

\* find_slot returns the entry of the key if it has one, and otherwise an
\* unused entry that a search for the key will reach.
LEMMA FoundRight ==
  ASSUME IInv, NEW s \in Index(cap), FoundAt(s)
  PROVE  /\ request.key \in Key /\ cap \in Nat \ {0} /\ pc = "find" /\ request \in D!Call
         /\ Passed(request.key, s, cap, keyAt)
         /\ Live(s) => keyAt[s] = request.key
         /\ ~Live(s) => \A t \in Index(cap) : keyAt[t] # request.key
<1>1. /\ cap \in Nat \ {0} /\ slot \in Index(cap) /\ pc = "find"
      /\ request.key \in Key /\ request \in D!Call
      /\ Passed(request.key, slot, cap, keyAt)
      /\ keyAt[slot] \in {Null, request.key}
      /\ tomb # None => keyAt[tomb] = Tomb /\ Passed(request.key, tomb, cap, keyAt)
  BY CallParts DEF IInv, TypeOK, CallUnderWay, Searching, FoundAt
<1>2. CASE keyAt[slot] = Null
  <2>1. \A t \in Index(cap) : keyAt[t] # request.key
    BY <1>1, <1>2, NullProvesAbsence
  <2>2. CASE tomb # None
    <3>1. s = tomb
      BY <1>2, <2>2 DEF FoundAt
    <3> QED BY <1>1, <2>1, <2>2, <3>1 DEF Live
  <2>3. CASE tomb = None
    <3>1. s = slot
      BY <2>3 DEF FoundAt
    <3> QED BY <1>1, <1>2, <2>1, <3>1 DEF Live
  <2> QED BY <2>2, <2>3
<1>3. CASE keyAt[slot] = request.key
  <2>1. keyAt[slot] # Null
    BY <1>1, <1>3, MapAssumption
  <2>2. s = slot
    BY <2>1 DEF FoundAt
  <2>3. Live(s)
    BY <1>1, <1>3, <2>2, MapAssumption DEF Live
  <2> QED BY <1>1, <1>3, <2>2, <2>3
<1> QED BY <1>1, <1>2, <1>3
-----------------------------------------------------------------------------
(***************************************************************************)
(* IInv is inductive: one lemma per action                                 *)
(***************************************************************************)
LEMMA InitInv == Init => IInv
<1> SUFFICES ASSUME Init PROVE IInv
  OBVIOUS
<1>1. Index(0) = {}
  BY DEF Index
<1>2. TypeOK
  BY <1>1 DEF Init, TypeOK, NoGrowth, NoTable, D!Idle
<1>3. CallUnderWay /\ Sized /\ Searching /\ Growing /\ Room
  BY DEF Init, CallUnderWay, Sized, Searching, Growing, Room
<1>4. ValuesLive /\ ChainsIntact
  BY <1>1 DEF Init, NoGrowth, ValuesLive, ChainsIntact
<1>5. CountExact
  BY <1>1, FS_EmptySet DEF Init, CountExact
<1> QED BY <1>2, <1>3, <1>4, <1>5 DEF IInv

\* Steps that touch neither table keep what is said of the tables alone.
LEMMA TablesKept ==
  ASSUME IInv, UNCHANGED <<table, newCap, newKeyAt>>
  PROVE  (Sized /\ ValuesLive /\ ChainsIntact /\ CountExact /\ 4 * count <= 3 * cap)'
BY DEF IInv, table, Sized, ValuesLive, ChainsIntact, CountExact, Room, Live

\* A search starts at the home with nothing passed.
LEMMA SearchStarts ==
  ASSUME NEW k \in Key, NEW c \in Nat \ {0}, StartFind(k, c)
  PROVE  /\ pc' = "find" /\ slot' \in Index(c) /\ slot' \in Nat /\ tomb' = None
         /\ \A ka : Passed(k, slot', c, ka)
<1>1. slot' = Home(k, c) /\ slot' \in Index(c) /\ Before(k, slot', c) = {}
  BY HomeInTable, WayInTable DEF StartFind
<1> QED BY <1>1 DEF StartFind, Index, Passed

LEMMA BeginSetKeeps ==
  ASSUME IInv, NEW k \in Key, NEW v \in Val, BeginSet(k, v)
  PROVE  IInv'
<1>1. /\ cap \in Nat /\ count \in Nat /\ NoGrowth
      /\ UNCHANGED <<table, answer>>
      /\ request' \in D!Call /\ request'.op = "set" /\ request'.key = k
  BY DEF IInv, TypeOK, Growing, BeginSet, D!Call
<1>2. CASE Overloaded /\ StartGrow /\ UNCHANGED <<slot, tomb>>
  <2>1. /\ pc' = "grow" /\ newCap' = (IF cap = 0 THEN MinCap ELSE 2 * cap) /\ newCap' \in Nat
        /\ live' = 0 /\ i' = 0
        /\ newKeyAt' = [s \in Index(newCap') |-> Null]
        /\ newValAt' = [s \in Index(newCap') |-> Missing]
    BY <1>1, <1>2, MapAssumption DEF StartGrow
  <2>2. TypeOK'
    BY <1>1, <1>2, <2>1 DEF IInv, TypeOK, table
  <2>3. Index(0) = {}
    BY DEF Index
  <2>4. /\ Cardinality(Used(newKeyAt', newCap')) = 0
        /\ Cardinality(Used(keyAt', 0)) = 0
    BY <2>1, <2>3, UsedFresh
  <2>5. Growing'
    BY <1>1, <2>1, <2>3, <2>4 DEF Growing, table
  <2>6. CallUnderWay' /\ Searching'
    BY <1>1, <2>1 DEF CallUnderWay, Searching
  <2>7. (Sized /\ ValuesLive /\ CountExact /\ Room)'
    BY <1>1, <2>1 DEF IInv, table, Sized, ValuesLive, CountExact, Room, Live
  <2>8. ChainsIntact'
    BY <1>1, <2>1 DEF IInv, table, ChainsIntact, Live
  <2> QED BY <2>2, <2>5, <2>6, <2>7, <2>8 DEF IInv
<1>3. CASE ~Overloaded /\ StartFind(k, cap) /\ UNCHANGED growth
  <2>1. cap \in Nat \ {0} /\ 4 * (count + 1) <= 3 * cap
    BY <1>1, <1>3 DEF Overloaded
  <2>2. /\ pc' = "find" /\ slot' \in Index(cap) /\ slot' \in Nat /\ tomb' = None
        /\ Passed(k, slot', cap, keyAt)
    BY <1>3, <2>1, SearchStarts
  <2>3. TypeOK'
    BY <1>1, <1>3, <2>2 DEF IInv, TypeOK, table, growth
  <2>4. CallUnderWay' /\ Searching'
    BY <1>1, <2>1, <2>2 DEF CallUnderWay, Searching, table
  <2>5. Growing'
    BY <1>1, <1>3, <2>2 DEF Growing, NoGrowth, growth
  <2>6. Room'
    BY <1>1, <2>1, <2>2 DEF Room, table
  <2> QED BY <1>1, <1>3, <2>3, <2>4, <2>5, <2>6, TablesKept DEF IInv, growth
<1> QED BY <1>2, <1>3 DEF BeginSet

LEMMA BeginLookupKeeps ==
  ASSUME IInv, NEW k \in Key, NEW o \in {"get", "delete"}, BeginLookup(o, k)
  PROVE  IInv'
<1> DEFINE c == IF cap = 0 THEN 1 ELSE cap
<1>1. /\ cap \in Nat /\ c \in Nat \ {0} /\ NoGrowth
      /\ UNCHANGED <<table, answer, growth>> /\ StartFind(k, c)
      /\ request' \in D!Call /\ request'.op # "set" /\ request'.key = k
  BY DEF IInv, TypeOK, Growing, BeginLookup, D!Call
<1>2. /\ pc' = "find" /\ slot' \in Index(c) /\ slot' \in Nat /\ tomb' = None
      /\ Passed(k, slot', c, keyAt)
  BY <1>1, SearchStarts
<1>3. TypeOK'
  BY <1>1, <1>2 DEF IInv, TypeOK, table, growth
<1>4. CallUnderWay' /\ Searching'
  BY <1>1, <1>2 DEF CallUnderWay, Searching, table
<1>5. Growing'
  BY <1>1, <1>2 DEF Growing, NoGrowth, growth
<1>6. (Sized /\ ValuesLive /\ ChainsIntact /\ CountExact /\ 4 * count <= 3 * cap)'
  BY <1>1, TablesKept DEF growth
<1>7. Room'
  BY <1>1, <1>6 DEF Room
<1> QED BY <1>3, <1>4, <1>5, <1>6, <1>7 DEF IInv

\* A call that returns leaves nothing of itself behind.
LEMMA ReturnEffect ==
  ASSUME IInv, pc = "find", NEW v, Return(v)
  PROVE  /\ pc' = "idle" /\ request' = D!Idle /\ answer' = v /\ slot' \in Nat /\ tomb' = None
         /\ NoGrowth /\ CallUnderWay' /\ Searching'
         /\ UNCHANGED growth => Growing'
<1>1. pc' = "idle" /\ request' = D!Idle /\ answer' = v /\ slot' \in Nat /\ tomb' = None
  BY DEF Return
<1>2. NoGrowth
  BY DEF IInv, Growing
<1> QED BY <1>1, <1>2 DEF CallUnderWay, Searching, Growing, NoGrowth, growth

LEMMA ReturnKeeps ==
  ASSUME IInv, pc = "find", NEW v, Return(v), UNCHANGED <<table, growth>>
  PROVE  IInv'
<1>1. /\ pc' = "idle" /\ request' = D!Idle /\ slot' \in Nat /\ tomb' = None
      /\ CallUnderWay' /\ Searching' /\ Growing'
  BY ReturnEffect
<1>2. TypeOK'
  BY <1>1 DEF IInv, TypeOK, table, growth
<1>3. (Sized /\ ValuesLive /\ ChainsIntact /\ CountExact /\ 4 * count <= 3 * cap)'
  BY TablesKept DEF growth
<1>4. Room'
  BY <1>1, <1>3 DEF Room
<1> QED BY <1>1, <1>2, <1>3, <1>4 DEF IInv

LEMMA ProbeKeeps ==
  ASSUME IInv, Probe
  PROVE  IInv'
<1> DEFINE k == request.key
<1>1. /\ cap \in Nat \ {0} /\ k \in Key /\ slot \in Index(cap) /\ pc = "find"
      /\ keyAt[slot] \notin {Null, k} /\ Passed(k, slot, cap, keyAt)
      /\ tomb # None => /\ tomb \in Index(cap) /\ keyAt[tomb] = Tomb
                        /\ Passed(k, tomb, cap, keyAt)
      /\ tomb' = (IF keyAt[slot] = Tomb /\ tomb = None THEN slot ELSE tomb)
      /\ slot' = Succ(slot, cap)
      /\ UNCHANGED <<table, pc, request, answer, growth>>
  BY CallParts DEF IInv, TypeOK, CallUnderWay, Searching, Probe
<1>2. slot' \in Index(cap) /\ slot' \in Nat
  BY <1>1, SuccWraps DEF Index
<1>3. tomb' # None => /\ tomb' \in Index(cap) /\ keyAt[tomb'] = Tomb
                      /\ Passed(k, tomb', cap, keyAt)
  BY <1>1
<1>4. Passed(k, slot', cap, keyAt)
  BY <1>1, WayGrows DEF Passed
<1>5. tomb' \in Nat \cup {None}
  BY <1>3 DEF Index
<1>6. TypeOK'
  BY <1>1, <1>2, <1>5 DEF IInv, TypeOK, table, growth
<1>7. CallUnderWay' /\ Searching'
  BY <1>1, <1>2, <1>3, <1>4 DEF IInv, CallUnderWay, Searching, table
<1>8. Growing' /\ Room'
  BY <1>1 DEF IInv, Growing, NoGrowth, Room, table, growth
<1> QED BY <1>1, <1>6, <1>7, <1>8, TablesKept DEF IInv, growth

\* Overwriting the value of a key, or entering the key where no search for it
\* stops earlier and no other entry has it.
LEMMA SetFoundKeeps ==
  ASSUME IInv, NEW s \in Index(cap), SetFound(s)
  PROVE  IInv'
<1> DEFINE k == request.key
           v == request.val
<1>1. /\ k \in Key /\ cap \in Nat \ {0} /\ pc = "find" /\ request \in D!Call
      /\ request.op = "set" /\ v \in Val
      /\ k \notin {Null, Tomb}
      /\ Passed(k, s, cap, keyAt)
      /\ Live(s) => keyAt[s] = k
      /\ ~Live(s) => \A t \in Index(cap) : keyAt[t] # k
      /\ keyAt \in [Index(cap) -> Key \cup {Null, Tomb}] /\ count \in Nat
      /\ UNCHANGED <<cap, growth>> /\ Return(v)
      /\ valAt' = [valAt EXCEPT ![s] = v]
      /\ valAt \in [Index(cap) -> Val \cup {Missing}]
  BY FoundRight, CallParts, MapAssumption DEF SetFound, IInv, TypeOK
<1>2. /\ pc' = "idle" /\ request' = D!Idle /\ slot' \in Nat /\ tomb' = None
      /\ CallUnderWay' /\ Searching' /\ Growing'
  BY <1>1, ReturnEffect DEF SetFound
<1>3. /\ keyAt' = IF Live(s) THEN keyAt ELSE [keyAt EXCEPT ![s] = k]
      /\ count' = IF Live(s) THEN count ELSE count + 1
  BY DEF SetFound
<1>4. /\ keyAt' \in [Index(cap) -> Key \cup {Null, Tomb}]
      /\ \A t \in Index(cap) : keyAt'[t] = IF t = s THEN k ELSE keyAt[t]
  BY <1>1, <1>3
<1>5. count' \in Nat /\ valAt' \in [Index(cap) -> Val \cup {Missing}]
  BY <1>1, <1>3
<1>6. TypeOK'
  BY <1>1, <1>2, <1>4, <1>5 DEF IInv, TypeOK, growth
<1>7. Sized' /\ ValuesLive'
  BY <1>1, <1>4 DEF IInv, Sized, ValuesLive, Live
<1>8. Room'
  BY <1>1, <1>2, <1>3 DEF IInv, TypeOK, Room
<1>9. CountExact'
  <2>1. count = Cardinality(Used(keyAt, cap))
    BY DEF IInv, CountExact, Used, Live
  <2>2. CASE Live(s)
    BY <1>1, <1>3, <2>1, <2>2 DEF CountExact, Used, Live
  <2>3. CASE ~Live(s)
    <3>1. cap \in Nat /\ keyAt[s] \in {Null, Tomb} /\ keyAt'[s] \notin {Null, Tomb}
      BY <1>1, <1>4, <2>3 DEF Live
    <3>2. Cardinality(Used(keyAt', cap)) = Cardinality(Used(keyAt, cap)) + 1
      BY <1>4, <3>1, UsedFilled
    <3> QED BY <1>1, <1>3, <2>1, <2>3, <3>2 DEF CountExact, Used, Live
  <2> QED BY <2>2, <2>3
<1>10. ChainsIntact'
  <2>1. \A t \in Index(cap) : t # s /\ keyAt[t] \notin {Null, Tomb} => keyAt[t] # k
    BY <1>1 DEF IInv, ChainsIntact, Live
  <2>2. \A t \in Index(cap) : \A b \in Index(cap) \ {t} :
          keyAt[t] \notin {Null, Tomb} /\ keyAt[b] \notin {Null, keyAt[t]} /\ t # s
             => keyAt'[b] \notin {Null, keyAt[t]}
    BY <1>1, <1>4, <2>1
  <2>3. ASSUME NEW t \in Index(cap), Live(t)'
        PROVE  /\ \A b \in Before(keyAt'[t], t, cap) : keyAt'[b] \notin {Null, keyAt'[t]}
               /\ \A u \in Index(cap) : keyAt'[u] = keyAt'[t] => u = t
    <3>1. keyAt'[t] \in Key
      BY <1>4, <2>3 DEF Live
    <3>2. Before(keyAt'[t], t, cap) \subseteq Index(cap) \ {t}
      BY <1>1, <3>1, WayInTable
    <3>3. CASE t = s
      <4>1. \A b \in Before(k, s, cap) : keyAt[b] \notin {Null, k} /\ b # s
        BY <1>1, <1>4, <3>2, <3>3 DEF Passed
      <4>2. \A b \in Before(k, s, cap) : keyAt'[b] \notin {Null, k}
        BY <1>4, <3>2, <3>3, <4>1
      <4>3. \A u \in Index(cap) : keyAt'[u] = k => u = s
        BY <1>1, <1>4, <2>1
      <4> QED BY <1>4, <3>3, <4>2, <4>3
    <3>4. CASE t # s
      <4>1. keyAt'[t] = keyAt[t] /\ Live(t)
        BY <1>4, <2>3, <3>4 DEF Live
      <4>2. /\ \A b \in Before(keyAt[t], t, cap) : keyAt[b] \notin {Null, keyAt[t]}
            /\ \A u \in Index(cap) : keyAt[u] = keyAt[t] => u = t
        BY <4>1 DEF IInv, ChainsIntact
      <4>3. \A b \in Before(keyAt[t], t, cap) : keyAt'[b] \notin {Null, keyAt[t]}
        BY <2>2, <3>2, <3>4, <4>1, <4>2 DEF Live
      <4>4. \A u \in Index(cap) : keyAt'[u] = keyAt[t] => u = t
        BY <1>4, <2>1, <3>4, <4>1, <4>2 DEF Live
      <4> QED BY <4>1, <4>3, <4>4
    <3> QED BY <3>3, <3>4
  <2>4. \A t \in Index(newCap') : newKeyAt'[t] # Null =>
          \A b \in Before(newKeyAt'[t], t, newCap') : newKeyAt'[b] \notin {Null, newKeyAt'[t]}
    BY <1>1 DEF IInv, ChainsIntact, growth
  <2> QED BY <1>1, <2>3, <2>4 DEF ChainsIntact
<1> QED BY <1>2, <1>6, <1>7, <1>8, <1>9, <1>10 DEF IInv

LEMMA GetFoundKeeps ==
  ASSUME IInv, NEW s \in Index(cap), GetFound(s)
  PROVE  IInv'
<1>1. pc = "find"
  BY DEF GetFound, FoundAt
<1> QED BY <1>1, ReturnKeeps DEF GetFound

\* A tombstone ends no search, so the ways of the other keys stay open.
LEMMA DeleteFoundKeeps ==
  ASSUME IInv, NEW s \in Index(cap), DeleteFound(s)
  PROVE  IInv'
<1>1. /\ cap \in Nat \ {0} /\ pc = "find" /\ count \in Nat
      /\ keyAt \in [Index(cap) -> Key \cup {Null, Tomb}]
      /\ valAt \in [Index(cap) -> Val \cup {Missing}]
      /\ UNCHANGED <<cap, growth>> /\ Return(Live(s))
  BY DEF DeleteFound, FoundAt, IInv, TypeOK
<1>2. CASE ~Live(s)
  <2>1. UNCHANGED table
    BY <1>1, <1>2 DEF DeleteFound, table
  <2> QED BY <1>1, <2>1, ReturnKeeps
<1>3. CASE Live(s)
  <2>1. /\ keyAt' = [keyAt EXCEPT ![s] = Tomb] /\ valAt' = [valAt EXCEPT ![s] = Missing]
        /\ count' = count - 1
    BY <1>3 DEF DeleteFound
  <2>2. /\ pc' = "idle" /\ request' = D!Idle /\ slot' \in Nat /\ tomb' = None
        /\ CallUnderWay' /\ Searching' /\ Growing'
    BY <1>1, ReturnEffect
  <2>3. /\ keyAt' \in [Index(cap) -> Key \cup {Null, Tomb}]
        /\ valAt' \in [Index(cap) -> Val \cup {Missing}]
        /\ \A t \in Index(cap) : keyAt'[t] = IF t = s THEN Tomb ELSE keyAt[t]
        /\ \A t \in Index(cap) : t # s => valAt'[t] = valAt[t]
    BY <1>1, <2>1
  <2>4. /\ count = Cardinality(Used(keyAt, cap)) /\ count' = Cardinality(Used(keyAt', cap))
        /\ count' \in Nat
    <3>1. count = Cardinality(Used(keyAt, cap))
      BY DEF IInv, CountExact, Used, Live
    <3>2. count - 1 = Cardinality(Used(keyAt', cap))
      BY <1>1, <1>3, <2>3, <3>1, UsedDropped DEF Live
    <3>3. Cardinality(Used(keyAt', cap)) \in Nat
      BY <1>1, UsedBounded
    <3> QED BY <2>1, <3>1, <3>2, <3>3
  <2>5. TypeOK'
    BY <1>1, <2>2, <2>3, <2>4 DEF IInv, TypeOK, growth
  <2>6. Sized' /\ ValuesLive'
    BY <1>1, <2>3 DEF IInv, Sized, ValuesLive, Live
  <2>7. Room'
    BY <1>1, <2>1, <2>2 DEF IInv, TypeOK, Room
  <2>8. CountExact'
    BY <1>1, <2>4 DEF CountExact, Used, Live
  <2>9. ChainsIntact'
    <3>1. ASSUME NEW t \in Index(cap), Live(t)'
          PROVE  /\ \A b \in Before(keyAt'[t], t, cap) : keyAt'[b] \notin {Null, keyAt'[t]}
                 /\ \A u \in Index(cap) : keyAt'[u] = keyAt'[t] => u = t
      <4>1. t # s /\ keyAt'[t] = keyAt[t] /\ Live(t) /\ keyAt[t] \in Key
        BY <1>1, <2>3, <3>1 DEF Live
      <4>2. /\ \A b \in Before(keyAt[t], t, cap) : keyAt[b] \notin {Null, keyAt[t]}
            /\ \A u \in Index(cap) : keyAt[u] = keyAt[t] => u = t
        BY <4>1 DEF IInv, ChainsIntact
      <4>3. Before(keyAt[t], t, cap) \subseteq Index(cap)
        BY <1>1, <4>1, WayInTable
      <4> QED BY <2>3, <4>1, <4>2, <4>3, MapAssumption
    <3>2. \A t \in Index(newCap') : newKeyAt'[t] # Null =>
            \A b \in Before(newKeyAt'[t], t, newCap') : newKeyAt'[b] \notin {Null, newKeyAt'[t]}
      BY <1>1 DEF IInv, ChainsIntact, growth
    <3> QED BY <1>1, <3>1, <3>2 DEF ChainsIntact
  <2> QED BY <2>2, <2>5, <2>6, <2>7, <2>8, <2>9 DEF IInv
<1> QED BY <1>2, <1>3

\* While the table grows, the old one and the call wait.
LEMMA OldTableWaits ==
  ASSUME IInv, pc \in {"grow", "move"}, pc' \in {"grow", "move"},
         UNCHANGED <<table, request, tomb, newCap>>
  PROVE  /\ CallUnderWay' /\ Sized' /\ Searching' /\ Room' /\ ValuesLive' /\ CountExact'
         /\ newKeyAt' = newKeyAt => ChainsIntact'
BY DEF IInv, CallUnderWay, Sized, Searching, Room, ValuesLive, CountExact, ChainsIntact, Live, table

\* The place of the growth, as facts.
LEMMA GrowthFacts ==
  ASSUME IInv, pc \in {"grow", "move"}
  PROVE  /\ cap \in Nat /\ i \in Nat /\ i <= cap /\ newCap \in Nat \ {0} /\ live \in Nat
         /\ newCap = (IF cap = 0 THEN MinCap ELSE 2 * cap)
         /\ keyAt \in [Index(cap) -> Key \cup {Null, Tomb}]
         /\ valAt \in [Index(cap) -> Val \cup {Missing}]
         /\ newKeyAt \in [Index(newCap) -> Key \cup {Null}]
         /\ newValAt \in [Index(newCap) -> Val \cup {Missing}]
         /\ live = Cardinality(Used(newKeyAt, newCap))
         /\ live = Cardinality(Used(keyAt, i))
         /\ live <= count /\ count \in Nat
<1>1. /\ cap \in Nat /\ i \in Nat /\ i <= cap /\ newCap \in Nat \ {0} /\ live \in Nat
      /\ live = Cardinality(Used(keyAt, i)) /\ count \in Nat
  BY MapAssumption DEF IInv, TypeOK, Growing
<1>2. count = Cardinality(Used(keyAt, cap))
  BY DEF IInv, CountExact, Used, Live
<1> QED BY <1>1, <1>2, UsedBounded DEF IInv, TypeOK, Growing

LEMMA SkipEntryKeeps ==
  ASSUME IInv, SkipEntry
  PROVE  IInv'
<1>1. /\ pc = "grow" /\ i < cap /\ ~Live(i) /\ i' = i + 1
      /\ UNCHANGED <<table, pc, request, answer, slot, tomb, newCap, newKeyAt, newValAt, live>>
  BY DEF SkipEntry
<1>2. i \in Nat /\ cap \in Nat /\ Index(i + 1) = Index(i) \cup {i}
  BY <1>1, GrowthFacts DEF Index
<1>3. Cardinality(Used(keyAt, i + 1)) = Cardinality(Used(keyAt, i))
  <2>1. Cardinality(Used(keyAt, i)) \in Nat
    BY <1>2, UsedBounded
  <2> QED BY <1>1, <1>2, <2>1, UsedNext DEF Live
<1>4. TypeOK'
  BY <1>1, <1>2 DEF IInv, TypeOK, table
<1>5. Growing'
  <2>1. \A j \in Index(i') : Live(j) => j \in Index(i)
    BY <1>1, <1>2
  <2> QED BY <1>1, <1>2, <1>3, <2>1 DEF IInv, Growing, table, Live
<1> QED BY <1>1, <1>4, <1>5, OldTableWaits DEF IInv

LEMMA StartMoveKeeps ==
  ASSUME IInv, StartMove
  PROVE  IInv'
<1>1. /\ pc = "grow" /\ pc' = "move" /\ i < cap /\ Live(i)
      /\ slot' = Home(keyAt[i], newCap)
      /\ UNCHANGED <<table, request, answer, tomb, growth>>
  BY DEF StartMove
<1>2. keyAt[i] \in Key /\ newCap \in Nat \ {0}
  BY <1>1, GrowthFacts DEF Live, Index
<1>3. slot' \in Index(newCap) /\ Passed(keyAt[i], slot', newCap, newKeyAt)
  BY <1>1, <1>2, HomeInTable, WayInTable DEF Passed
<1>4. TypeOK'
  BY <1>1, <1>3 DEF IInv, TypeOK, table, growth, Index
<1>5. Growing'
  BY <1>1, <1>3 DEF IInv, Growing, table, growth, Live
<1> QED BY <1>1, <1>4, <1>5, OldTableWaits DEF IInv, growth

\* The key being moved is not in the new table yet.
LEMMA MovedKeyIsNew ==
  ASSUME IInv, pc = "move"
  PROVE  /\ i \in Index(cap) /\ keyAt[i] \in Key
         /\ \A s \in Index(newCap) : newKeyAt[s] # keyAt[i]
<1>1. i \in Index(cap) /\ keyAt[i] \in Key /\ Live(i)
  BY GrowthFacts DEF IInv, Growing, Live, Index
<1>2. \A j \in Index(i) : keyAt[j] # keyAt[i]
  <2>1. \A j \in Index(i) : j \in Index(cap) /\ j # i
    BY <1>1, GrowthFacts DEF Index
  <2> QED BY <1>1, <2>1 DEF IInv, ChainsIntact
<1>3. \A s \in Index(newCap) : newKeyAt[s] # Null =>
         \E j \in Index(i) : newKeyAt[s] = keyAt[j]
  BY DEF IInv, Growing
<1> QED BY <1>1, <1>2, <1>3, MapAssumption

LEMMA MoveProbeKeeps ==
  ASSUME IInv, MoveProbe
  PROVE  IInv'
<1> DEFINE k == keyAt[i]
<1>1. /\ pc = "move" /\ newKeyAt[slot] # Null /\ slot' = Succ(slot, newCap)
      /\ UNCHANGED <<table, pc, request, answer, tomb, growth>>
      /\ slot \in Index(newCap) /\ Passed(k, slot, newCap, newKeyAt)
  BY DEF MoveProbe, IInv, Growing
<1>2. /\ newCap \in Nat \ {0} /\ k \in Key /\ newKeyAt[slot] # k
  BY <1>1, GrowthFacts, MovedKeyIsNew
<1>3. slot' \in Index(newCap) /\ slot' \in Nat
  BY <1>1, <1>2, SuccWraps DEF Index
<1>4. Passed(k, slot', newCap, newKeyAt)
  BY <1>1, <1>2, WayGrows DEF Passed
<1>5. TypeOK'
  BY <1>1, <1>3 DEF IInv, TypeOK, table, growth
<1>6. Growing'
  BY <1>1, <1>3, <1>4 DEF IInv, Growing, table, growth, Live
<1> QED BY <1>1, <1>5, <1>6, OldTableWaits DEF IInv, growth

LEMMA MoveEntryKeeps ==
  ASSUME IInv, MoveEntry
  PROVE  IInv'
<1> DEFINE k == keyAt[i]
           new == Index(newCap)
<1>1. /\ pc = "move" /\ pc' = "grow" /\ newKeyAt[slot] = Null
      /\ newKeyAt' = [newKeyAt EXCEPT ![slot] = k]
      /\ newValAt' = [newValAt EXCEPT ![slot] = valAt[i]]
      /\ live' = live + 1 /\ i' = i + 1 /\ slot' = 0
      /\ UNCHANGED <<table, request, answer, tomb, newCap>>
      /\ slot \in new /\ Passed(k, slot, newCap, newKeyAt)
      /\ i < cap /\ Live(i)
  BY DEF MoveEntry, IInv, Growing
<1>2. /\ i \in Index(cap) /\ i \in Nat /\ cap \in Nat /\ live \in Nat /\ newCap \in Nat \ {0}
      /\ k \in Key /\ k \notin {Null, Tomb} /\ valAt[i] \in Val \cup {Missing}
      /\ \A s \in new : newKeyAt[s] # k
      /\ newKeyAt \in [new -> Key \cup {Null}]
      /\ newValAt \in [new -> Val \cup {Missing}]
  BY <1>1, GrowthFacts, MovedKeyIsNew, MapAssumption
<1>3. /\ newKeyAt' \in [new -> Key \cup {Null}]
      /\ newValAt' \in [new -> Val \cup {Missing}]
      /\ \A s \in new : newKeyAt'[s] = IF s = slot THEN k ELSE newKeyAt[s]
      /\ \A s \in new : newValAt'[s] = IF s = slot THEN valAt[i] ELSE newValAt[s]
  BY <1>1, <1>2
<1>4. TypeOK'
  BY <1>1, <1>2, <1>3 DEF IInv, TypeOK, table
<1>5. Index(i + 1) = Index(i) \cup {i}
  BY <1>2 DEF Index
<1>6. live' = Cardinality(Used(newKeyAt', newCap))
  <2>1. /\ slot \in new /\ newKeyAt[slot] = Null /\ newKeyAt'[slot] \notin {Null, Tomb}
        /\ \A s \in new : s # slot => newKeyAt'[s] = newKeyAt[s]
    BY <1>1, <1>2, <1>3
  <2>2. Cardinality(Used(newKeyAt', newCap)) = Cardinality(Used(newKeyAt, newCap)) + 1
    BY <1>2, <2>1, UsedFilled
  <2> QED BY <1>1, <2>2, GrowthFacts
<1>7. live' = Cardinality(Used(keyAt, i + 1))
  BY <1>1, <1>2, GrowthFacts, UsedNext DEF Live
<1>8. \A j \in Index(i + 1) : Live(j) =>
         \E s \in new : newKeyAt'[s] = keyAt[j] /\ newValAt'[s] = valAt[j]
  <2>1. ASSUME NEW j \in Index(i), Live(j)
        PROVE  \E s \in new : newKeyAt'[s] = keyAt[j] /\ newValAt'[s] = valAt[j]
    <3>1. PICK s \in new : newKeyAt[s] = keyAt[j] /\ newValAt[s] = valAt[j]
      BY <1>1, <2>1 DEF IInv, Growing
    <3>2. s # slot
      BY <1>1, <2>1, <3>1 DEF Live
    <3> QED BY <1>3, <3>1, <3>2
  <2>2. newKeyAt'[slot] = keyAt[i] /\ newValAt'[slot] = valAt[i]
    BY <1>1, <1>3
  <2> QED BY <1>1, <1>5, <2>1, <2>2
<1>9. \A s \in new : newKeyAt'[s] # Null =>
         \E j \in Index(i + 1) : newKeyAt'[s] = keyAt[j] /\ newValAt'[s] = valAt[j]
  <2>1. \A s \in new : newKeyAt[s] # Null =>
           \E j \in Index(i) : newKeyAt[s] = keyAt[j] /\ newValAt[s] = valAt[j]
    BY <1>1 DEF IInv, Growing
  <2> QED BY <1>3, <1>5, <2>1
<1>10. Growing'
  <2>1. i + 1 <= cap
    BY <1>1, <1>2
  <2> QED BY <1>1, <1>6, <1>7, <1>8, <1>9, <2>1, GrowthFacts DEF Growing, table, Live
<1>11. ChainsIntact'
  <2>1. ASSUME NEW t \in new, newKeyAt'[t] # Null
        PROVE  \A b \in Before(newKeyAt'[t], t, newCap) : newKeyAt'[b] \notin {Null, newKeyAt'[t]}
    <3>1. newKeyAt'[t] \in Key
      BY <1>3, <2>1
    <3>2. Before(newKeyAt'[t], t, newCap) \subseteq new \ {t}
      BY <1>2, <3>1, WayInTable
    <3>3. CASE t = slot
      BY <1>1, <1>3, <3>2, <3>3 DEF Passed
    <3>4. CASE t # slot
      <4>1. newKeyAt'[t] = newKeyAt[t] /\ newKeyAt[t] # k
        BY <1>2, <1>3, <3>4
      <4>2. \A b \in Before(newKeyAt[t], t, newCap) : newKeyAt[b] \notin {Null, newKeyAt[t]}
        BY <2>1, <4>1 DEF IInv, ChainsIntact
      <4> QED BY <1>2, <1>3, <3>2, <4>1, <4>2
    <3> QED BY <3>3, <3>4
  <2> QED BY <1>1, <2>1 DEF IInv, ChainsIntact, Live, table
<1> QED BY <1>1, <1>4, <1>10, <1>11, OldTableWaits DEF IInv

\* The new table is as good as the old one, and has room for the key to come.
LEMMA EndGrowKeeps ==
  ASSUME IInv, EndGrow
  PROVE  IInv'
<1> DEFINE new == Index(newCap)
           k == request.key
<1>1. /\ pc = "grow" /\ i = cap
      /\ cap' = newCap /\ keyAt' = newKeyAt /\ valAt' = newValAt /\ count' = live
      /\ NoGrowth' /\ StartFind(k, newCap) /\ UNCHANGED <<request, answer>>
  BY DEF EndGrow, NoGrowth, NoTable
<1>2. /\ cap \in Nat /\ newCap \in Nat \ {0} /\ live \in Nat /\ live <= count /\ count \in Nat
      /\ newCap = (IF cap = 0 THEN MinCap ELSE 2 * cap)
      /\ newKeyAt \in [new -> Key \cup {Null}] /\ newValAt \in [new -> Val \cup {Missing}]
      /\ live = Cardinality(Used(newKeyAt, newCap))
      /\ live = Cardinality(Used(keyAt, i))
  BY <1>1, GrowthFacts
<1>3. k \in Key /\ request \in D!Call /\ request.op = "set"
  BY <1>1, CallParts DEF IInv, CallUnderWay
<1>4. /\ pc' = "find" /\ slot' \in new /\ slot' \in Nat /\ tomb' = None
      /\ Passed(k, slot', newCap, newKeyAt)
  BY <1>1, <1>2, <1>3, SearchStarts
<1>5. Index(0) = {}
  BY DEF Index
<1>6. TypeOK'
  <2>1. /\ newCap' \in Nat /\ live' \in Nat /\ i' \in Nat
        /\ newKeyAt' \in [Index(newCap') -> Key \cup {Null}]
        /\ newValAt' \in [Index(newCap') -> Val \cup {Missing}]
    BY <1>1, <1>5 DEF NoGrowth, NoTable
  <2>2. keyAt' \in [Index(cap') -> Key \cup {Null, Tomb}]
    BY <1>1, <1>2
  <2> QED BY <1>1, <1>2, <1>3, <1>4, <2>1, <2>2 DEF TypeOK
<1>7. CallUnderWay' /\ Searching' /\ Growing'
  BY <1>1, <1>3, <1>4 DEF CallUnderWay, Searching, Growing
<1>8. Sized'
  BY <1>1, <1>2, MapAssumption DEF IInv, Sized
<1>9. Room'
  <2>1. CASE cap = 0
    <3>1. live = 0
      BY <1>1, <1>2, <2>1, UsedBounded
    <3> QED BY <1>1, <1>2, <2>1, <3>1, MapAssumption DEF Room
  <2>2. CASE cap # 0
    <3>1. 4 * count <= 3 * cap /\ cap >= 2
      BY <1>2, <2>2, MapAssumption DEF IInv, Room, Sized
    <3>2. 4 * (live + 1) <= 3 * (2 * cap)
      BY <1>2, <3>1
    <3> QED BY <1>1, <1>2, <2>2, <3>2 DEF Room
  <2> QED BY <2>1, <2>2
<1>10. ValuesLive'
  <2>1. ASSUME NEW s \in new, newKeyAt[s] # Null
        PROVE  newValAt[s] \in Val
    <3>1. PICK j \in Index(i) : newKeyAt[s] = keyAt[j] /\ newValAt[s] = valAt[j]
      BY <1>1, <2>1 DEF IInv, Growing
    <3>2. j \in Index(cap) /\ Live(j)
      BY <1>1, <1>2, <2>1, <3>1, MapAssumption DEF Live
    <3> QED BY <3>1, <3>2 DEF IInv, ValuesLive
  <2> QED BY <1>1, <2>1 DEF ValuesLive, Live
<1>11. CountExact'
  <2>1. {s \in new : newKeyAt[s] \notin {Null, Tomb}} = Used(newKeyAt, newCap)
    BY DEF Used
  <2> QED BY <1>1, <1>2, <2>1 DEF CountExact, Live
<1>12. ChainsIntact'
  <2>1. \A s \in new : newKeyAt[s] # Null =>
          \A b \in Before(newKeyAt[s], s, newCap) : newKeyAt[b] \notin {Null, newKeyAt[s]}
    BY DEF IInv, ChainsIntact
  <2>2. ASSUME NEW s \in new, NEW t \in new, newKeyAt[s] # Null, newKeyAt[t] = newKeyAt[s]
        PROVE  t = s
    <3>1. newKeyAt[s] \in Key
      BY <1>2, <2>2
    <3>2. s \notin Before(newKeyAt[s], t, newCap) /\ t \notin Before(newKeyAt[s], s, newCap)
      BY <2>1, <2>2
    <3> QED BY <1>2, <3>1, <3>2, WaysOrdered
  <2>3. Index(newCap') = {}
    BY <1>1, <1>5 DEF NoGrowth
  <2> QED BY <1>1, <2>1, <2>2, <2>3 DEF ChainsIntact, Live
<1> QED BY <1>6, <1>7, <1>8, <1>9, <1>10, <1>11, <1>12 DEF IInv

LEMMA StepInv == IInv /\ [Next]_vars => IInv'
<1> SUFFICES ASSUME IInv, [Next]_vars PROVE IInv'
  OBVIOUS
<1>1. CASE UNCHANGED vars
  <2>1. TypeOK' /\ CallUnderWay' /\ Searching' /\ Growing' /\ Room'
    BY <1>1 DEF vars, table, growth, IInv, TypeOK, CallUnderWay, Searching, Growing, NoGrowth, Room, Live
  <2> QED BY <1>1, <2>1, TablesKept DEF IInv, vars, growth
<1>2. ASSUME NEW k \in Key, NEW v \in Val, BeginSet(k, v) PROVE IInv'
  BY <1>2, BeginSetKeeps
<1>3. ASSUME NEW k \in Key, NEW o \in {"get", "delete"}, BeginLookup(o, k) PROVE IInv'
  BY <1>3, BeginLookupKeeps
<1>4. CASE LookupEmpty
  BY <1>4, ReturnKeeps DEF LookupEmpty
<1>5. CASE Probe
  BY <1>5, ProbeKeeps
<1>6. ASSUME NEW s \in Index(cap), SetFound(s) \/ GetFound(s) \/ DeleteFound(s) PROVE IInv'
  BY <1>6, SetFoundKeeps, GetFoundKeeps, DeleteFoundKeeps
<1>7. CASE SkipEntry \/ StartMove \/ MoveProbe \/ MoveEntry \/ EndGrow
  BY <1>7, SkipEntryKeeps, StartMoveKeeps, MoveProbeKeeps, MoveEntryKeeps, EndGrowKeeps
<1> QED BY <1>1, <1>2, <1>3, <1>4, <1>5, <1>6, <1>7 DEF Next, Begin, Step

LEMMA InvHolds == Spec => []IInv
BY InitInv, StepInv, PTL DEF Spec

\* The new table of gc_map_grow is never full while an entry is moved into it.
LEMMA RoomInNewTable ==
  ASSUME IInv, pc = "move"
  PROVE  \E s \in Index(newCap) : newKeyAt[s] = Null
<1>1. /\ live < newCap /\ newCap \in Nat \ {0}
      /\ live = Cardinality(Used(newKeyAt, newCap))
      /\ newKeyAt \in [Index(newCap) -> Key \cup {Null}]
  <2>1. i < cap /\ 4 * count <= 3 * cap
    BY DEF IInv, Growing, Room
  <2> QED BY <2>1, GrowthFacts
<1>2. SUFFICES ASSUME \A s \in Index(newCap) : newKeyAt[s] # Null
               PROVE  FALSE
  OBVIOUS
<1>3. Used(newKeyAt, newCap) = 0..(newCap - 1)
  BY <1>1, <1>2, MapAssumption DEF Used, Index
<1>4. Cardinality(0..(newCap - 1)) = newCap
  BY <1>1, FS_Interval
<1> QED BY <1>1, <1>3, <1>4
-----------------------------------------------------------------------------
(***************************************************************************)
(* The theorems                                                            *)
(***************************************************************************)
\* Types: in particular find_slot and gc_map_grow index inside their tables
\* and count never drops below zero.
THEOREM TypeCorrect == Spec => []TypeOK
<1>1. IInv => TypeOK
  BY DEF IInv
<1> QED BY <1>1, InvHolds, PTL

\* However sets, deletes and growths are mixed, a live key can be found: no
\* Null entry lies between its home and its place, and no key is there twice.
THEOREM ChainsStayIntact == Spec => []ChainsIntact
<1>1. IInv => ChainsIntact
  BY DEF IInv
<1> QED BY <1>1, InvHolds, PTL

\* count, which len() returns and the load test of value_map_set reads, is the
\* number of live keys after every step of every operation.
THEOREM CountStaysExact == Spec => []CountExact
<1>1. IInv => CountExact
  BY DEF IInv
<1> QED BY <1>1, InvHolds, PTL

\* The table is never loaded above 3/4, and gc_map_grow always finds a Null
\* entry for the key it moves.
THEOREM LoadStaysBounded == Spec => []LoadBounded
<1>1. IInv => LoadBounded
  BY RoomInNewTable DEF IInv, Room, LoadBounded
<1> QED BY <1>1, InvHolds, PTL
-----------------------------------------------------------------------------
(***************************************************************************)
(* The table implements the dictionary                                     *)
(***************************************************************************)
\* Contents, of any table.
Assoc(c, ka, va) == [k \in Key |-> IF \E s \in Index(c) : ka[s] = k
                                   THEN va[CHOOSE s \in Index(c) : ka[s] = k]
                                   ELSE Missing]

Distinct(c, ka) == \A s, t \in Index(c) : ka[s] \in Key /\ ka[s] = ka[t] => s = t

\* A key that is at one place only has the value of that place.
LEMMA AssocAt ==
  ASSUME NEW c, NEW ka, NEW va, Distinct(c, ka), NEW s \in Index(c), ka[s] \in Key
  PROVE  Assoc(c, ka, va)[ka[s]] = va[s]
<1> DEFINE t == CHOOSE x \in Index(c) : ka[x] = ka[s]
<1>1. t \in Index(c) /\ ka[t] = ka[s]
  OBVIOUS
<1>2. t = s
  BY <1>1 DEF Distinct
<1>3. Assoc(c, ka, va)[ka[s]] = va[t]
  BY DEF Assoc
<1> QED BY <1>2, <1>3

LEMMA AssocMissing ==
  ASSUME NEW c, NEW ka, NEW va, NEW k \in Key, \A s \in Index(c) : ka[s] # k
  PROVE  Assoc(c, ka, va)[k] = Missing
BY DEF Assoc

LEMMA AssocDomain ==
  ASSUME NEW c, NEW ka, NEW va
  PROVE  Assoc(c, ka, va) = [k \in Key |-> Assoc(c, ka, va)[k]]
BY DEF Assoc

\* What the table holds, before and after a step that keeps it sound.
LEMMA ContentsAssoc ==
  ASSUME IInv
  PROVE  Contents = Assoc(cap, keyAt, valAt) /\ Distinct(cap, keyAt)
<1>1. Contents = Assoc(cap, keyAt, valAt)
  BY DEF Contents, Assoc
<1>2. \A s \in Index(cap) : keyAt[s] \in Key => Live(s)
  BY MapAssumption DEF Live
<1> QED BY <1>1, <1>2 DEF Distinct, IInv, ChainsIntact

LEMMA ContentsAssocNext ==
  ASSUME IInv'
  PROVE  Contents' = Assoc(cap', keyAt', valAt') /\ Distinct(cap', keyAt')
<1>1. Contents' = Assoc(cap', keyAt', valAt')
  BY DEF Contents, Assoc
<1>2. \A s \in Index(cap') : keyAt'[s] \in Key => Live(s)'
  BY MapAssumption DEF Live
<1> QED BY <1>1, <1>2 DEF Distinct, IInv, ChainsIntact

LEMMA InitRefines == Init => D!Init
<1> SUFFICES ASSUME Init PROVE D!Init
  OBVIOUS
<1>1. Index(cap) = {}
  BY DEF Init, Index
<1>2. Contents = [k \in Key |-> Missing]
  BY <1>1 DEF Contents
<1> QED BY <1>2 DEF Init, D!Init

\* Steps that leave the table alone leave the dictionary alone.
LEMMA SameTable ==
  ASSUME UNCHANGED table
  PROVE  Contents' = Contents
BY DEF table, Contents, Index

\* value_map_set enters its key with its value and changes no other key.
LEMMA SetFoundRefines ==
  ASSUME IInv, IInv', NEW s \in Index(cap), SetFound(s)
  PROVE  D!Set /\ request' = D!Idle
<1> DEFINE k == request.key
           v == request.val
<1>1. /\ k \in Key /\ request.op = "set" /\ cap' = cap
      /\ Live(s) => keyAt[s] = k
      /\ ~Live(s) => \A t \in Index(cap) : keyAt[t] # k
      /\ answer' = v /\ request' = D!Idle
      /\ keyAt \in [Index(cap) -> Key \cup {Null, Tomb}]
      /\ valAt \in [Index(cap) -> Val \cup {Missing}]
  BY FoundRight DEF SetFound, Return, IInv, TypeOK
<1>2. /\ \A t \in Index(cap) : keyAt'[t] = IF t = s THEN k ELSE keyAt[t]
      /\ \A t \in Index(cap) : valAt'[t] = IF t = s THEN v ELSE valAt[t]
  BY <1>1 DEF SetFound
<1>3. /\ Contents = Assoc(cap, keyAt, valAt) /\ Distinct(cap, keyAt)
      /\ Contents' = Assoc(cap, keyAt', valAt') /\ Distinct(cap, keyAt')
  BY <1>1, ContentsAssoc, ContentsAssocNext
<1>4. Contents'[k] = v
  BY <1>1, <1>2, <1>3, AssocAt
<1>5. ASSUME NEW x \in Key, x # k
      PROVE  Contents'[x] = Contents[x]
  <2>1. CASE \E t \in Index(cap) : keyAt[t] = x
    <3>1. PICK t \in Index(cap) : keyAt[t] = x
      BY <2>1
    <3>2. t # s
      BY <1>1, <1>5, <3>1, MapAssumption DEF Live
    <3>3. keyAt'[t] = x /\ valAt'[t] = valAt[t]
      BY <1>2, <3>1, <3>2
    <3> QED BY <1>3, <3>1, <3>3, AssocAt
  <2>2. CASE \A t \in Index(cap) : keyAt[t] # x
    <3>1. \A t \in Index(cap) : keyAt'[t] # x
      BY <1>2, <1>5, <2>2
    <3> QED BY <1>3, <2>2, <3>1, AssocMissing
  <2> QED BY <2>1, <2>2
<1>6. /\ Contents = [x \in Key |-> Contents[x]]
      /\ Contents' = [x \in Key |-> Contents'[x]]
  BY <1>3, AssocDomain
<1>7. Contents' = [Contents EXCEPT ![k] = v]
  BY <1>1, <1>4, <1>5, <1>6
<1> QED BY <1>1, <1>7 DEF D!Set

\* value_map_get and value_map_has answer with the value of the key, or that
\* there is none.
LEMMA GetFoundRefines ==
  ASSUME IInv, NEW s \in Index(cap), GetFound(s)
  PROVE  D!Get /\ request' = D!Idle
<1>1. /\ request.key \in Key /\ request.op = "get" /\ UNCHANGED table
      /\ Live(s) => keyAt[s] = request.key
      /\ ~Live(s) => \A t \in Index(cap) : keyAt[t] # request.key
      /\ answer' = (IF Live(s) THEN valAt[s] ELSE Missing) /\ request' = D!Idle
  BY FoundRight DEF GetFound, Return
<1>2. Contents[request.key] = IF Live(s) THEN valAt[s] ELSE Missing
  BY <1>1, ContentsAssoc, AssocAt, AssocMissing
<1> QED BY <1>1, <1>2, SameTable DEF D!Get

\* value_map_delete takes its key out, and says whether it was there.
LEMMA DeleteFoundRefines ==
  ASSUME IInv, IInv', NEW s \in Index(cap), DeleteFound(s)
  PROVE  D!Delete /\ request' = D!Idle
<1> DEFINE k == request.key
<1>1. /\ k \in Key /\ request.op = "delete" /\ cap' = cap
      /\ Live(s) => keyAt[s] = k
      /\ ~Live(s) => \A t \in Index(cap) : keyAt[t] # k
      /\ answer' = Live(s) /\ request' = D!Idle
      /\ keyAt \in [Index(cap) -> Key \cup {Null, Tomb}]
      /\ valAt \in [Index(cap) -> Val \cup {Missing}]
  BY FoundRight DEF DeleteFound, Return, IInv, TypeOK
<1>2. /\ Contents = Assoc(cap, keyAt, valAt) /\ Distinct(cap, keyAt)
      /\ Contents' = Assoc(cap, keyAt', valAt') /\ Distinct(cap, keyAt')
  BY <1>1, ContentsAssoc, ContentsAssocNext
<1>3. /\ Contents = [x \in Key |-> Contents[x]]
      /\ Contents' = [x \in Key |-> Contents'[x]]
  BY <1>2, AssocDomain
<1>4. CASE Live(s)
  <2>1. Contents[k] = valAt[s] /\ valAt[s] \in Val
    BY <1>1, <1>2, <1>4, AssocAt DEF IInv, ValuesLive
  <2>2. Contents[k] # Missing
    BY <2>1, MapAssumption
  <2>3. /\ \A t \in Index(cap) : keyAt'[t] = IF t = s THEN Tomb ELSE keyAt[t]
        /\ \A t \in Index(cap) : t # s => valAt'[t] = valAt[t]
    BY <1>1, <1>4 DEF DeleteFound
  <2>4. \A t \in Index(cap) : keyAt'[t] # k
    BY <1>1, <1>2, <1>4, <2>3, MapAssumption DEF Distinct
  <2>5. Contents'[k] = Missing
    BY <1>1, <1>2, <2>4, AssocMissing
  <2>6. ASSUME NEW x \in Key, x # k
        PROVE  Contents'[x] = Contents[x]
    <3>1. CASE \E t \in Index(cap) : keyAt[t] = x
      <4>1. PICK t \in Index(cap) : keyAt[t] = x
        BY <3>1
      <4>2. keyAt'[t] = x /\ valAt'[t] = valAt[t]
        BY <1>1, <1>4, <2>3, <2>6, <4>1
      <4> QED BY <1>2, <4>1, <4>2, AssocAt
    <3>2. CASE \A t \in Index(cap) : keyAt[t] # x
      <4>1. \A t \in Index(cap) : keyAt'[t] # x
        BY <2>3, <2>6, <3>2, MapAssumption
      <4> QED BY <1>2, <3>2, <4>1, AssocMissing
    <3> QED BY <3>1, <3>2
  <2>7. Contents' = [Contents EXCEPT ![k] = Missing]
    BY <1>1, <1>3, <2>5, <2>6
  <2> QED BY <1>1, <1>4, <2>2, <2>7 DEF D!Delete
<1>5. CASE ~Live(s)
  <2>1. Contents[k] = Missing
    BY <1>1, <1>2, <1>5, AssocMissing
  <2>2. UNCHANGED table
    BY <1>1, <1>5 DEF DeleteFound, table
  <2>3. Contents' = Contents
    BY <2>2, SameTable
  <2>4. Contents' = [Contents EXCEPT ![k] = Missing]
    BY <1>1, <1>3, <2>1, <2>3
  <2>5. answer' = (Contents[k] # Missing)
    BY <1>1, <1>5, <2>1 DEF Live
  <2> QED BY <1>1, <2>4, <2>5 DEF D!Delete
<1> QED BY <1>4, <1>5

\* A map that never had a key answers every question with no.
LEMMA LookupEmptyRefines ==
  ASSUME IInv, LookupEmpty
  PROVE  (D!Get \/ D!Delete) /\ request' = D!Idle
<1>1. /\ Index(cap) = {} /\ UNCHANGED table /\ request.key \in Key
      /\ request.op \in {"get", "delete"} /\ request' = D!Idle
      /\ answer' = IF request.op = "get" THEN Missing ELSE FALSE
  <2>1. request \in D!Call /\ request.op # "set"
    BY DEF LookupEmpty, IInv, TypeOK, CallUnderWay, Room
  <2> QED BY <2>1, CallParts DEF LookupEmpty, Return, Index
<1>2. Contents = [x \in Key |-> Missing] /\ Contents' = Contents
  BY <1>1, SameTable DEF Contents
<1> QED BY <1>1, <1>2 DEF D!Get, D!Delete

\* The table that replaces the old one holds the same keys and values.
LEMMA EndGrowRefines ==
  ASSUME IInv, IInv', EndGrow
  PROVE  Contents' = Contents
<1>1. /\ pc = "grow" /\ i = cap /\ cap' = newCap /\ keyAt' = newKeyAt /\ valAt' = newValAt
      /\ newKeyAt \in [Index(newCap) -> Key \cup {Null}]
  BY DEF EndGrow, IInv, TypeOK
<1>2. /\ Contents = Assoc(cap, keyAt, valAt) /\ Distinct(cap, keyAt)
      /\ Contents' = Assoc(newCap, newKeyAt, newValAt) /\ Distinct(newCap, newKeyAt)
  BY <1>1, ContentsAssoc, ContentsAssocNext
<1>3. ASSUME NEW x \in Key
      PROVE  Contents'[x] = Contents[x]
  <2>1. CASE \E j \in Index(cap) : keyAt[j] = x
    <3>1. PICK j \in Index(cap) : keyAt[j] = x
      BY <2>1
    <3>2. Live(j)
      BY <3>1, MapAssumption DEF Live
    <3>3. PICK s \in Index(newCap) : newKeyAt[s] = keyAt[j] /\ newValAt[s] = valAt[j]
      BY <1>1, <3>2 DEF IInv, Growing
    <3> QED BY <1>2, <3>1, <3>3, AssocAt
  <2>2. CASE \A j \in Index(cap) : keyAt[j] # x
    <3>1. \A s \in Index(newCap) : newKeyAt[s] # x
      BY <1>1, <2>2, MapAssumption DEF IInv, Growing
    <3> QED BY <1>2, <2>2, <3>1, AssocMissing
  <2> QED BY <2>1, <2>2
<1>4. /\ Contents = [x \in Key |-> Contents[x]]
      /\ Contents' = [x \in Key |-> Contents'[x]]
  BY <1>2, AssocDomain
<1> QED BY <1>3, <1>4

\* Every step is a step of the dictionary, or not visible to its user.
LEMMA StepRefines == IInv /\ IInv' /\ [Next]_vars => [D!Next]_(D!dictVars)
<1> SUFFICES ASSUME IInv, IInv', [Next]_vars
             PROVE  D!Next \/ UNCHANGED <<Contents, request, answer>>
  BY DEF D!dictVars
<1>1. CASE UNCHANGED vars
  BY <1>1, SameTable DEF vars
<1>2. ASSUME NEW k \in Key, NEW v \in Val, BeginSet(k, v)
      PROVE  D!Next
  <2>1. /\ request = D!Idle /\ request' = [op |-> "set", key |-> k, val |-> v]
        /\ request' \in D!Call /\ UNCHANGED <<table, answer>>
    BY <1>2 DEF BeginSet, IInv, CallUnderWay, D!Call
  <2>2. D!Invoke(request')
    BY <2>1, SameTable DEF D!Invoke
  <2> QED BY <2>1, <2>2 DEF D!Next
<1>3. ASSUME NEW k \in Key, NEW o \in {"get", "delete"}, BeginLookup(o, k)
      PROVE  D!Next
  <2>1. /\ request = D!Idle /\ request' = [op |-> o, key |-> k]
        /\ request' \in D!Call /\ UNCHANGED <<table, answer>>
    BY <1>3 DEF BeginLookup, IInv, CallUnderWay, D!Call
  <2>2. D!Invoke(request')
    BY <2>1, SameTable DEF D!Invoke
  <2> QED BY <2>1, <2>2 DEF D!Next
<1>4. CASE LookupEmpty
  BY <1>4, LookupEmptyRefines DEF D!Next, D!Return
<1>5. CASE Probe \/ SkipEntry \/ StartMove \/ MoveProbe \/ MoveEntry
  <2>1. UNCHANGED <<table, request, answer>>
    BY <1>5 DEF Probe, SkipEntry, StartMove, MoveProbe, MoveEntry
  <2> QED BY <2>1, SameTable
<1>6. ASSUME NEW s \in Index(cap), SetFound(s) \/ GetFound(s) \/ DeleteFound(s)
      PROVE  D!Next
  BY <1>6, SetFoundRefines, GetFoundRefines, DeleteFoundRefines DEF D!Next, D!Return
<1>7. CASE EndGrow
  BY <1>7, EndGrowRefines DEF EndGrow
<1> QED BY <1>1, <1>2, <1>3, <1>4, <1>5, <1>6, <1>7 DEF Next, Begin, Step

\* The table behaves as a dictionary: tombstones, probing and growth never
\* show, and every set, get, has and delete takes effect once, at its end.
THEOREM TableIsDictionary == Spec => RefinesDictionary
<1>1. Spec => D!Init
  BY InitRefines DEF Spec
<1>2. Spec => [][D!Next]_(D!dictVars)
  BY InvHolds, StepRefines, PTL DEF Spec
<1> QED BY <1>1, <1>2, PTL DEF RefinesDictionary, D!Spec
=============================================================================
