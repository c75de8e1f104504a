---------------------------- MODULE ParserProofs ----------------------------
(***************************************************************************)
(* Proofs about Parser, for any programs and any operator levels.  That    *)
(* each parse_ function is careful with its own variables is a fact about  *)
(* its code (ParserOwnership); here it is shown to be enough: calls and    *)
(* returns pass nodes on from one variable to one variable or parent, and  *)
(* what an error exit frees is just what nobody else holds.                *)
(*                                                                         *)
(* The rest, from the part of a heap that hangs below a node on, is about  *)
(* the levels of binary operators.  Where brackets open and expressions    *)
(* end is again a fact about the code (ParserNesting); the invariant Bound *)
(* gives each activation the tokens it has read, and says what the nodes   *)
(* that it holds are as expressions.                                       *)
(***************************************************************************)
EXTENDS ParserNesting, FiniteSetTheorems, TLAPS

Size == Len(stack)
InstrAt(k) == Code[stack[k].fn][stack[k].pc]
Names == {InstrOf(s).name : s \in Shapes}
Frame == [fn : DOMAIN Code, pc : Nat, n : Nat, r : Nat, op : Nat, level : Nat]
Node == [type : Names, at : Nat, kids : Seq(Nat)]

\* What an activation looks like; only the innermost one can see a failure
\* before it is called again.
ShapeAt(k) == [fn |-> stack[k].fn, pc |-> stack[k].pc, n |-> stack[k].n # 0, r |-> stack[k].r # 0,
               failed |-> IF k = Size THEN failed ELSE FALSE]

\* The tokens, and the place of the first error.
Input ==
    /\ program \in Programs
    /\ tokens \in Seq(program.kinds \cup {"eof"}) /\ Len(tokens) <= program.max
    /\ Len(tokens) = program.max => tokens[program.max] = "eof"
    /\ pos \in 1..program.max /\ errPos \in 0..program.max /\ failed \in BOOLEAN
    /\ failed => errPos = pos

\* Every activation is somewhere in its code where it may be, and those below
\* the innermost wait for a call to end.
Activations ==
    /\ stack \in Seq(Frame)
    /\ \A k \in 1..Size : ShapeAt(k) \in Shapes
    /\ \A k \in 1..(Size - 1) : InstrAt(k).do = "call"
    /\ Size > 0 => stack[1].fn = "program"
    /\ result \in {"todo", "ok", "failed"} /\ (result = "todo" <=> Size > 0)
    /\ result = "ok" => ~failed

\* No node is in two variables.
Apart ==
    /\ \A j, k \in 1..Size :
          /\ stack[j].n # 0 => /\ stack[j].n = stack[k].n => j = k
                               /\ stack[j].n # stack[k].r
          /\ stack[j].r # 0 => (stack[j].r = stack[k].r => j = k)
    /\ root # 0 => Size = 0

Held == ({stack[k].n : k \in 1..Size} \cup {stack[k].r : k \in 1..Size} \cup {root}) \ {0}

\* The nodes of T hang together below those in H: a node of H has no parent,
\* every other one has one place, and no nodes keep only each other alive.  A
\* NULL may stand wherever a child may.
Grove(H, T) ==
    /\ H \subseteq DOMAIN T
    /\ \A p \in DOMAIN T : \A k \in DOMAIN T[p].kids : T[p].kids[k] = 0 \/ T[p].kids[k] \in DOMAIN T \ H
    /\ \A p, q \in DOMAIN T : \A j \in DOMAIN T[p].kids : \A k \in DOMAIN T[q].kids :
          T[p].kids[j] = T[q].kids[k] => T[p].kids[j] = 0 \/ (p = q /\ j = k)
    /\ \A C \in SUBSET DOMAIN T : C # {} =>
          \E c \in C : c \in H \/ \E p \in DOMAIN T \ C : \E k \in DOMAIN T[p].kids : T[p].kids[k] = c

\* No child of T is NULL.
Filled(T) == \A p \in DOMAIN T : \A k \in DOMAIN T[p].kids : T[p].kids[k] # 0

Tree ==
    /\ fresh \in Nat \ {0} /\ DOMAIN nodes \subseteq 1..(fresh - 1)
    /\ nodes \in [DOMAIN nodes -> Node]
    /\ Grove(Held, nodes)
    /\ ~failed => Filled(nodes)
    /\ misfreed = FALSE
    /\ result = "failed" => DOMAIN nodes = {}

ParserInv == Input /\ Activations /\ Apart /\ Tree
-----------------------------------------------------------------------------
(***************************************************************************)
(* Induction, as a fact about sets                                         *)
(***************************************************************************)
LEMMA Induction ==
  ASSUME NEW M, 0 \in M, \A n \in Nat : n \in M => n + 1 \in M
  PROVE  Nat \subseteq M
<1> SUFFICES ASSUME NEW m \in Nat, m \notin M
             PROVE  FALSE
  OBVIOUS
<1> DEFINE T == {0..k : k \in Nat \ M}
<1>1. T \subseteq FiniteSubsetsOf(Nat) /\ T # {}
  <2>1. \A k \in Nat : IsFiniteSet(0..k) /\ 0..k \subseteq Nat
    BY FS_Interval
  <2> QED BY <2>1 DEF FiniteSubsetsOf
<1>2. PICK x \in T : \A y \in T : <<y, x>> \notin StrictSubsetOrdering(Nat)
  <2> HIDE DEF T
  <2> QED BY <1>1, FS_StrictSubsetOrderingWellFounded, WFMin
<1>3. PICK k \in Nat \ M : x = 0..k
  BY <1>2
<1>4. k # 0 /\ k - 1 \in Nat \ M
  BY <1>3
<1>5. 0..(k - 1) \in T /\ 0..(k - 1) \subseteq 0..k /\ 0..(k - 1) # 0..k
  <2>1. k \in 0..k /\ k \notin 0..(k - 1)
    BY <1>3
  <2> QED BY <1>3, <1>4, <2>1
<1>6. <<0..(k - 1), x>> \in StrictSubsetOrdering(Nat)
  BY <1>3, <1>4, <1>5 DEF StrictSubsetOrdering
<1> QED BY <1>2, <1>5, <1>6
-----------------------------------------------------------------------------
(***************************************************************************)
(* What ast_free reaches                                                   *)
(***************************************************************************)
Grown(X) == X \cup UNION {Kids(id) : id \in X}
IsReach(g, S, K) ==
    g = [k \in 0..K |-> IF k = 0 THEN S ELSE g[k - 1] \cup UNION {Kids(id) : id \in g[k - 1]}]

\* The recursion of Under has a solution, for any number of steps.
LEMMA ReachExists ==
  ASSUME NEW S, NEW K \in Nat
  PROVE  \E g : IsReach(g, S, K)
<1> DEFINE M == {m \in Nat : \E g : g = [k \in 0..m |-> IF k = 0 THEN S ELSE Grown(g[k - 1])]}
<1>1. 0 \in M
  <2> DEFINE g == [k \in 0..0 |-> S]
  <2>1. g = [k \in 0..0 |-> IF k = 0 THEN S ELSE Grown(g[k - 1])]
    OBVIOUS
  <2> QED BY <2>1
<1>2. ASSUME NEW m \in Nat, m \in M
      PROVE  m + 1 \in M
  <2>1. PICK g : g = [k \in 0..m |-> IF k = 0 THEN S ELSE Grown(g[k - 1])]
    BY <1>2
  <2> DEFINE h == [k \in 0..(m + 1) |-> IF k = m + 1 THEN Grown(g[m]) ELSE g[k]]
  <2>2. ASSUME NEW k \in 0..(m + 1)
        PROVE  h[k] = IF k = 0 THEN S ELSE Grown(h[k - 1])
    <3>1. CASE k = m + 1
      BY <3>1
    <3>2. CASE k # m + 1
      <4>1. k \in 0..m /\ h[k] = g[k] /\ (k # 0 => h[k - 1] = g[k - 1])
        BY <3>2
      <4> HIDE DEF h
      <4> QED BY <2>1, <4>1
    <3> QED BY <3>1, <3>2
  <2>3. h = [k \in 0..(m + 1) |-> h[k]]
    OBVIOUS
  <2>4. h = [k \in 0..(m + 1) |-> IF k = 0 THEN S ELSE Grown(h[k - 1])]
    <3> HIDE DEF h
    <3> QED BY <2>2, <2>3
  <2> HIDE DEF h
  <2>5. \E f : f = [k \in 0..(m + 1) |-> IF k = 0 THEN S ELSE Grown(f[k - 1])]
    BY <2>4
  <2> QED BY <2>5
<1>3. K \in M
  <2> HIDE DEF M
  <2> QED BY <1>1, <1>2, Induction
<1> QED BY <1>3 DEF Grown, IsReach

\* The nodes under S are the least set with S in it that has the children of
\* its nodes, as far as the invariants need it: it has no others, and when
\* children are live it has them all.
LEMMA UnderEffect ==
  ASSUME NEW S, IsFiniteSet(DOMAIN nodes), S \subseteq DOMAIN nodes,
         \A p \in DOMAIN nodes : Kids(p) \subseteq DOMAIN nodes
  PROVE  /\ S \subseteq Under(S) /\ Under(S) \subseteq DOMAIN nodes
         /\ \A id \in Under(S) : Kids(id) \subseteq Under(S)
         /\ \A id \in Under(S) : id \in S \/ \E p \in Under(S) : id \in Kids(p)
<1> DEFINE K == Cardinality(DOMAIN nodes)
<1>1. K \in Nat
  BY FS_CardinalityType
<1> HIDE DEF K
<1> DEFINE g == CHOOSE reach : reach = [k \in 0..K |->
                   IF k = 0 THEN S ELSE reach[k - 1] \cup UNION {Kids(id) : id \in reach[k - 1]}]
<1>2. g = [k \in 0..K |-> IF k = 0 THEN S ELSE g[k - 1] \cup UNION {Kids(id) : id \in g[k - 1]}]
  <2>1. \E reach : IsReach(reach, S, K)
    BY <1>1, ReachExists
  <2>2. IsReach(CHOOSE reach : IsReach(reach, S, K), S, K)
    BY <2>1
  <2> QED BY <2>2 DEF IsReach
<1>3. Under(S) = g[K]
  BY DEF Under, K
<1> HIDE DEF g
<1>4. g[0] = S /\ \A k \in 0..(K - 1) : g[k + 1] = Grown(g[k])
  <2>1. ASSUME NEW k \in 0..(K - 1)
        PROVE  g[k + 1] = Grown(g[k])
    <3>1. k + 1 \in 0..K /\ k + 1 # 0 /\ (k + 1) - 1 = k
      BY <1>1
    <3> QED BY <1>2, <3>1 DEF Grown
  <2>2. 0 \in 0..K
    BY <1>1
  <2> QED BY <1>2, <2>1, <2>2
<1> DEFINE Tidy(k) == /\ S \subseteq g[k] /\ g[k] \subseteq DOMAIN nodes
                      /\ \A id \in g[k] : id \in S \/ \E p \in g[k] : id \in Kids(p)
                      /\ Grown(g[k]) = g[k] \/ Cardinality(g[k]) >= k
<1> DEFINE M == {k \in Nat : k <= K => Tidy(k)}
<1>5. 0 \in M
  <2>1. Cardinality(S) \in Nat
    BY FS_Subset, FS_CardinalityType
  <2>2. Tidy(0)
    BY <1>4, <2>1
  <2> QED BY <2>2
<1>6. ASSUME NEW k \in Nat, k \in M
      PROVE  k + 1 \in M
  <2> SUFFICES ASSUME k + 1 <= K
               PROVE  Tidy(k + 1)
    OBVIOUS
  <2>1. Tidy(k) /\ g[k + 1] = Grown(g[k])
    BY <1>1, <1>4, <1>6
  <2>2. /\ S \subseteq g[k + 1] /\ g[k + 1] \subseteq DOMAIN nodes
        /\ \A id \in g[k + 1] : id \in S \/ \E p \in g[k + 1] : id \in Kids(p)
    BY <2>1 DEF Grown
  <2>3. Grown(g[k + 1]) = g[k + 1] \/ Cardinality(g[k + 1]) >= k + 1
    <3>1. CASE Grown(g[k]) = g[k]
      BY <2>1, <3>1
    <3>2. CASE Grown(g[k]) # g[k]
      <4>1. IsFiniteSet(g[k + 1]) /\ g[k] \subseteq g[k + 1] /\ g[k] # g[k + 1]
        BY <2>1, <2>2, <3>2, FS_Subset DEF Grown
      <4>2. /\ Cardinality(g[k]) <= Cardinality(g[k + 1])
            /\ Cardinality(g[k]) # Cardinality(g[k + 1])
            /\ Cardinality(g[k]) \in Nat /\ Cardinality(g[k + 1]) \in Nat
        BY <4>1, FS_Subset, FS_CardinalityType
      <4>3. Cardinality(g[k]) >= k
        BY <2>1, <3>2
      <4> QED BY <4>2, <4>3
    <3> QED BY <3>1, <3>2
  <2> QED BY <2>2, <2>3
<1>7. Tidy(K)
  <2>1. K \in M
    <3> HIDE DEF M
    <3> QED BY <1>1, <1>5, <1>6, Induction
  <2> QED BY <1>1, <2>1
<1>8. Grown(g[K]) = g[K]
  <2>1. CASE Cardinality(g[K]) >= K
    <3>1. IsFiniteSet(g[K]) /\ Cardinality(g[K]) <= K /\ Cardinality(g[K]) \in Nat
      BY <1>7, FS_Subset, FS_CardinalityType DEF K
    <3>2. Cardinality(g[K]) = K
      BY <1>1, <2>1, <3>1
    <3>3. g[K] = DOMAIN nodes
      BY <1>7, <3>2, FS_Subset DEF K
    <3> QED BY <3>3 DEF Grown
  <2> QED BY <1>7, <2>1
<1>9. \A id \in g[K] : Kids(id) \subseteq g[K]
  BY <1>8 DEF Grown
<1> QED BY <1>3, <1>7, <1>9
-----------------------------------------------------------------------------
(***************************************************************************)
(* What is done to the nodes                                               *)
(***************************************************************************)
\* U is T with a new node x above the nodes in S.
Joins(T, U, x, S) ==
    /\ x \notin DOMAIN T /\ DOMAIN U = DOMAIN T \cup {x} /\ \A id \in DOMAIN T : U[id] = T[id]
    /\ S = {U[x].kids[k] : k \in DOMAIN U[x].kids}
    /\ \A j, k \in DOMAIN U[x].kids : U[x].kids[j] = U[x].kids[k] => j = k
\* U is T with a new node x in the place of n.
Reseats(T, U, x, n) ==
    /\ x \notin DOMAIN T /\ DOMAIN U = (DOMAIN T \ {n}) \cup {x} /\ U[x].kids = T[n].kids
    /\ \A id \in DOMAIN T \ {n} : U[id] = T[id]
\* U is T with c as the last child of p.
Attaches(T, U, p, c) ==
    /\ T[p].kids \in Seq(Nat) /\ DOMAIN U = DOMAIN T /\ U[p].kids = Append(T[p].kids, c)
    /\ \A id \in DOMAIN T \ {p} : U[id] = T[id]
\* U is T without the nodes in F, which are S and what hangs below them.
Frees(T, U, S, F) ==
    /\ S \subseteq F /\ F \subseteq DOMAIN T
    /\ \A p \in F : \A k \in DOMAIN T[p].kids : T[p].kids[k] = 0 \/ T[p].kids[k] \in F
    /\ \A c \in F : c \in S \/ \E p \in F : \E k \in DOMAIN T[p].kids : T[p].kids[k] = c
    /\ U = [id \in DOMAIN T \ F |-> T[id]]

\* The new node takes its children from variables.
LEMMA GroveNew ==
  ASSUME NEW H, NEW T, Grove(H, T), NEW x, NEW S, S \subseteq H, NEW U, Joins(T, U, x, S)
  PROVE  Grove((H \ S) \cup {x}, U)
<1> USE DEF Joins
<1> DEFINE ks == U[x].kids
<1> DEFINE G == (H \ S) \cup {x}
<1>1. /\ H \subseteq DOMAIN T
      /\ \A p \in DOMAIN T : \A k \in DOMAIN T[p].kids : T[p].kids[k] = 0 \/ T[p].kids[k] \in DOMAIN T \ H
      /\ \A p, q \in DOMAIN T : \A j \in DOMAIN T[p].kids : \A k \in DOMAIN T[q].kids :
            T[p].kids[j] = T[q].kids[k] => T[p].kids[j] = 0 \/ (p = q /\ j = k)
      /\ \A C \in SUBSET DOMAIN T : C # {} =>
            \E c \in C : c \in H \/ \E p \in DOMAIN T \ C : \E k \in DOMAIN T[p].kids : T[p].kids[k] = c
  BY DEF Grove
<1>2. G \subseteq DOMAIN U
  BY <1>1
<1>3. \A p \in DOMAIN U : \A k \in DOMAIN U[p].kids : U[p].kids[k] = 0 \/ U[p].kids[k] \in DOMAIN U \ G
  BY <1>1
<1>4. \A p, q \in DOMAIN U : \A j \in DOMAIN U[p].kids : \A k \in DOMAIN U[q].kids :
         U[p].kids[j] = U[q].kids[k] => U[p].kids[j] = 0 \/ (p = q /\ j = k)
  BY <1>1
<1>5. ASSUME NEW C \in SUBSET DOMAIN U, C # {}
      PROVE  \E c \in C : c \in G \/ \E p \in DOMAIN U \ C : \E k \in DOMAIN U[p].kids : U[p].kids[k] = c
  <2>1. CASE x \in C
    BY <2>1
  <2>2. CASE x \notin C
    <3>1. C \in SUBSET DOMAIN T
      BY <2>2
    <3>2. PICK c \in C : c \in H \/ \E p \in DOMAIN T \ C : \E k \in DOMAIN T[p].kids : T[p].kids[k] = c
      BY <1>1, <1>5, <3>1
    <3>3. CASE c \in H
      BY <2>2, <3>3
    <3>4. CASE \E p \in DOMAIN T \ C : \E k \in DOMAIN T[p].kids : T[p].kids[k] = c
      BY <3>4
    <3> QED BY <3>2, <3>3, <3>4
  <2> QED BY <2>1, <2>2
<1> QED BY <1>2, <1>3, <1>4, <1>5 DEF Grove

LEMMA GroveReseat ==
  ASSUME NEW H, NEW T, Grove(H, T), NEW x, NEW n \in H, NEW U, Reseats(T, U, x, n)
  PROVE  Grove((H \ {n}) \cup {x}, U)
<1> USE DEF Reseats
<1> DEFINE G == (H \ {n}) \cup {x}
<1>1. /\ H \subseteq DOMAIN T
      /\ \A p \in DOMAIN T : \A k \in DOMAIN T[p].kids : T[p].kids[k] = 0 \/ T[p].kids[k] \in DOMAIN T \ H
      /\ \A p, q \in DOMAIN T : \A j \in DOMAIN T[p].kids : \A k \in DOMAIN T[q].kids :
            T[p].kids[j] = T[q].kids[k] => T[p].kids[j] = 0 \/ (p = q /\ j = k)
      /\ \A C \in SUBSET DOMAIN T : C # {} =>
            \E c \in C : c \in H \/ \E p \in DOMAIN T \ C : \E k \in DOMAIN T[p].kids : T[p].kids[k] = c
  BY DEF Grove
<1>2. G \subseteq DOMAIN U
  BY <1>1
<1>3. \A p \in DOMAIN U : \A k \in DOMAIN U[p].kids : U[p].kids[k] = 0 \/ U[p].kids[k] \in DOMAIN U \ G
  BY <1>1
<1>4. \A p, q \in DOMAIN U : \A j \in DOMAIN U[p].kids : \A k \in DOMAIN U[q].kids :
         U[p].kids[j] = U[q].kids[k] => U[p].kids[j] = 0 \/ (p = q /\ j = k)
  BY <1>1
<1>5. ASSUME NEW C \in SUBSET DOMAIN U, C # {}
      PROVE  \E c \in C : c \in G \/ \E p \in DOMAIN U \ C : \E k \in DOMAIN U[p].kids : U[p].kids[k] = c
  <2>1. CASE x \in C
    BY <2>1
  <2>2. CASE x \notin C
    <3>1. C \in SUBSET DOMAIN T /\ n \notin C
      BY <1>5, <2>2
    <3>2. PICK c \in C : c \in H \/ \E p \in DOMAIN T \ C : \E k \in DOMAIN T[p].kids : T[p].kids[k] = c
      BY <1>1, <1>5, <3>1
    <3>3. CASE c \in H
      BY <3>1, <3>3
    <3>4. CASE \E p \in DOMAIN T \ C : \E k \in DOMAIN T[p].kids : T[p].kids[k] = c
      <4>1. PICK p \in DOMAIN T \ C : \E k \in DOMAIN T[p].kids : T[p].kids[k] = c
        BY <3>4
      <4>2. CASE p = n
        BY <2>2, <4>1, <4>2
      <4>3. CASE p # n
        BY <4>1, <4>3
      <4> QED BY <4>2, <4>3
    <3> QED BY <3>2, <3>3, <3>4
  <2> QED BY <2>1, <2>2
<1> QED BY <1>2, <1>3, <1>4, <1>5 DEF Grove

\* A node that a variable held is put below another such node.
LEMMA GroveAttach ==
  ASSUME NEW H, NEW T, Grove(H, T), NEW p \in H, NEW c \in H, p # c, c \in Nat \ {0},
         NEW U, Attaches(T, U, p, c)
  PROVE  Grove(H \ {c}, U)
<1> USE DEF Attaches
<1> DEFINE ks == T[p].kids
<1>1. /\ H \subseteq DOMAIN T
      /\ \A q \in DOMAIN T : \A k \in DOMAIN T[q].kids : T[q].kids[k] = 0 \/ T[q].kids[k] \in DOMAIN T \ H
      /\ \A q, r \in DOMAIN T : \A j \in DOMAIN T[q].kids : \A k \in DOMAIN T[r].kids :
            T[q].kids[j] = T[r].kids[k] => T[q].kids[j] = 0 \/ (q = r /\ j = k)
      /\ \A C \in SUBSET DOMAIN T : C # {} =>
            \E d \in C : d \in H \/ \E q \in DOMAIN T \ C : \E k \in DOMAIN T[q].kids : T[q].kids[k] = d
  BY DEF Grove
<1> DEFINE new == Len(ks) + 1
<1>2. /\ DOMAIN U[p].kids = DOMAIN ks \cup {new} /\ U[p].kids[new] = c
      /\ new \notin DOMAIN ks
      /\ \A k \in DOMAIN ks : U[p].kids[k] = T[p].kids[k]
  <2>1. ks \in Seq(Nat) /\ U[p].kids = Append(ks, c)
    OBVIOUS
  <2> HIDE DEF ks
  <2>2. DOMAIN Append(ks, c) = DOMAIN ks \cup {new} /\ Append(ks, c)[new] = c
    BY <2>1
  <2>3. new \notin DOMAIN ks
    BY <2>1
  <2>4. \A k \in DOMAIN ks : Append(ks, c)[k] = ks[k]
    BY <2>1
  <2> QED BY <2>1, <2>2, <2>3, <2>4 DEF ks
<1> HIDE DEF new
<1>3. \A q \in DOMAIN U : \A k \in DOMAIN U[q].kids :
         \/ U[q].kids[k] = c /\ q = p /\ k = new
         \/ k \in DOMAIN T[q].kids /\ U[q].kids[k] = T[q].kids[k]
  BY <1>2
<1>4. \A q \in DOMAIN T : \A k \in DOMAIN T[q].kids :
         k \in DOMAIN U[q].kids /\ U[q].kids[k] = T[q].kids[k]
  BY <1>2
<1>5. \A q \in DOMAIN U : \A k \in DOMAIN U[q].kids : U[q].kids[k] = 0 \/ U[q].kids[k] \in DOMAIN U \ (H \ {c})
  BY <1>1, <1>3
<1>6. \A q, r \in DOMAIN U : \A j \in DOMAIN U[q].kids : \A k \in DOMAIN U[r].kids :
         U[q].kids[j] = U[r].kids[k] => U[q].kids[j] = 0 \/ (q = r /\ j = k)
  BY <1>1, <1>3
<1>7. ASSUME NEW C \in SUBSET DOMAIN U, C # {}
      PROVE  \E d \in C : \/ d \in H \ {c}
                          \/ \E q \in DOMAIN U \ C : \E k \in DOMAIN U[q].kids : U[q].kids[k] = d
  <2>1. CASE p \in C
    BY <2>1
  <2>2. CASE p \notin C
    <3>1. PICK d \in C : d \in H \/ \E q \in DOMAIN T \ C : \E k \in DOMAIN T[q].kids : T[q].kids[k] = d
      BY <1>1, <1>7
    <3>2. CASE d \in H /\ d # c
      BY <3>2
    <3>3. CASE d = c
      BY <1>1, <1>2, <2>2, <3>3
    <3>4. CASE \E q \in DOMAIN T \ C : \E k \in DOMAIN T[q].kids : T[q].kids[k] = d
      BY <1>4, <3>4
    <3> QED BY <3>1, <3>2, <3>3, <3>4
  <2> QED BY <2>1, <2>2
<1> QED BY <1>1, <1>5, <1>6, <1>7 DEF Grove

\* A NULL is put there instead.
LEMMA GroveAttachNull ==
  ASSUME NEW H, NEW T, Grove(H, T), NEW p \in H, NEW U, Attaches(T, U, p, 0)
  PROVE  Grove(H, U)
<1> USE DEF Attaches
<1>1. /\ H \subseteq DOMAIN T
      /\ \A q \in DOMAIN T : \A k \in DOMAIN T[q].kids : T[q].kids[k] = 0 \/ T[q].kids[k] \in DOMAIN T \ H
      /\ \A q, r \in DOMAIN T : \A j \in DOMAIN T[q].kids : \A k \in DOMAIN T[r].kids :
            T[q].kids[j] = T[r].kids[k] => T[q].kids[j] = 0 \/ (q = r /\ j = k)
      /\ \A C \in SUBSET DOMAIN T : C # {} =>
            \E d \in C : d \in H \/ \E q \in DOMAIN T \ C : \E k \in DOMAIN T[q].kids : T[q].kids[k] = d
  BY DEF Grove
<1>2. \A k \in DOMAIN U[p].kids : U[p].kids[k] = 0 \/ (k \in DOMAIN T[p].kids /\ U[p].kids[k] = T[p].kids[k])
  OBVIOUS
<1>3. \A k \in DOMAIN T[p].kids : k \in DOMAIN U[p].kids /\ U[p].kids[k] = T[p].kids[k]
  OBVIOUS
<1>4. \A q \in DOMAIN U : \A k \in DOMAIN U[q].kids :
         U[q].kids[k] = 0 \/ (k \in DOMAIN T[q].kids /\ U[q].kids[k] = T[q].kids[k])
  BY <1>2
<1>5. \A q \in DOMAIN T : \A k \in DOMAIN T[q].kids :
         k \in DOMAIN U[q].kids /\ U[q].kids[k] = T[q].kids[k]
  BY <1>3
<1>6. \A q \in DOMAIN U : \A k \in DOMAIN U[q].kids : U[q].kids[k] = 0 \/ U[q].kids[k] \in DOMAIN U \ H
  BY <1>1, <1>4
<1>7. \A q, r \in DOMAIN U : \A j \in DOMAIN U[q].kids : \A k \in DOMAIN U[r].kids :
         U[q].kids[j] = U[r].kids[k] => U[q].kids[j] = 0 \/ (q = r /\ j = k)
  BY <1>1, <1>4
<1>8. ASSUME NEW C \in SUBSET DOMAIN U, C # {}
      PROVE  \E d \in C : d \in H \/ \E q \in DOMAIN U \ C : \E k \in DOMAIN U[q].kids : U[q].kids[k] = d
  BY <1>1, <1>5, <1>8
<1> QED BY <1>1, <1>6, <1>7, <1>8 DEF Grove

\* What hangs below the nodes S of some variables is freed.
LEMMA GroveFree ==
  ASSUME NEW H, NEW T, Grove(H, T), NEW S, S \subseteq H, NEW F, NEW U, Frees(T, U, S, F),
         0 \notin DOMAIN T
  PROVE  Grove(H \ S, U)
<1> USE DEF Frees
<1>1. /\ H \subseteq DOMAIN T
      /\ \A p \in DOMAIN T : \A k \in DOMAIN T[p].kids : T[p].kids[k] = 0 \/ T[p].kids[k] \in DOMAIN T \ H
      /\ \A p, q \in DOMAIN T : \A j \in DOMAIN T[p].kids : \A k \in DOMAIN T[q].kids :
            T[p].kids[j] = T[q].kids[k] => T[p].kids[j] = 0 \/ (p = q /\ j = k)
      /\ \A C \in SUBSET DOMAIN T : C # {} =>
            \E c \in C : c \in H \/ \E p \in DOMAIN T \ C : \E k \in DOMAIN T[p].kids : T[p].kids[k] = c
  BY DEF Grove
<1>2. DOMAIN U = DOMAIN T \ F /\ \A id \in DOMAIN U : U[id] = T[id]
  OBVIOUS
<1>3. H \ S \subseteq DOMAIN U
  BY <1>1, <1>2
<1>4. \A p \in DOMAIN U : \A k \in DOMAIN U[p].kids : U[p].kids[k] = 0 \/ U[p].kids[k] \in DOMAIN U \ (H \ S)
  BY <1>1, <1>2
<1>5. \A p, q \in DOMAIN U : \A j \in DOMAIN U[p].kids : \A k \in DOMAIN U[q].kids :
         U[p].kids[j] = U[q].kids[k] => U[p].kids[j] = 0 \/ (p = q /\ j = k)
  BY <1>1, <1>2
<1>6. ASSUME NEW C \in SUBSET DOMAIN U, C # {}
      PROVE  \E c \in C : \/ c \in H \ S
                          \/ \E p \in DOMAIN U \ C : \E k \in DOMAIN U[p].kids : U[p].kids[k] = c
  <2>1. C \in SUBSET DOMAIN T
    BY <1>2
  <2>2. PICK c \in C : c \in H \/ \E p \in DOMAIN T \ C : \E k \in DOMAIN T[p].kids : T[p].kids[k] = c
    BY <1>1, <1>6, <2>1
  <2>3. c \notin F
    BY <1>2
  <2>4. CASE c \in H
    BY <2>3, <2>4
  <2>5. CASE \E p \in DOMAIN T \ C : \E k \in DOMAIN T[p].kids : T[p].kids[k] = c
    <3>1. PICK p \in DOMAIN T \ C : \E k \in DOMAIN T[p].kids : T[p].kids[k] = c
      BY <2>5
    <3>2. p \notin F
      BY <2>3, <3>1
    <3> QED BY <1>2, <3>1, <3>2
  <2> QED BY <2>2, <2>4, <2>5
<1> QED BY <1>3, <1>4, <1>5, <1>6 DEF Grove

\* When no variable holds a node there is none.
LEMMA GroveEmpty ==
  ASSUME NEW T, Grove({}, T)
  PROVE  DOMAIN T = {}
BY DEF Grove
-----------------------------------------------------------------------------
(***************************************************************************)
(* The innermost activation                                                *)
(***************************************************************************)
\* The cases of After.
LEMMA AfterCases ==
  ASSUME NEW s, NEW i, i = InstrOf(s)
  PROVE  /\ GoesOn(s) => On(s) \in After(s)
         /\ i.do \in {"expect", "fail"} => Shape(s.fn, s.pc + 1, s.n, s.r, TRUE) \in After(s)
         /\ i.do \in {"unless", "jump"} => Shape(s.fn, s.pc + 1 + i.skip, s.n, s.r, s.failed) \in After(s)
         /\ i.do = "branch" => \A g \in Targets(s.fn) : Shape(g, 1, FALSE, FALSE, s.failed) \in After(s)
         /\ i.do \in {"new", "reseat"} => Shape(s.fn, s.pc + 1, TRUE, FALSE, s.failed) \in After(s)
         /\ i.do = "call" /\ ~s.failed => Callees(i.name) \cup Returned(s) \subseteq After(s)
BY DEF After

\* The innermost activation is in its code, at a shape it may have.
LEMMA TopTyped ==
  ASSUME Activations, stack # <<>>
  PROVE  /\ Size \in Nat /\ Size > 0 /\ Size \in 1..Size /\ Top = stack[Size] /\ Top \in Frame
         /\ ShapeAt(Size) \in Shapes /\ Careful(ShapeAt(Size)) /\ After(ShapeAt(Size)) \subseteq Shapes
         /\ Instr = InstrOf(ShapeAt(Size)) /\ InstrAt(Size) = Instr
         /\ ShapeAt(Size) = [fn |-> Top.fn, pc |-> Top.pc, n |-> Top.n # 0, r |-> Top.r # 0, failed |-> failed]
         /\ ShapeAt(Size).fn = Top.fn /\ ShapeAt(Size).pc = Top.pc /\ ShapeAt(Size).failed = failed
         /\ ShapeAt(Size).n = (Top.n # 0) /\ ShapeAt(Size).r = (Top.r # 0)
<1>1. stack \in Seq(Frame) /\ Size = Len(stack)
  BY DEF Activations, Size
<1>2. Size \in Nat /\ Size > 0 /\ Size \in 1..Size
  BY <1>1
<1>3. Top = stack[Size] /\ Top \in Frame
  BY <1>1, <1>2 DEF Top
<1>4. ShapeAt(Size) \in Shapes
  BY <1>2 DEF Activations
<1>5. ShapeAt(Size) = [fn |-> Top.fn, pc |-> Top.pc, n |-> Top.n # 0, r |-> Top.r # 0, failed |-> failed]
  BY <1>3 DEF ShapeAt
<1>6. Instr = InstrOf(ShapeAt(Size)) /\ InstrAt(Size) = Instr
  BY <1>3, <1>5 DEF Instr, InstrOf, InstrAt
<1>7. /\ ShapeAt(Size).fn = Top.fn /\ ShapeAt(Size).pc = Top.pc /\ ShapeAt(Size).failed = failed
      /\ ShapeAt(Size).n = (Top.n # 0) /\ ShapeAt(Size).r = (Top.r # 0)
  BY <1>5
<1> QED BY <1>2, <1>3, <1>4, <1>5, <1>6, <1>7, OwnershipAssumption

\* The innermost activation moves on or turns into another one.
LEMMA TurnKeeps ==
  ASSUME Activations, stack # <<>>,
         NEW g \in Frame, stack' = [stack EXCEPT ![Size] = g], UNCHANGED result,
         g.fn = Top.fn \/ Top.fn # "program",
         [fn |-> g.fn, pc |-> g.pc, n |-> g.n # 0, r |-> g.r # 0, failed |-> failed'] \in After(ShapeAt(Size))
  PROVE  /\ Activations' /\ Size' = Size /\ stack'[Size] = g
         /\ \A k \in 1..Size : k # Size => stack'[k] = stack[k]
<1>1. PICK d \in Nat : d = Size /\ d > 0 /\ d \in 1..d
  BY TopTyped
<1>2. /\ stack \in Seq(Frame) /\ Len(stack) = d /\ stack' \in Seq(Frame) /\ Size' = d
      /\ stack'[d] = g /\ \A k \in 1..d : k # d => stack'[k] = stack[k]
      /\ Top = stack[d]
  <2>1. stack \in Seq(Frame) /\ Len(stack) = d
    BY <1>1 DEF Activations, Size
  <2> QED BY <1>1, <2>1, TopTyped DEF Size
<1>3. ShapeAt(d)' \in Shapes
  <2>1. ShapeAt(d)' = [fn |-> g.fn, pc |-> g.pc, n |-> g.n # 0, r |-> g.r # 0, failed |-> failed']
    BY <1>2 DEF ShapeAt
  <2> QED BY <1>1, <2>1, TopTyped
<1>4. ASSUME NEW k \in 1..(d - 1)
      PROVE  k \in 1..d /\ k # d /\ ShapeAt(k)' = ShapeAt(k) /\ InstrAt(k)' = InstrAt(k)
  <2>1. k \in 1..d /\ k # d /\ stack'[k] = stack[k]
    BY <1>1, <1>2
  <2>2. ShapeAt(k)' = ShapeAt(k)
    BY <1>1, <1>2, <2>1 DEF ShapeAt
  <2>3. InstrAt(k)' = InstrAt(k)
    BY <2>1 DEF InstrAt
  <2> QED BY <2>1, <2>2, <2>3
<1>5. \A k \in 1..d : ShapeAt(k)' \in Shapes
  BY <1>1, <1>3, <1>4 DEF Activations
<1>6. \A k \in 1..(d - 1) : InstrAt(k)'.do = "call"
  BY <1>1, <1>4 DEF Activations
<1>7. stack'[1].fn = "program"
  BY <1>1, <1>2 DEF Activations
<1> QED BY <1>1, <1>2, <1>5, <1>6, <1>7 DEF Activations

\* It does so with the same nodes.
LEMMA MoveKeeps ==
  ASSUME Activations, Apart, Tree, stack # <<>>,
         NEW g \in Frame, stack' = [stack EXCEPT ![Size] = g],
         UNCHANGED <<nodes, fresh, misfreed, root, result>>,
         g.n = Top.n, g.r = Top.r, g.fn = Top.fn \/ Top.fn # "program", failed => failed',
         [fn |-> g.fn, pc |-> g.pc, n |-> g.n # 0, r |-> g.r # 0, failed |-> failed'] \in After(ShapeAt(Size))
  PROVE  Activations' /\ Apart' /\ Tree'
<1>1. PICK d \in Nat : d = Size
  BY TopTyped
<1>2. /\ Activations' /\ Size' = d /\ stack'[d] = g /\ Top = stack[d]
      /\ \A k \in 1..d : k # d => stack'[k] = stack[k]
  BY <1>1, TurnKeeps, TopTyped
<1>3. \A k \in 1..d : stack'[k].n = stack[k].n /\ stack'[k].r = stack[k].r
  BY <1>2
<1>4. Apart'
  BY <1>1, <1>2, <1>3 DEF Apart
<1>5. Held' = Held
  BY <1>1, <1>2, <1>3 DEF Held
<1>6. Tree'
  BY <1>5 DEF Tree
<1> QED BY <1>2, <1>4, <1>6

\* It goes on with the next instruction.
LEMMA OnKeeps ==
  ASSUME Activations, Apart, Tree, stack # <<>>, GoesOn(ShapeAt(Size)),
         NEW g \in Frame, stack' = [stack EXCEPT ![Size] = g],
         UNCHANGED <<nodes, fresh, misfreed, root, result, failed>>,
         g.fn = Top.fn, g.pc = Top.pc + 1, g.n = Top.n, g.r = Top.r
  PROVE  Activations' /\ Apart' /\ Tree'
<1>1. [fn |-> g.fn, pc |-> g.pc, n |-> g.n # 0, r |-> g.r # 0, failed |-> failed'] = On(ShapeAt(Size))
  BY TopTyped DEF On, Shape
<1>2. On(ShapeAt(Size)) \in After(ShapeAt(Size))
  BY AfterCases
<1> QED BY <1>1, <1>2, MoveKeeps

\* Frames that differ from the innermost in where they are.
LEMMA PastTyped ==
  ASSUME Top \in Frame
  PROVE  /\ Past \in Frame /\ Past.fn = Top.fn /\ Past.pc = Top.pc + 1 /\ Past.n = Top.n /\ Past.r = Top.r
         /\ Past = [Top EXCEPT !.pc = Top.pc + 1]
BY DEF Past, Frame

\* A token is taken.
LEMMA EatKeeps ==
  ASSUME Input, ~failed, pos <= Len(tokens), Eat, UNCHANGED <<program, tokens>>
  PROVE  Input'
<1>1. /\ program \in Programs /\ tokens \in Seq(program.kinds \cup {"eof"}) /\ Len(tokens) <= program.max
      /\ Len(tokens) = program.max => tokens[program.max] = "eof"
      /\ pos \in 1..program.max /\ errPos \in 0..program.max
  BY DEF Input
<1>2. program.max \in Nat
  BY <1>1, ParserAssumption
<1>3. pos' \in 1..program.max
  <2>1. CASE tokens[pos] = "eof"
    BY <1>1, <2>1 DEF Eat, Cur
  <2>2. CASE tokens[pos] # "eof"
    <3>1. pos < program.max
      BY <1>1, <1>2, <2>2
    <3> QED BY <1>1, <1>2, <2>2, <3>1 DEF Eat, Cur
  <2> QED BY <2>1, <2>2
<1> QED BY <1>1, <1>3 DEF Input, Eat

\* The first error is noted where the parser stands.
LEMMA FailKeeps ==
  ASSUME Input, ParseFail, UNCHANGED <<program, tokens>>
  PROVE  Input'
<1>1. program.max \in Nat
  BY ParserAssumption DEF Input
<1>2. errPos' = pos'
  BY DEF Input, ParseFail
<1> QED BY <1>1, <1>2 DEF Input, ParseFail

LEMMA SameInputKeeps ==
  ASSUME Input, UNCHANGED <<program, tokens, pos, failed, errPos>>
  PROVE  Input'
BY DEF Input

\* Tokens are looked at when they are known.
LEMMA Known ==
  ASSUME Input, ~Undecided
  PROVE  pos <= Len(tokens)
<1>1. pos \in Int /\ Len(tokens) \in Int
  BY ParserAssumption DEF Input
<1> QED BY <1>1 DEF Undecided

LEMMA AdvanceKeeps ==
  ASSUME ParserInv, DoAdvance
  PROVE  ParserInv'
<1>1. /\ stack # <<>> /\ ~Undecided /\ Instr.do = "advance" /\ UNCHANGED <<program, tokens>> /\ Eat
      /\ stack' = [stack EXCEPT ![Size] = [Past EXCEPT !.op = pos]]
      /\ UNCHANGED <<nodes, fresh, misfreed, root, result>>
  BY DEF DoAdvance, At, SetTop, SameTree, Size
<1>2. Input /\ Activations /\ Apart /\ Tree
  BY DEF ParserInv
<1>3. /\ Top \in Frame /\ Instr = InstrOf(ShapeAt(Size)) /\ Careful(ShapeAt(Size))
      /\ ShapeAt(Size).failed = failed
  BY <1>1, <1>2, TopTyped
<1>4. ~failed
  BY <1>1, <1>3 DEF Careful
<1>5. Input'
  BY <1>1, <1>2, <1>4, EatKeeps, Known
<1>6. PICK g : g = [Past EXCEPT !.op = pos]
  OBVIOUS
<1>7. g \in Frame /\ g.fn = Top.fn /\ g.pc = Top.pc + 1 /\ g.n = Top.n /\ g.r = Top.r
  <2>1. pos \in Nat
    BY <1>2, ParserAssumption DEF Input
  <2> QED BY <1>3, <1>6, <2>1, PastTyped DEF Frame
<1>8. GoesOn(ShapeAt(Size)) /\ failed' = failed
  BY <1>1, <1>3 DEF GoesOn, Eat
<1> QED BY <1>1, <1>2, <1>5, <1>6, <1>7, <1>8, OnKeeps DEF ParserInv

\* The parser fails, and runs on to where that is looked for.
LEMMA FailedMoveKeeps ==
  ASSUME ParserInv, stack # <<>>, Instr.do \in {"expect", "fail"}, ParseFail,
         stack' = [stack EXCEPT ![Size] = Past],
         UNCHANGED <<program, tokens, nodes, fresh, misfreed, root, result>>
  PROVE  ParserInv'
<1>1. Input /\ Activations /\ Apart /\ Tree
  BY DEF ParserInv
<1>2. /\ Top \in Frame /\ Instr = InstrOf(ShapeAt(Size))
      /\ ShapeAt(Size) = [fn |-> Top.fn, pc |-> Top.pc, n |-> Top.n # 0, r |-> Top.r # 0, failed |-> failed]
  BY <1>1, TopTyped
<1>3. Shape(Top.fn, Top.pc + 1, Top.n # 0, Top.r # 0, TRUE) \in After(ShapeAt(Size))
  BY <1>1, <1>2, AfterCases
<1>4. /\ Past \in Frame /\ Past.fn = Top.fn /\ Past.pc = Top.pc + 1 /\ Past.n = Top.n /\ Past.r = Top.r
  BY <1>2, PastTyped
<1>5. [fn |-> Past.fn, pc |-> Past.pc, n |-> Past.n # 0, r |-> Past.r # 0, failed |-> failed']
        = Shape(Top.fn, Top.pc + 1, Top.n # 0, Top.r # 0, TRUE)
  BY <1>4 DEF Shape, ParseFail
<1>6. Activations' /\ Apart' /\ Tree'
  <2>1. failed' = TRUE
    BY DEF ParseFail
  <2> QED BY <1>1, <1>3, <1>4, <1>5, <2>1, MoveKeeps
<1> QED BY <1>1, <1>6, FailKeeps DEF ParserInv

LEMMA ExpectKeeps ==
  ASSUME ParserInv, DoExpect
  PROVE  ParserInv'
<1>1. /\ stack # <<>> /\ ~Undecided /\ Instr.do = "expect" /\ UNCHANGED <<program, tokens>>
      /\ \/ failed /\ SameInput
         \/ ~failed /\ Cur \in Instr.toks /\ Eat
         \/ ~failed /\ Cur \notin Instr.toks /\ ParseFail
      /\ stack' = [stack EXCEPT ![Size] = Past]
      /\ UNCHANGED <<nodes, fresh, misfreed, root, result>>
  BY DEF DoExpect, At, SetTop, SameTree, Size
<1>2. Input /\ Activations /\ Apart /\ Tree
  BY DEF ParserInv
<1>3. Top \in Frame /\ Instr = InstrOf(ShapeAt(Size))
  BY <1>1, <1>2, TopTyped
<1>4. /\ Past \in Frame /\ Past.fn = Top.fn /\ Past.pc = Top.pc + 1 /\ Past.n = Top.n /\ Past.r = Top.r
  BY <1>3, PastTyped
<1>5. GoesOn(ShapeAt(Size))
  BY <1>1, <1>3 DEF GoesOn
<1>6. CASE failed /\ SameInput
  <2>1. Input' /\ failed' = failed
    BY <1>1, <1>2, <1>6, SameInputKeeps DEF SameInput
  <2> QED BY <1>1, <1>2, <1>4, <1>5, <2>1, OnKeeps DEF ParserInv
<1>7. CASE ~failed /\ Cur \in Instr.toks /\ Eat
  <2>1. Input' /\ failed' = failed
    BY <1>1, <1>2, <1>7, EatKeeps, Known DEF Eat
  <2> QED BY <1>1, <1>2, <1>4, <1>5, <2>1, OnKeeps DEF ParserInv
<1>8. CASE ~failed /\ Cur \notin Instr.toks /\ ParseFail
  BY <1>1, <1>8, FailedMoveKeeps
<1> QED BY <1>1, <1>6, <1>7, <1>8

LEMMA DoFailKeeps ==
  ASSUME ParserInv, DoFail
  PROVE  ParserInv'
<1>1. /\ stack # <<>> /\ Instr.do = "fail" /\ UNCHANGED <<program, tokens>> /\ ParseFail
      /\ stack' = [stack EXCEPT ![Size] = Past]
      /\ UNCHANGED <<nodes, fresh, misfreed, root, result>>
  BY DEF DoFail, At, SetTop, SameTree, Size
<1> QED BY <1>1, FailedMoveKeeps

\* A token that was not decided yet is: the last one is T_EOF.
LEMMA ScanKeeps ==
  ASSUME ParserInv, Scan
  PROVE  ParserInv'
<1>1. Input /\ Activations /\ Apart /\ Tree
  BY DEF ParserInv
<1>2. PICK t \in IF Len(tokens) + 1 = program.max THEN {"eof"} ELSE program.kinds \cup {"eof"} :
         tokens' = Append(tokens, t)
  BY DEF Scan
<1>3. /\ Undecided
      /\ UNCHANGED <<program, pos, failed, errPos, stack, nodes, fresh, misfreed, root, result>>
  BY DEF Scan
<1>4. /\ program \in Programs /\ tokens \in Seq(program.kinds \cup {"eof"}) /\ Len(tokens) <= program.max
      /\ Len(tokens) = program.max => tokens[program.max] = "eof"
      /\ pos \in 1..program.max /\ program.max \in Nat
  BY <1>1, ParserAssumption DEF Input
<1>5. Len(tokens) < program.max
  <2>1. ASSUME Len(tokens) = program.max
        PROVE  FALSE
    <3>1. pos = program.max /\ Cur = "id"
      BY <1>3, <1>4, <2>1 DEF Undecided
    <3> QED BY <1>4, <2>1, <3>1 DEF Cur
  <2> QED BY <1>4, <2>1
<1>6. /\ tokens' \in Seq(program.kinds \cup {"eof"}) /\ Len(tokens') = Len(tokens) + 1
      /\ tokens'[Len(tokens) + 1] = t
  BY <1>2, <1>4
<1>7. Len(tokens') = program.max => tokens'[program.max] = "eof"
  BY <1>2, <1>6
<1>8. Input'
  BY <1>1, <1>3, <1>4, <1>5, <1>6, <1>7 DEF Input
<1>9. Activations' /\ Apart' /\ Tree'
  <2>1. /\ Size' = Size /\ Held' = Held
        /\ \A k : ShapeAt(k)' = ShapeAt(k) /\ InstrAt(k)' = InstrAt(k)
    BY <1>3 DEF ShapeAt, InstrAt, Size, Held
  <2>2. Activations'
    BY <1>1, <1>3, <2>1 DEF Activations
  <2>3. Apart'
    BY <1>1, <1>3, <2>1 DEF Apart
  <2>4. Tree'
    BY <1>1, <1>3, <2>1 DEF Tree
  <2> QED BY <2>2, <2>3, <2>4
<1> QED BY <1>8, <1>9 DEF ParserInv

\* The innermost activation goes elsewhere in its function.
LEMMA SkipKeeps ==
  ASSUME ParserInv, stack # <<>>, Instr.do \in {"unless", "jump"},
         stack' = [stack EXCEPT ![Size] = [Past EXCEPT !.pc = @ + Instr.skip]],
         UNCHANGED <<program, tokens, pos, failed, errPos, nodes, fresh, misfreed, root, result>>
  PROVE  ParserInv'
<1>1. Input /\ Activations /\ Apart /\ Tree
  BY DEF ParserInv
<1>2. /\ Top \in Frame /\ Instr = InstrOf(ShapeAt(Size)) /\ After(ShapeAt(Size)) \subseteq Shapes
      /\ ShapeAt(Size) = [fn |-> Top.fn, pc |-> Top.pc, n |-> Top.n # 0, r |-> Top.r # 0, failed |-> failed]
  BY <1>1, TopTyped
<1>3. PICK s : s = Shape(Top.fn, Top.pc + 1 + Instr.skip, Top.n # 0, Top.r # 0, failed)
  OBVIOUS
<1>4. s \in After(ShapeAt(Size)) /\ s.pc = Top.pc + 1 + Instr.skip
  BY <1>1, <1>2, <1>3, AfterCases DEF Shape
<1>5. s.pc \in Nat
  BY <1>2, <1>4, OwnershipAssumption
<1>6. PICK g : g = [Past EXCEPT !.pc = @ + Instr.skip]
  OBVIOUS
<1>7. /\ g \in Frame /\ g.fn = Top.fn /\ g.pc = s.pc /\ g.n = Top.n /\ g.r = Top.r
  BY <1>2, <1>4, <1>5, <1>6, PastTyped DEF Frame
<1>8. [fn |-> g.fn, pc |-> g.pc, n |-> g.n # 0, r |-> g.r # 0, failed |-> failed'] = s
  BY <1>3, <1>4, <1>7 DEF Shape
<1>9. Activations' /\ Apart' /\ Tree'
  BY <1>1, <1>4, <1>6, <1>7, <1>8, MoveKeeps
<1> QED BY <1>1, <1>9, SameInputKeeps DEF ParserInv

LEMMA JumpKeeps ==
  ASSUME ParserInv, DoJump
  PROVE  ParserInv'
<1>1. /\ stack # <<>> /\ Instr.do = "jump"
      /\ stack' = [stack EXCEPT ![Size] = [Past EXCEPT !.pc = @ + Instr.skip]]
      /\ UNCHANGED <<program, tokens, pos, failed, errPos, nodes, fresh, misfreed, root, result>>
  BY DEF DoJump, At, SetTop, SameInput, SameTree, Size
<1> QED BY <1>1, SkipKeeps

LEMMA UnlessKeeps ==
  ASSUME ParserInv, DoUnless
  PROVE  ParserInv'
<1>1. /\ stack # <<>> /\ Instr.do = "unless"
      /\ stack' = [stack EXCEPT ![Size] =
                    [Past EXCEPT !.pc = @ + (IF Holds(Instr.name, Instr.toks) THEN 0 ELSE Instr.skip)]]
      /\ UNCHANGED <<program, tokens, pos, failed, errPos, nodes, fresh, misfreed, root, result>>
  BY DEF DoUnless, At, SetTop, SameInput, SameTree, Size
<1>2. Input /\ Activations /\ Apart /\ Tree
  BY DEF ParserInv
<1>3. /\ Top \in Frame /\ Instr = InstrOf(ShapeAt(Size))
      /\ ShapeAt(Size).failed = failed /\ ShapeAt(Size).n = (Top.n # 0)
  BY <1>1, <1>2, TopTyped
<1>4. CASE Holds(Instr.name, Instr.toks)
  <2>1. GoesOn(ShapeAt(Size))
    <3>1. Instr.name = "unclosed" => ~failed
      BY <1>4 DEF Holds, Unclosed
    <3>2. Instr.name = "indexed" => Top.n # 0
      BY <1>4 DEF Holds
    <3> QED BY <1>1, <1>3, <3>1, <3>2 DEF GoesOn
  <2>2. PICK g : g = [Past EXCEPT !.pc = @ + 0]
    OBVIOUS
  <2>3. g \in Frame /\ g.fn = Top.fn /\ g.pc = Top.pc + 1 /\ g.n = Top.n /\ g.r = Top.r
    BY <1>3, <2>2, PastTyped DEF Frame
  <2>4. stack' = [stack EXCEPT ![Size] = g]
    BY <1>1, <1>4, <2>2
  <2> QED BY <1>1, <1>2, <2>1, <2>3, <2>4, OnKeeps, SameInputKeeps DEF ParserInv
<1>5. CASE ~Holds(Instr.name, Instr.toks)
  <2>1. stack' = [stack EXCEPT ![Size] = [Past EXCEPT !.pc = @ + Instr.skip]]
    BY <1>1, <1>5
  <2> QED BY <1>1, <2>1, SkipKeeps
<1> QED BY <1>4, <1>5

\* The samples of Targets are enough.
LEMMA ChosenIsTarget ==
  ASSUME NEW f \in {"stmt", "primary"}, NEW t
  PROVE  Chosen(f, t) \in Targets(f)
<1> DEFINE Samples == {"let", "print", "if", "while", "for", "try", "throw", "return",
                       "func", "break", "continue", "{", "number", "string", "[", "(", "id", "eof"}
<1>1. CASE t \in Samples
  BY <1>1 DEF Targets
<1>2. CASE t \notin Samples
  <2>1. Chosen(f, t) = Chosen(f, "eof")
    BY <1>2 DEF Chosen
  <2> QED BY <2>1 DEF Targets
<1> QED BY <1>1, <1>2

LEMMA BranchKeeps ==
  ASSUME ParserInv, DoBranch
  PROVE  ParserInv'
<1>1. PICK g : g = Activation(Chosen(Top.fn, Cur), 0)
  OBVIOUS
<1>2. /\ stack # <<>> /\ Instr.do = "branch" /\ stack' = [stack EXCEPT ![Size] = g]
      /\ UNCHANGED <<program, tokens, pos, failed, errPos, nodes, fresh, misfreed, root, result>>
  BY <1>1 DEF DoBranch, At, SetTop, SameInput, SameTree, Size
<1>3. Input /\ Activations /\ Apart /\ Tree
  BY DEF ParserInv
<1>4. /\ Top \in Frame /\ Instr = InstrOf(ShapeAt(Size)) /\ Careful(ShapeAt(Size))
      /\ After(ShapeAt(Size)) \subseteq Shapes
      /\ ShapeAt(Size).fn = Top.fn /\ ShapeAt(Size).failed = failed
      /\ ShapeAt(Size).n = (Top.n # 0) /\ ShapeAt(Size).r = (Top.r # 0)
  BY <1>2, <1>3, TopTyped
<1>5. Top.n = 0 /\ Top.r = 0 /\ Top.fn \in {"stmt", "primary"}
  BY <1>2, <1>4 DEF Careful
<1>6. PICK c : c = Chosen(Top.fn, Cur)
  OBVIOUS
<1>7. Shape(c, 1, FALSE, FALSE, failed) \in After(ShapeAt(Size))
  BY <1>2, <1>4, <1>5, <1>6, AfterCases, ChosenIsTarget
<1>8. c \in DOMAIN Code
  BY <1>4, <1>7, OwnershipAssumption DEF Shape
<1>9. g \in Frame /\ g.fn = c /\ g.pc = 1 /\ g.n = 0 /\ g.r = 0
  BY <1>1, <1>6, <1>8 DEF Activation, Frame
<1>10. [fn |-> g.fn, pc |-> g.pc, n |-> g.n # 0, r |-> g.r # 0, failed |-> failed']
         = Shape(c, 1, FALSE, FALSE, failed)
  BY <1>2, <1>9 DEF Shape
<1>11. Activations' /\ Apart' /\ Tree'
  BY <1>2, <1>3, <1>5, <1>7, <1>9, <1>10, MoveKeeps
<1> QED BY <1>2, <1>3, <1>11, SameInputKeeps DEF ParserInv

\* A call starts an activation without nodes; when the parser has failed it is
\* passed over.
LEMMA CallKeeps ==
  ASSUME ParserInv, DoCall
  PROVE  ParserInv'
<1>1. /\ stack # <<>> /\ Instr.do = "call"
      /\ UNCHANGED <<program, tokens, pos, failed, errPos, nodes, fresh, misfreed, root, result>>
  BY DEF DoCall, At, SameInput, SameTree
<1>2. Input /\ Activations /\ Apart /\ Tree
  BY DEF ParserInv
<1>3. /\ Top \in Frame /\ Instr = InstrOf(ShapeAt(Size)) /\ InstrAt(Size) = Instr
      /\ After(ShapeAt(Size)) \subseteq Shapes /\ ShapeAt(Size) \in Shapes
      /\ ShapeAt(Size).failed = failed
  BY <1>1, <1>2, TopTyped
<1>4. CASE failed /\ SetTop(Past)
  <2>1. /\ Past \in Frame /\ Past.fn = Top.fn /\ Past.pc = Top.pc + 1 /\ Past.n = Top.n /\ Past.r = Top.r
    BY <1>3, PastTyped
  <2>2. GoesOn(ShapeAt(Size))
    BY <1>1, <1>3, <1>4 DEF GoesOn
  <2>3. stack' = [stack EXCEPT ![Size] = Past]
    BY <1>4 DEF SetTop, Size
  <2> QED BY <1>1, <1>2, <2>1, <2>2, <2>3, OnKeeps, SameInputKeeps DEF ParserInv
<1>5. CASE ~failed
  <2>1. PICK a : stack' = Append(stack, a) /\ a =
               IF Instr.name # "operand" THEN Activation(Instr.name, 0)
               ELSE IF Top.level = LevelMax THEN Activation("unary", 0)
               ELSE Activation("level", Top.level + 1)
    BY <1>5 DEF DoCall
  <2>2. PICK c, v : v \in Nat /\ a = Activation(c, v) /\ Start(c) \in Callees(Instr.name)
    <3>1. Top.level \in Nat
      BY <1>3 DEF Frame
    <3> QED BY <2>1, <3>1 DEF Callees
  <2>3. Start(c) \in Shapes
    BY <1>1, <1>3, <1>5, <2>2, AfterCases
  <2>4. c \in DOMAIN Code
    BY <2>3, OwnershipAssumption DEF Start, Shape
  <2>5. /\ a \in Frame /\ a.fn = c /\ a.pc = 1 /\ a.n = 0 /\ a.r = 0
    BY <2>2, <2>4 DEF Activation, Frame
  <2>6. PICK d \in Nat : d = Size /\ d > 0
    BY <1>1, <1>2, TopTyped
  <2>7. /\ stack' \in Seq(Frame) /\ Size' = d + 1 /\ stack'[d + 1] = a
        /\ \A k \in 1..d : stack'[k] = stack[k]
    BY <1>2, <2>1, <2>5, <2>6 DEF Activations, Size
  <2>8. ASSUME NEW k \in 1..d
        PROVE  ShapeAt(k)' \in Shapes /\ InstrAt(k)'.do = "call"
    <3>1. stack'[k] = stack[k] /\ Size' # k /\ failed = FALSE
      BY <1>2, <1>5, <2>6, <2>7 DEF Input
    <3>2. ShapeAt(k)' = ShapeAt(k)
      BY <3>1 DEF ShapeAt
    <3>3. InstrAt(k)' = InstrAt(k)
      BY <3>1 DEF InstrAt
    <3>4. InstrAt(k).do = "call"
      <4>1. CASE k = d
        BY <1>1, <1>3, <2>6, <4>1
      <4>2. CASE k # d
        <5>1. k \in 1..(Size - 1)
          BY <2>6, <4>2
        <5> QED BY <1>2, <5>1 DEF Activations
      <4> QED BY <4>1, <4>2
    <3> QED BY <1>2, <2>6, <3>2, <3>3, <3>4 DEF Activations
  <2>9. ShapeAt(d + 1)' = Start(c)
    <3>1. failed' = FALSE
      BY <1>1, <1>2, <1>5 DEF Input
    <3> QED BY <2>5, <2>7, <3>1 DEF ShapeAt, Start, Shape
  <2>10. Activations'
    <3>1. \A k \in 1..(d + 1) : ShapeAt(k)' \in Shapes
      BY <2>3, <2>6, <2>8, <2>9
    <3>2. stack'[1].fn = "program" /\ result' = "todo"
      BY <1>1, <1>2, <2>6, <2>7 DEF Activations
    <3> QED BY <2>6, <2>7, <2>8, <3>1, <3>2 DEF Activations
  <2>11. \A k \in 1..(d + 1) : \/ k = d + 1 /\ stack'[k].n = 0 /\ stack'[k].r = 0
                               \/ k \in 1..d /\ stack'[k] = stack[k]
    BY <2>5, <2>6, <2>7
  <2>12. Apart'
    <3>1. ASSUME NEW j \in 1..(d + 1), NEW k \in 1..(d + 1)
          PROVE  /\ stack'[j].n # 0 => /\ stack'[j].n = stack'[k].n => j = k
                                       /\ stack'[j].n # stack'[k].r
                 /\ stack'[j].r # 0 => (stack'[j].r = stack'[k].r => j = k)
      BY <1>2, <2>6, <2>11 DEF Apart
    <3>2. root' = 0
      BY <1>1, <1>2, <2>6 DEF Apart
    <3> QED BY <2>7, <3>1, <3>2 DEF Apart
  <2>13. Held' = Held
    <3>1. ASSUME NEW id, id # 0
          PROVE  /\ (\E k \in 1..(d + 1) : stack'[k].n = id) <=> (\E k \in 1..d : stack[k].n = id)
                 /\ (\E k \in 1..(d + 1) : stack'[k].r = id) <=> (\E k \in 1..d : stack[k].r = id)
      BY <2>6, <2>7, <2>11, <3>1
    <3>2. root' = root /\ Size = d /\ Size' = d + 1
      BY <1>1, <2>6, <2>7
    <3>3. \A id : /\ id \in Held <=> /\ id # 0
                                     /\ \/ \E k \in 1..d : stack[k].n = id
                                        \/ \E k \in 1..d : stack[k].r = id
                                        \/ id = root
                  /\ id \in Held' <=> /\ id # 0
                                      /\ \/ \E k \in 1..(d + 1) : stack'[k].n = id
                                         \/ \E k \in 1..(d + 1) : stack'[k].r = id
                                         \/ id = root
      BY <3>2 DEF Held
    <3>4. \A id : id \in Held' <=> id \in Held
      BY <3>1, <3>3
    <3> QED BY <3>4
  <2>14. Tree'
    BY <1>1, <1>2, <2>13 DEF Tree
  <2> QED BY <1>1, <1>2, <2>10, <2>12, <2>14, SameInputKeeps DEF ParserInv
<1> QED BY <1>4, <1>5 DEF DoCall

\* The variables of a state hold live nodes.
LEMMA HeldLive ==
  ASSUME ParserInv
  PROVE  /\ Held \subseteq DOMAIN nodes /\ fresh \notin DOMAIN nodes /\ 0 \notin Held
         /\ \A k \in 1..Size : /\ stack[k].n \in Nat /\ stack[k].r \in Nat
                               /\ stack[k].n # 0 => stack[k].n \in Held
                               /\ stack[k].r # 0 => stack[k].r \in Held
<1>1. Held \subseteq DOMAIN nodes /\ fresh \notin DOMAIN nodes
  BY DEF ParserInv, Tree, Grove
<1>2. \A k \in 1..Size : stack[k] \in Frame
  BY DEF ParserInv, Activations, Size
<1> QED BY <1>1, <1>2 DEF Held, Frame

\* ast_new_node: what the innermost activation held now belongs to the new
\* node, or is gone.
LEMMA MakeKeeps ==
  ASSUME ParserInv, stack # <<>>, Instr.do \in {"new", "reseat"},
         UNCHANGED <<program, tokens>>,
         NEW ks \in Seq(Nat), NEW gone, Make(ks, gone), ~failed => \A k \in DOMAIN ks : ks[k] # 0,
         Grove((Held \ {Top.n, Top.r}) \cup {fresh}, nodes')
  PROVE  ParserInv'
<1>1. Input /\ Activations /\ Apart /\ Tree
  BY DEF ParserInv
<1>2. /\ Top \in Frame /\ Instr = InstrOf(ShapeAt(Size)) /\ Top = stack[Size]
      /\ ShapeAt(Size) \in Shapes /\ Size \in 1..Size
      /\ ShapeAt(Size).fn = Top.fn /\ ShapeAt(Size).pc = Top.pc /\ ShapeAt(Size).failed = failed
  BY <1>1, TopTyped
<1>3. PICK g : g = [Past EXCEPT !.n = fresh, !.r = 0]
  OBVIOUS
<1>4. /\ nodes' = [id \in (DOMAIN nodes \ gone) \cup {fresh} |->
                     IF id = fresh THEN [type |-> Instr.name, at |-> Top.op, kids |-> ks] ELSE nodes[id]]
      /\ fresh' = fresh + 1 /\ stack' = [stack EXCEPT ![Size] = g]
      /\ UNCHANGED <<pos, failed, errPos, misfreed, root, result>>
  BY <1>3 DEF Make, SetTop, SameInput, Size
<1>5. fresh \in Nat \ {0} /\ DOMAIN nodes \subseteq 1..(fresh - 1) /\ nodes \in [DOMAIN nodes -> Node]
  BY <1>1 DEF Tree
<1>6. g \in Frame /\ g.fn = Top.fn /\ g.pc = Top.pc + 1 /\ g.n = fresh /\ g.r = 0
  BY <1>2, <1>3, <1>5, PastTyped DEF Frame
<1>7. [fn |-> g.fn, pc |-> g.pc, n |-> g.n # 0, r |-> g.r # 0, failed |-> failed'] \in After(ShapeAt(Size))
  <2>1. Shape(Top.fn, Top.pc + 1, TRUE, FALSE, failed) \in After(ShapeAt(Size))
    BY <1>2, AfterCases
  <2>2. [fn |-> g.fn, pc |-> g.pc, n |-> g.n # 0, r |-> g.r # 0, failed |-> failed']
          = Shape(Top.fn, Top.pc + 1, TRUE, FALSE, failed)
    BY <1>4, <1>5, <1>6 DEF Shape
  <2> QED BY <2>1, <2>2
<1>8. PICK d \in Nat : d = Size /\ d \in 1..d
  BY <1>1, TopTyped
<1>9. /\ Activations' /\ Size' = d /\ stack'[d] = g
      /\ \A k \in 1..d : k # d => stack'[k] = stack[k]
  BY <1>1, <1>4, <1>6, <1>7, <1>8, TurnKeeps
<1>10. \A k \in 1..d : stack[k].n # fresh /\ stack[k].r # fresh
  BY <1>5, <1>8, HeldLive
<1>11. \A j, k \in 1..d : /\ stack[j].n # 0 => /\ stack[j].n = stack[k].n => j = k
                                               /\ stack[j].n # stack[k].r
                          /\ stack[j].r # 0 => (stack[j].r = stack[k].r => j = k)
  BY <1>1, <1>8 DEF Apart
<1>12. root = 0 /\ root' = 0
  BY <1>1, <1>2, <1>4 DEF Apart
<1>13. ASSUME NEW j \in 1..d, NEW k \in 1..d
       PROVE  /\ stack'[j].n # 0 => /\ stack'[j].n = stack'[k].n => j = k
                                    /\ stack'[j].n # stack'[k].r
              /\ stack'[j].r # 0 => (stack'[j].r = stack'[k].r => j = k)
  <2>1. fresh # 0
    BY <1>5
  <2>2. CASE j = d
    BY <1>6, <1>9, <1>10, <2>1, <2>2
  <2>3. CASE j # d
    BY <1>6, <1>9, <1>10, <1>11, <2>1, <2>3
  <2> QED BY <2>2, <2>3
<1>14. Apart'
  BY <1>9, <1>12, <1>13 DEF Apart
<1>15. Held' = (Held \ {Top.n, Top.r}) \cup {fresh}
  <2>1. ASSUME NEW id, id \in Held'
        PROVE  id \in (Held \ {Top.n, Top.r}) \cup {fresh}
    <3>1. PICK k \in 1..d : id # 0 /\ (id = stack'[k].n \/ id = stack'[k].r)
      BY <1>9, <1>12, <2>1 DEF Held
    <3>2. CASE k = d
      BY <1>6, <1>9, <3>1, <3>2
    <3>3. CASE k # d
      <4>1. id = stack[k].n \/ id = stack[k].r
        BY <1>9, <3>1, <3>3
      <4>2. id # Top.n /\ id # Top.r
        BY <1>2, <1>8, <1>11, <3>1, <3>3, <4>1
      <4> QED BY <1>8, <3>1, <4>1, <4>2 DEF Held
    <3> QED BY <3>2, <3>3
  <2>2. ASSUME NEW id, id \in Held, id # Top.n, id # Top.r
        PROVE  id \in Held'
    <3>1. PICK k \in 1..d : id # 0 /\ (id = stack[k].n \/ id = stack[k].r)
      BY <1>8, <1>12, <2>2 DEF Held
    <3>2. k # d
      BY <1>2, <1>8, <2>2, <3>1
    <3> QED BY <1>9, <3>1, <3>2 DEF Held
  <2>3. fresh \in Held'
    BY <1>5, <1>6, <1>8, <1>9 DEF Held
  <2> QED BY <2>1, <2>2, <2>3
<1>16. Tree'
  <2>1. fresh' \in Nat \ {0} /\ DOMAIN nodes' \subseteq 1..(fresh' - 1)
    BY <1>4, <1>5
  <2>2. nodes' \in [DOMAIN nodes' -> Node]
    <3>1. Instr.name \in Names /\ Top.op \in Nat
      BY <1>2 DEF Names, Frame
    <3>2. [type |-> Instr.name, at |-> Top.op, kids |-> ks] \in Node
      BY <3>1 DEF Node
    <3> QED BY <1>4, <1>5, <3>2
  <2>3. misfreed' = FALSE /\ result' # "failed"
    BY <1>1, <1>2, <1>4 DEF Tree, Activations
  <2>4. ~failed' => Filled(nodes')
    BY <1>1, <1>4 DEF Tree, Filled
  <2> QED BY <1>15, <2>1, <2>2, <2>3, <2>4 DEF Tree
<1> QED BY <1>1, <1>4, <1>9, <1>14, <1>16, SameInputKeeps DEF ParserInv

LEMMA NewEffect ==
  ASSUME ParserInv, DoNew
  PROVE  /\ stack # <<>> /\ Instr.do = "new" /\ UNCHANGED <<program, tokens>>
         /\ Instr.regs # {} \/ (Top.n = 0 /\ Top.r = 0)
         /\ {Top.n, Top.r} \ {0} \subseteq Held /\ Joins(nodes, nodes', fresh, {Top.n, Top.r} \ {0})
         /\ \E ks \in Seq(Nat) : Make(ks, {}) /\ \A k \in DOMAIN ks : ks[k] # 0
<1>1. PICK ks : ks = Taken
  OBVIOUS
<1>2. /\ stack # <<>> /\ Instr.do = "new" /\ UNCHANGED <<program, tokens>> /\ Make(ks, {})
  BY <1>1 DEF DoNew, At
<1>3. Activations /\ Apart /\ Tree
  BY DEF ParserInv
<1>4. /\ Top \in Frame /\ Instr = InstrOf(ShapeAt(Size)) /\ Top = stack[Size] /\ Size \in 1..Size
      /\ Careful(ShapeAt(Size)) /\ ShapeAt(Size).n = (Top.n # 0) /\ ShapeAt(Size).r = (Top.r # 0)
  BY <1>2, <1>3, TopTyped
<1>5. /\ Instr.regs \in {{}, N, NR}
      /\ Top.n # 0 <=> "n" \in Instr.regs
      /\ Top.r # 0 <=> "r" \in Instr.regs
  BY <1>2, <1>4 DEF Careful
<1>6. /\ Top.n \in Nat /\ Top.r \in Nat
      /\ Top.n # 0 => Top.n # Top.r
      /\ Top.n # 0 => Top.n \in Held
      /\ Top.r # 0 => Top.r \in Held
  BY <1>3, <1>4, HeldLive DEF Apart
<1>7. /\ ks \in Seq(Nat) /\ \A j, k \in DOMAIN ks : ks[j] = ks[k] => j = k
      /\ {ks[k] : k \in DOMAIN ks} = {Top.n, Top.r} \ {0}
      /\ \A k \in DOMAIN ks : ks[k] # 0
  <2>1. CASE Instr.regs = {}
    <3>1. ks = <<>> /\ Top.n = 0 /\ Top.r = 0
      BY <1>1, <1>5, <2>1 DEF Taken
    <3> QED BY <3>1
  <2>2. CASE Instr.regs = N
    <3>1. ks = <<Top.n>> /\ Top.n # 0 /\ Top.r = 0
      BY <1>1, <1>5, <2>2 DEF Taken, N
    <3>2. ks \in Seq(Nat) /\ DOMAIN ks = {1} /\ ks[1] = Top.n
      BY <1>6, <3>1
    <3> QED BY <3>1, <3>2
  <2>3. CASE Instr.regs = NR
    <3>1. ks = <<Top.n, Top.r>> /\ Top.n # 0 /\ Top.r # 0
      BY <1>1, <1>5, <2>3 DEF Taken, N, NR
    <3>2. ks \in Seq(Nat) /\ DOMAIN ks = {1, 2} /\ ks[1] = Top.n /\ ks[2] = Top.r
      BY <1>6, <3>1
    <3> QED BY <1>6, <3>1, <3>2
  <2> QED BY <1>5, <2>1, <2>2, <2>3
<1>8. Instr.regs # {} \/ (Top.n = 0 /\ Top.r = 0)
  BY <1>5
<1>9. fresh \notin DOMAIN nodes /\ 0 \notin Held
  BY HeldLive
<1>10. Joins(nodes, nodes', fresh, {Top.n, Top.r} \ {0})
  <2>1. PICK S : S = {ks[k] : k \in DOMAIN ks}
    OBVIOUS
  <2>2. Joins(nodes, nodes', fresh, S)
    BY <1>2, <1>7, <1>9, <2>1 DEF Make, Joins
  <2> QED BY <1>7, <2>1, <2>2
<1> QED BY <1>2, <1>6, <1>7, <1>8, <1>10

LEMMA NewKeeps ==
  ASSUME ParserInv, DoNew
  PROVE  ParserInv'
<1>1. PICK S : S = {Top.n, Top.r} \ {0}
  OBVIOUS
<1>2. /\ stack # <<>> /\ Instr.do = "new" /\ UNCHANGED <<program, tokens>>
      /\ S \subseteq Held /\ Joins(nodes, nodes', fresh, S)
  BY <1>1, NewEffect
<1>3. PICK ks \in Seq(Nat) : Make(ks, {}) /\ \A k \in DOMAIN ks : ks[k] # 0
  BY NewEffect
<1>4. Held \ S = Held \ {Top.n, Top.r}
  BY <1>1, HeldLive
<1>5. Grove((Held \ S) \cup {fresh}, nodes')
  <2>1. Grove(Held, nodes)
    BY DEF ParserInv, Tree
  <2> QED BY <1>2, <2>1, GroveNew
<1> QED BY <1>2, <1>3, <1>4, <1>5, MakeKeeps

LEMMA ReseatKeeps ==
  ASSUME ParserInv, DoReseat
  PROVE  ParserInv'
<1>1. PICK ks : ks = nodes[Top.n].kids
  OBVIOUS
<1>2. /\ stack # <<>> /\ Instr.do = "reseat" /\ UNCHANGED <<program, tokens>> /\ Make(ks, {Top.n})
  BY <1>1 DEF DoReseat, At
<1>3. Activations /\ Tree
  BY DEF ParserInv
<1>4. /\ Top \in Frame /\ Instr = InstrOf(ShapeAt(Size)) /\ Top = stack[Size] /\ Size \in 1..Size
      /\ Careful(ShapeAt(Size)) /\ ShapeAt(Size).n = (Top.n # 0) /\ ShapeAt(Size).r = (Top.r # 0)
  BY <1>2, <1>3, TopTyped
<1>5. Top.n # 0 /\ Top.r = 0
  BY <1>2, <1>4 DEF Careful
<1>6. /\ Top.n \in Held /\ Held \subseteq DOMAIN nodes
      /\ fresh \notin DOMAIN nodes /\ 0 \notin Held
  BY <1>4, <1>5, HeldLive
<1>7. ks \in Seq(Nat)
  BY <1>1, <1>3, <1>6 DEF Tree, Node
<1>8. Reseats(nodes, nodes', fresh, Top.n)
  BY <1>1, <1>2, <1>6 DEF Make, Reseats
<1>9. Grove((Held \ {Top.n}) \cup {fresh}, nodes')
  <2>1. Grove(Held, nodes)
    BY <1>3 DEF Tree
  <2> QED BY <1>6, <1>8, <2>1, GroveReseat
<1>10. Held \ {Top.n} = Held \ {Top.n, Top.r}
  BY <1>5, <1>6
<1>11. ~failed => \A k \in DOMAIN ks : ks[k] # 0
  BY <1>1, <1>3, <1>6 DEF Tree, Filled
<1> QED BY <1>2, <1>7, <1>9, <1>10, <1>11, MakeKeeps

\* An activation ends that another one waits for.
LEMMA LeaveEffect ==
  ASSUME Activations, NEW d \in Nat, d > 0, Size = d + 1, NEW id \in Nat, NEW heap, Leave(id, heap),
         failed' \in BOOLEAN, id # 0 \/ failed', NEW x, x = Register(InstrAt(d))
  PROVE  /\ Activations' /\ Size' = d /\ x \in {"n", "r", "kid"}
         /\ stack'[d].fn = stack[d].fn /\ stack'[d].pc = stack[d].pc + 1
         /\ stack'[d].op = stack[d].op /\ stack'[d].level = stack[d].level
         /\ stack'[d].n = (IF x = "n" THEN id ELSE stack[d].n)
         /\ stack'[d].r = (IF x = "r" THEN id ELSE stack[d].r)
         /\ \A k \in 1..(d - 1) : stack'[k] = stack[k]
         /\ x = "n" => stack[d].n = 0 /\ stack[d].r = 0
         /\ x = "r" => stack[d].r = 0
         /\ x = "kid" => stack[d].n # 0 /\ stack[d].r = 0
         /\ nodes' = (IF x = "kid" THEN Attached(heap, stack[d].n, id) ELSE heap)
         /\ UNCHANGED <<root, result>>
<1>1. stack \in Seq(Frame) /\ Len(stack) = d + 1 /\ d \in 1..(d + 1) /\ stack[d] \in Frame
  BY DEF Activations, Size
<1>2. PICK below : below = Front(stack)
  OBVIOUS
<1>3. /\ below \in Seq(Frame) /\ Len(below) = d /\ Last(below) = stack[d]
      /\ \A k \in 1..d : below[k] = stack[k]
  <2>1. below = SubSeq(stack, 1, d)
    BY <1>1, <1>2 DEF Front
  <2>2. below \in Seq(Frame) /\ Len(below) = d /\ \A k \in 1..d : below[k] = stack[k]
    BY <1>1, <2>1
  <2> QED BY <1>1, <2>2 DEF Last
<1>4. x = CHOOSE y \in Code[Last(below).fn][Last(below).pc].regs : TRUE
  BY <1>3 DEF Register, InstrAt
<1>5. PICK vn, vr \in Nat : /\ vn = (IF x = "n" THEN id ELSE stack[d].n)
                           /\ vr = (IF x = "r" THEN id ELSE stack[d].r)
  <2>1. stack[d].n \in Nat /\ stack[d].r \in Nat
    BY <1>1 DEF Frame
  <2> QED BY <2>1
<1>6. PICK g : g = [stack[d] EXCEPT !.pc = stack[d].pc + 1, !.n = vn, !.r = vr]
  OBVIOUS
<1>7. g \in Frame /\ g.fn = stack[d].fn /\ g.pc = stack[d].pc + 1 /\ g.n = vn /\ g.r = vr
      /\ g.op = stack[d].op /\ g.level = stack[d].level
  <2>1. stack[d].pc \in Nat
    BY <1>1 DEF Frame
  <2>2. stack[d].pc + 1 \in Nat
    BY <2>1
  <2> QED BY <1>1, <1>5, <1>6, <2>2 DEF Frame
<1>8. /\ stack' = [below EXCEPT ![d] = g]
       /\ nodes' = (IF x = "kid" THEN Attached(heap, stack[d].n, id) ELSE heap)
       /\ UNCHANGED <<root, result>>
  <2>1. Len(stack) # 1
    BY <1>1
  <2>2. below[d] = stack[d]
    BY <1>3
  <2>3. /\ stack' = [below EXCEPT ![Len(below)] =
                       [Last(below) EXCEPT !.pc = Last(below).pc + 1,
                                           !.n = IF x = "n" THEN id ELSE Last(below).n,
                                           !.r = IF x = "r" THEN id ELSE Last(below).r]]
        /\ nodes' = (IF x = "kid" THEN Attached(heap, Last(below).n, id) ELSE heap)
        /\ UNCHANGED <<root, result>>
    BY <1>2, <1>4, <2>1 DEF Leave
  <2>4. g = [below[d] EXCEPT !.pc = @ + 1, !.n = IF x = "n" THEN id ELSE @,
                             !.r = IF x = "r" THEN id ELSE @]
    BY <1>5, <1>6, <2>2
  <2>5. stack' = [below EXCEPT ![d] = g]
    <3>1. Len(below) = d /\ Last(below) = below[d]
      BY <1>3
    <3> QED BY <2>3, <2>4, <3>1
  <2> QED BY <1>3, <2>3, <2>5
<1>9. /\ stack' \in Seq(Frame) /\ Size' = d /\ stack'[d] = g
      /\ \A k \in 1..d : k # d => stack'[k] = stack[k]
  BY <1>1, <1>3, <1>7, <1>8 DEF Size
<1>10. /\ ShapeAt(d) \in Shapes /\ InstrAt(d).do = "call" /\ InstrOf(ShapeAt(d)) = InstrAt(d)
      /\ ShapeAt(d).fn = stack[d].fn /\ ShapeAt(d).pc = stack[d].pc /\ ShapeAt(d).failed = FALSE
      /\ ShapeAt(d).n = (stack[d].n # 0) /\ ShapeAt(d).r = (stack[d].r # 0)
  <2>1. ShapeAt(d) \in Shapes /\ InstrAt(d).do = "call"
    BY <1>1 DEF Activations
  <2>2. Size # d
    OBVIOUS
  <2>3. ShapeAt(d) = [fn |-> stack[d].fn, pc |-> stack[d].pc, n |-> stack[d].n # 0,
                      r |-> stack[d].r # 0, failed |-> FALSE]
    BY <2>2 DEF ShapeAt
  <2> QED BY <2>1, <2>3 DEF InstrOf, InstrAt
<1>11. /\ x \in {"n", "r", "kid"}
       /\ x = "n" => stack[d].n = 0 /\ stack[d].r = 0
       /\ x = "r" => stack[d].r = 0
       /\ x = "kid" => stack[d].n # 0 /\ stack[d].r = 0
  <2>1. Careful(ShapeAt(d))
    BY <1>10, OwnershipAssumption
  <2> QED BY <1>10, <2>1 DEF Careful
<1>12. ShapeAt(d)' \in Shapes
  <2>1. Shape(stack[d].fn, stack[d].pc + 1, IF x = "n" THEN id # 0 ELSE stack[d].n # 0,
              IF x = "r" THEN id # 0 ELSE stack[d].r # 0, failed') \in Returned(ShapeAt(d))
    <3>1. PICK b, f \in BOOLEAN : b = (id # 0) /\ f = failed'
      OBVIOUS
    <3>2. Resumption(ShapeAt(d), b, f) =
             Shape(stack[d].fn, stack[d].pc + 1, IF x = "n" THEN b ELSE stack[d].n # 0,
                   IF x = "r" THEN b ELSE stack[d].r # 0, f)
      BY <1>10 DEF Resumption
    <3>3. (b /\ ~f) \/ (b /\ f) \/ (~b /\ f)
      BY <3>1
    <3>4. Resumption(ShapeAt(d), b, f) \in Returned(ShapeAt(d))
      <4>1. CASE b /\ ~f
        BY <4>1 DEF Returned
      <4>2. CASE b /\ f
        BY <4>2 DEF Returned
      <4>3. CASE ~b /\ f
        BY <4>3 DEF Returned
      <4> QED BY <3>3, <4>1, <4>2, <4>3
    <3> QED BY <3>1, <3>2, <3>4
  <2>2. Returned(ShapeAt(d)) \subseteq Shapes
    BY <1>10, AfterCases, OwnershipAssumption
  <2>3. ShapeAt(d)' = [fn |-> g.fn, pc |-> g.pc, n |-> g.n # 0, r |-> g.r # 0, failed |-> failed']
    BY <1>9 DEF ShapeAt
  <2>4. (g.n # 0) = (IF x = "n" THEN id # 0 ELSE stack[d].n # 0)
    BY <1>5, <1>7
  <2>5. (g.r # 0) = (IF x = "r" THEN id # 0 ELSE stack[d].r # 0)
    BY <1>5, <1>7
  <2>6. ShapeAt(d)' = Shape(stack[d].fn, stack[d].pc + 1, IF x = "n" THEN id # 0 ELSE stack[d].n # 0,
                            IF x = "r" THEN id # 0 ELSE stack[d].r # 0, failed')
    BY <1>7, <2>3, <2>4, <2>5 DEF Shape
  <2> QED BY <2>1, <2>2, <2>6
<1>13. ASSUME NEW k \in 1..(d - 1)
       PROVE  k \in 1..d /\ k # d /\ ShapeAt(k)' \in Shapes /\ InstrAt(k)'.do = "call"
  <2>1. k \in 1..d /\ k # d /\ k # d + 1 /\ stack'[k] = stack[k]
    BY <1>9
  <2>2. ShapeAt(k)' = ShapeAt(k)
    BY <1>9, <2>1 DEF ShapeAt
  <2>3. InstrAt(k)' = InstrAt(k)
    BY <2>1 DEF InstrAt
  <2>4. k \in 1..Size /\ k \in 1..(Size - 1)
    OBVIOUS
  <2>5. ShapeAt(k) \in Shapes /\ InstrAt(k).do = "call"
    BY <2>4 DEF Activations
  <2> QED BY <2>1, <2>2, <2>3, <2>5
<1>14. Activations'
  <2>1. \A k \in 1..d : ShapeAt(k)' \in Shapes
    BY <1>12, <1>13
  <2>2. stack'[1].fn = "program"
    <3>1. stack[1].fn = "program" /\ 1 \in 1..d
      BY DEF Activations
    <3> QED BY <1>7, <1>9, <3>1
  <2>3. result' = "todo"
    BY <1>8 DEF Activations
  <2> QED BY <1>9, <1>13, <2>1, <2>2, <2>3 DEF Activations
<1> QED BY <1>5, <1>7, <1>8, <1>9, <1>11, <1>14

\* What an ended activation returns is all that is left of its nodes in heap.
LEMMA LeaveKeeps ==
  ASSUME ParserInv, stack # <<>>,
         UNCHANGED <<program, tokens, pos, failed, errPos, fresh, misfreed>>,
         NEW id \in {0, Top.n}, NEW heap, Leave(id, heap),
         Size = 1 /\ failed => id = 0, id # 0 \/ failed,
         heap \in [DOMAIN heap -> Node], DOMAIN heap \subseteq DOMAIN nodes, ~failed => Filled(heap),
         Grove((Held \ {Top.n, Top.r}) \cup ({id} \ {0}), heap)
  PROVE  ParserInv'
<1>1. Input /\ Activations /\ Apart /\ Tree
  BY DEF ParserInv
<1>2. /\ Top \in Frame /\ Top = stack[Size] /\ Size \in Nat /\ Size > 0 /\ id \in Nat
      /\ Top.n \in Nat /\ Top.r \in Nat
  <2>1. Top \in Frame /\ Top = stack[Size] /\ Size \in Nat /\ Size > 0
    BY <1>1, TopTyped
  <2> QED BY <2>1 DEF Frame
<1>3. root = 0
  BY <1>1, <1>2 DEF Apart
<1>4. Input' /\ failed' \in BOOLEAN /\ (id # 0 \/ failed')
  BY <1>1, SameInputKeeps DEF Input
<1>5. fresh \in Nat \ {0} /\ DOMAIN nodes \subseteq 1..(fresh - 1) /\ misfreed = FALSE
  BY <1>1 DEF Tree
<1>6. CASE Size = 1
  <2>1. /\ stack' = <<>> /\ nodes' = heap /\ root' = id
        /\ result' = (IF failed THEN "failed" ELSE "ok")
    BY <1>6 DEF Leave, Size
  <2>2. Size' = 0
    BY <2>1 DEF Size
  <2>3. Activations'
    <3>1. stack' \in Seq(Frame)
      BY <2>1
    <3>2. result' \in {"failed", "ok"} /\ (result' = "ok" => ~failed')
      BY <2>1
    <3> QED BY <2>2, <3>1, <3>2 DEF Activations
  <2>4. Apart'
    BY <2>2 DEF Apart
  <2>5. Held' = {id} \ {0}
    BY <2>1, <2>2 DEF Held
  <2>6. Held = {Top.n, Top.r} \ {0}
    BY <1>2, <1>3, <1>6 DEF Held
  <2>7. Grove(Held', nodes')
    <3>1. (Held \ {Top.n, Top.r}) \cup ({id} \ {0}) = {id} \ {0}
      BY <2>6
    <3> QED BY <2>1, <2>5, <3>1
  <2>8. result' = "failed" => DOMAIN nodes' = {}
    <3>1. ASSUME result' = "failed"
          PROVE  Held' = {}
      BY <1>1, <1>6, <2>1, <2>5, <3>1 DEF Input
    <3> QED BY <2>7, <3>1, GroveEmpty
  <2>9. Tree'
    BY <1>5, <2>1, <2>7, <2>8 DEF Tree
  <2> QED BY <1>4, <2>3, <2>4, <2>9 DEF ParserInv
<1>7. CASE Size > 1
  <2>1. PICK d \in Nat : d > 0 /\ Size = d + 1
    <3>1. Size - 1 \in Nat /\ Size - 1 > 0 /\ Size = (Size - 1) + 1
      BY <1>2, <1>7
    <3> QED BY <3>1
  <2>2. PICK x : x = Register(InstrAt(d))
    OBVIOUS
  <2>3. /\ Activations' /\ Size' = d /\ x \in {"n", "r", "kid"}
        /\ stack'[d].n = (IF x = "n" THEN id ELSE stack[d].n)
        /\ stack'[d].r = (IF x = "r" THEN id ELSE stack[d].r)
        /\ \A k \in 1..(d - 1) : stack'[k] = stack[k]
        /\ x = "n" => stack[d].n = 0
        /\ x = "r" => stack[d].r = 0
        /\ x = "kid" => stack[d].n # 0
        /\ nodes' = (IF x = "kid" THEN Attached(heap, stack[d].n, id) ELSE heap)
        /\ UNCHANGED <<root, result>>
    BY <1>1, <1>2, <1>4, <2>1, <2>2, LeaveEffect
  <2>4. \A k \in 1..d : k # d => k \in 1..(d - 1)
    OBVIOUS
  <2>5. /\ \A k \in 1..(d + 1) : stack[k].n \in Nat /\ stack[k].r \in Nat
        /\ \A j, k \in 1..(d + 1) : /\ stack[j].n # 0 => /\ stack[j].n = stack[k].n => j = k
                                                         /\ stack[j].n # stack[k].r
                                    /\ stack[j].r # 0 => (stack[j].r = stack[k].r => j = k)
    BY <1>1, <2>1, HeldLive DEF Apart
  <2>6. /\ Top = stack[d + 1] /\ d \in 1..(d + 1) /\ d + 1 \in 1..(d + 1) /\ d \in 1..d
        /\ 1..d \subseteq 1..(d + 1) /\ d # d + 1 /\ \A k \in 1..d : k # d + 1
    BY <1>2, <2>1
  <2>7. \A k \in 1..d : /\ stack'[k].n = (IF k = d /\ x = "n" THEN id ELSE stack[k].n)
                        /\ stack'[k].r = (IF k = d /\ x = "r" THEN id ELSE stack[k].r)
    BY <2>3, <2>4
  <2>8. \A k \in 1..d : /\ Top.n # 0 => stack[k].n # Top.n /\ stack[k].r # Top.n
                        /\ Top.r # 0 => stack[k].n # Top.r /\ stack[k].r # Top.r
    BY <2>5, <2>6
  <2>9. Apart'
    <3>1. ASSUME NEW j \in 1..d, NEW k \in 1..d
          PROVE  /\ stack'[j].n # 0 => /\ stack'[j].n = stack'[k].n => j = k
                                       /\ stack'[j].n # stack'[k].r
                 /\ stack'[j].r # 0 => (stack'[j].r = stack'[k].r => j = k)
      <4>1. j \in 1..(d + 1) /\ k \in 1..(d + 1)
        BY <2>6
      <4>2. CASE id = 0
        BY <2>5, <2>7, <4>1, <4>2
      <4>3. CASE id # 0
        <5>1. id = Top.n
          BY <4>3
        <5> QED BY <2>3, <2>5, <2>7, <2>8, <4>1, <4>3, <5>1
      <4> QED BY <4>2, <4>3
    <3> QED BY <1>3, <2>3, <3>1 DEF Apart
  <2>10. PICK kept : kept = (Held \ {Top.n, Top.r}) \cup ({id} \ {0})
    OBVIOUS
  <2>11. \A v : v \in Held <=> v # 0 /\ \E k \in 1..(d + 1) : v = stack[k].n \/ v = stack[k].r
    BY <1>3, <2>1 DEF Held
  <2>12. \A v : v \in Held' <=> v # 0 /\ \E k \in 1..d : v = stack'[k].n \/ v = stack'[k].r
    BY <1>3, <2>3 DEF Held
  <2>13. \A v : v \in Held \ {Top.n, Top.r} <=> v # 0 /\ \E k \in 1..d : v = stack[k].n \/ v = stack[k].r
    BY <2>6, <2>8, <2>11
  <2>14. Held' = IF x = "kid" THEN kept \ {id} ELSE kept
    <3>1. CASE x = "kid"
      <4>1. \A v : v \in Held' <=> v \in Held \ {Top.n, Top.r}
        BY <2>7, <2>12, <2>13, <3>1
      <4>2. id \notin Held \ {Top.n, Top.r}
        BY <2>13
      <4> QED BY <2>10, <3>1, <4>1, <4>2
    <3>2. CASE x \in {"n", "r"}
      <4>1. ASSUME NEW v \in Held'
            PROVE  v \in kept
        BY <2>7, <2>10, <2>12, <2>13
      <4>2. ASSUME NEW v \in kept
            PROVE  v \in Held'
        <5>1. CASE v = id /\ id # 0
          BY <2>6, <2>7, <2>12, <3>2, <5>1
        <5>2. CASE v \in Held \ {Top.n, Top.r}
          <6>1. PICK k \in 1..d : v # 0 /\ (v = stack[k].n \/ v = stack[k].r)
            BY <2>13, <5>2
          <6>2. v = stack'[k].n \/ v = stack'[k].r
            BY <2>3, <2>7, <6>1
          <6> QED BY <2>12, <6>1, <6>2
        <5> QED BY <2>10, <4>2, <5>1, <5>2
      <4> QED BY <3>2, <4>1, <4>2
    <3> QED BY <2>3, <3>1, <3>2
  <2>15. Grove(kept, heap)
    BY <2>10
  <2>16. /\ Grove(Held', nodes') /\ DOMAIN nodes' = DOMAIN heap /\ nodes' \in [DOMAIN heap -> Node]
         /\ ~failed => Filled(nodes')
    <3>1. CASE x # "kid"
      BY <2>3, <2>14, <2>15, <3>1
    <3>2. CASE x = "kid"
      <4>1. PICK p \in Nat : p = stack[d].n
        BY <2>5, <2>6
      <4>2. p # 0 /\ (id # 0 => id = Top.n /\ p # id)
        BY <2>3, <2>6, <2>8, <3>2, <4>1
      <4>3. p \in kept /\ (id # 0 => id \in kept) /\ 0 \notin kept
        BY <2>6, <2>10, <2>13, <3>2, <4>1, <4>2
      <4>4. kept \subseteq DOMAIN heap
        BY <2>15 DEF Grove
      <4>5. heap[p] \in Node /\ heap[p].kids \in Seq(Nat)
        BY <4>3, <4>4 DEF Node
      <4>6. nodes' = [heap EXCEPT ![p].kids = Append(@, id)]
        BY <2>3, <3>2, <4>1 DEF Attached
      <4>7. Attaches(heap, nodes', p, id)
        BY <4>3, <4>4, <4>5, <4>6 DEF Attaches, Node
      <4>8. Grove(kept \ {id}, nodes')
        <5>1. CASE id = 0
          <6>1. kept \ {id} = kept
            BY <4>3, <5>1
          <6> QED BY <2>15, <4>3, <4>7, <5>1, <6>1, GroveAttachNull
        <5>2. CASE id # 0
          BY <1>2, <2>15, <4>2, <4>3, <4>7, <5>2, GroveAttach
        <5> QED BY <5>1, <5>2
      <4>9. DOMAIN nodes' = DOMAIN heap /\ nodes' \in [DOMAIN heap -> Node]
        <5>1. [heap[p] EXCEPT !.kids = Append(@, id)] \in Node
          <6>1. Append(heap[p].kids, id) \in Seq(Nat)
            BY <1>2, <4>5
          <6> QED BY <4>5, <6>1 DEF Node
        <5> QED BY <4>6, <5>1
      <4>10. ASSUME ~failed
             PROVE  Filled(nodes')
        <5>1. id # 0 /\ Filled(heap)
          BY <4>10
        <5>2. \A q \in DOMAIN nodes' : \A k \in DOMAIN nodes'[q].kids :
                 nodes'[q].kids[k] = id \/ (k \in DOMAIN heap[q].kids /\ nodes'[q].kids[k] = heap[q].kids[k])
          <6>1. \A k \in DOMAIN nodes'[p].kids :
                   nodes'[p].kids[k] = id \/ (k \in DOMAIN heap[p].kids /\ nodes'[p].kids[k] = heap[p].kids[k])
            BY <1>2, <4>7 DEF Attaches
          <6> QED BY <4>7, <6>1 DEF Attaches
        <5> QED BY <4>9, <5>1, <5>2 DEF Filled
      <4> QED BY <2>14, <3>2, <4>8, <4>9, <4>10
    <3> QED BY <3>1, <3>2
  <2>17. Tree'
    <3>1. result' = "todo"
      BY <1>1, <1>2, <2>3 DEF Activations
    <3> QED BY <1>5, <2>16, <3>1 DEF Tree
  <2> QED BY <1>4, <2>3, <2>9, <2>17 DEF ParserInv
<1> QED BY <1>2, <1>6, <1>7

LEMMA ReturnKeeps ==
  ASSUME ParserInv, DoReturn
  PROVE  ParserInv'
<1>1. /\ stack # <<>> /\ Instr.do = "return" /\ Leave(Top.n, nodes)
      /\ UNCHANGED <<program, tokens, pos, failed, errPos, fresh, misfreed>>
  BY DEF DoReturn, At, SameInput
<1>2. Activations /\ Tree
  BY DEF ParserInv
<1>3. /\ Instr = InstrOf(ShapeAt(Size)) /\ Top = stack[Size] /\ Size \in 1..Size
      /\ Careful(ShapeAt(Size)) /\ ShapeAt(Size).fn = Top.fn /\ ShapeAt(Size).failed = failed
      /\ ShapeAt(Size).n = (Top.n # 0) /\ ShapeAt(Size).r = (Top.r # 0)
  BY <1>1, <1>2, TopTyped
<1>4. Top.r = 0 /\ (Top.n # 0 \/ failed) /\ (Top.fn = "program" => ~failed)
  BY <1>1, <1>3 DEF Careful
<1>5. Size = 1 => ~failed
  BY <1>2, <1>3, <1>4 DEF Activations
<1>6. 0 \notin Held /\ Held \subseteq DOMAIN nodes /\ (Top.n # 0 => Top.n \in Held)
  BY <1>3, HeldLive
<1>7. (Held \ {Top.n, Top.r}) \cup ({Top.n} \ {0}) = Held
  BY <1>4, <1>6
<1>8. Grove((Held \ {Top.n, Top.r}) \cup ({Top.n} \ {0}), nodes) /\ nodes \in [DOMAIN nodes -> Node]
  BY <1>2, <1>7 DEF Tree
<1>9. ~failed => Filled(nodes)
  BY <1>2 DEF Tree
<1> QED BY <1>1, <1>4, <1>5, <1>8, <1>9, LeaveKeeps

\* An error exit frees what the activation holds and what hangs below it, all
\* of which is live, and nothing else.
LEMMA BailKeeps ==
  ASSUME ParserInv, DoBail
  PROVE  ParserInv'
<1>1. /\ stack # <<>> /\ Instr.do = "bail"
      /\ UNCHANGED <<program, tokens, pos, failed, errPos>>
  BY DEF DoBail, At, SameInput
<1>2. Input /\ Activations /\ Apart /\ Tree
  BY DEF ParserInv
<1>3. /\ Top \in Frame /\ Instr = InstrOf(ShapeAt(Size)) /\ Top = stack[Size] /\ Size \in 1..Size
      /\ Careful(ShapeAt(Size)) /\ ShapeAt(Size).failed = failed
      /\ ShapeAt(Size).n = (Top.n # 0) /\ ShapeAt(Size).r = (Top.r # 0)
  BY <1>1, <1>2, TopTyped
<1>4. CASE ~failed /\ SetTop(Past) /\ SameTree
  <2>1. /\ Past \in Frame /\ Past.fn = Top.fn /\ Past.pc = Top.pc + 1 /\ Past.n = Top.n /\ Past.r = Top.r
    BY <1>3, PastTyped
  <2>2. GoesOn(ShapeAt(Size))
    BY <1>1, <1>3, <1>4 DEF GoesOn
  <2>3. stack' = [stack EXCEPT ![Size] = Past] /\ UNCHANGED <<nodes, fresh, misfreed, root, result>>
    BY <1>4 DEF SetTop, Size, SameTree
  <2> QED BY <1>1, <1>2, <2>1, <2>2, <2>3, OnKeeps, SameInputKeeps DEF ParserInv
<1>5. CASE failed
  <2>1. PICK S : S = {IF x = "n" THEN Top.n ELSE Top.r : x \in Instr.regs} \ {0}
    OBVIOUS
  <2>2. PICK freed : freed = Under(S)
    OBVIOUS
  <2>3. PICK heap : heap = [id \in DOMAIN nodes \ freed |-> nodes[id]]
    OBVIOUS
  <2>4. /\ Leave(0, heap) /\ misfreed' = (misfreed \/ ~(freed \subseteq DOMAIN nodes))
        /\ UNCHANGED fresh
    BY <1>5, <2>1, <2>2, <2>3 DEF DoBail
  <2>5. /\ Instr.regs \subseteq {"n", "r"}
        /\ Top.n # 0 => "n" \in Instr.regs
        /\ Top.r # 0 => "r" \in Instr.regs
    BY <1>1, <1>3 DEF Careful
  <2>6. S = {Top.n, Top.r} \ {0}
    BY <2>1, <2>5
  <2>7. /\ 0 \notin Held /\ Held \subseteq DOMAIN nodes /\ S \subseteq Held
        /\ Held \ S = (Held \ {Top.n, Top.r}) \cup ({0} \ {0})
    BY <1>3, <2>6, HeldLive
  <2>8. /\ Grove(Held, nodes) /\ nodes \in [DOMAIN nodes -> Node] /\ misfreed = FALSE
        /\ 0 \notin DOMAIN nodes
    BY <1>2 DEF Tree
  <2>9. \A p \in DOMAIN nodes : /\ Kids(p) \subseteq DOMAIN nodes
                                /\ Kids(p) = {nodes[p].kids[k] : k \in DOMAIN nodes[p].kids} \ {0}
    BY <2>8 DEF Grove, Kids, Range
  <2>10. IsFiniteSet(DOMAIN nodes)
    <3>1. fresh - 1 \in Int /\ DOMAIN nodes \subseteq 1..(fresh - 1)
      BY <1>2 DEF Tree
    <3> QED BY <3>1, FS_Interval, FS_Subset
  <2>11. /\ S \subseteq freed /\ freed \subseteq DOMAIN nodes
         /\ \A id \in freed : Kids(id) \subseteq freed
         /\ \A id \in freed : id \in S \/ \E p \in freed : id \in Kids(p)
    BY <2>2, <2>7, <2>9, <2>10, UnderEffect
  <2>12. Frees(nodes, heap, S, freed)
    <3>1. \A p \in freed : \A k \in DOMAIN nodes[p].kids : nodes[p].kids[k] = 0 \/ nodes[p].kids[k] \in freed
      BY <2>9, <2>11
    <3>2. \A c \in freed : c \in S \/ \E p \in freed : \E k \in DOMAIN nodes[p].kids : nodes[p].kids[k] = c
      BY <2>9, <2>11
    <3> QED BY <2>3, <2>11, <3>1, <3>2 DEF Frees
  <2>13. Grove(Held \ S, heap)
    BY <2>7, <2>8, <2>12, GroveFree
  <2>14. /\ UNCHANGED misfreed /\ heap \in [DOMAIN heap -> Node] /\ DOMAIN heap \subseteq DOMAIN nodes
    BY <2>3, <2>4, <2>8, <2>11
  <2> QED BY <1>1, <1>5, <2>4, <2>7, <2>13, <2>14, LeaveKeeps
<1> QED BY <1>4, <1>5 DEF DoBail
-----------------------------------------------------------------------------
(***************************************************************************)
(* The invariant                                                           *)
(***************************************************************************)
LEMMA ParserStart ==
  ASSUME Init
  PROVE  ParserInv
<1>1. /\ program \in Programs /\ program.start \in Seq(program.kinds) /\ program.max \in Nat
      /\ Len(program.start) < program.max
  BY ParserAssumption DEF Init
<1>2. Input
  <2>1. tokens \in Seq(program.kinds \cup {"eof"}) /\ Len(tokens) < program.max /\ Len(tokens) \in Nat
    BY <1>1 DEF Init
  <2>2. pos = 1 /\ errPos = 0 /\ failed = FALSE /\ 1 \in 1..program.max /\ 0 \in 0..program.max
    BY <1>1, <2>1 DEF Init
  <2>3. Len(tokens) # program.max /\ Len(tokens) <= program.max
    BY <1>1, <2>1
  <2> QED BY <1>1, <2>1, <2>2, <2>3 DEF Input
<1>3. PICK a : a = Activation("program", 0)
  OBVIOUS
<1>4. Start("program") \in Shapes /\ "program" \in DOMAIN Code
  BY OwnershipAssumption DEF Start, Shape
<1>5. a \in Frame /\ a.fn = "program" /\ a.pc = 1 /\ a.n = 0 /\ a.r = 0
  BY <1>3, <1>4 DEF Activation, Frame
<1>6. stack \in Seq(Frame) /\ Size = 1 /\ stack[1] = a
  BY <1>3, <1>5 DEF Init, Size
<1>7. Activations
  <2>1. ShapeAt(1) = Start("program")
    BY <1>5, <1>6 DEF ShapeAt, Start, Shape, Init
  <2> QED BY <1>4, <1>5, <1>6, <2>1 DEF Activations, Init
<1>8. Apart
  BY <1>5, <1>6 DEF Apart, Init
<1>9. Held = {}
  BY <1>5, <1>6 DEF Held, Init
<1>10. Tree
  <2>1. nodes = [id \in {} |-> 0] /\ DOMAIN nodes = {}
    BY DEF Init
  <2>2. Grove({}, nodes)
    BY <2>1 DEF Grove
  <2>3. nodes \in [DOMAIN nodes -> Node] /\ Filled(nodes)
    BY <2>1 DEF Filled
  <2> QED BY <1>9, <2>1, <2>2, <2>3 DEF Tree, Init
<1> QED BY <1>2, <1>7, <1>8, <1>10 DEF ParserInv

LEMMA ParserStep ==
  ASSUME ParserInv, [Next]_vars
  PROVE  ParserInv'
<1>1. CASE Next
  BY <1>1, ScanKeeps, AdvanceKeeps, ExpectKeeps, DoFailKeeps, UnlessKeeps, JumpKeeps, BranchKeeps,
     NewKeeps, ReseatKeeps, CallKeeps, ReturnKeeps, BailKeeps DEF Next
<1>2. CASE UNCHANGED vars
  <2>1. Size' = Size
    BY <1>2 DEF vars, Size
  <2>2. \A k : ShapeAt(k)' = ShapeAt(k) /\ InstrAt(k)' = InstrAt(k)
    BY <1>2, <2>1 DEF vars, ShapeAt, InstrAt
  <2>3. Input'
    BY <1>2 DEF vars, ParserInv, Input
  <2>4. Activations'
    BY <1>2, <2>1, <2>2 DEF vars, ParserInv, Activations
  <2>5. Apart'
    BY <1>2, <2>1 DEF vars, ParserInv, Apart
  <2>6. Held' = Held
    BY <1>2, <2>1 DEF vars, Held
  <2>7. Tree'
    BY <1>2, <2>6 DEF vars, ParserInv, Tree
  <2> QED BY <2>3, <2>4, <2>5, <2>7 DEF ParserInv
<1> QED BY <1>1, <1>2

\* What makes the parser's own promises inductive holds of every program and
\* every operator table (parser.c:31-535).
THEOREM ParserInvariantHolds == Spec => []ParserInv
<1>1. Init => ParserInv
  BY ParserStart
<1>2. ParserInv /\ [Next]_vars => ParserInv'
  BY ParserStep
<1> QED BY <1>1, <1>2, PTL DEF Spec

\* No activation runs off the end of its function; every child in the tree is a
\* node that was made or, after the first error only, the NULL that a failed call
\* returned (parser.c:31-535).
THEOREM TypeAlways == Spec => []TypeOK
<1>1. ASSUME ParserInv
      PROVE  TypeOK
  <2>1. /\ tokens \in Seq(program.kinds \cup {"eof"}) /\ Len(tokens) <= program.max
        /\ pos \in 1..program.max /\ failed \in BOOLEAN /\ errPos \in 0..program.max
    BY <1>1 DEF ParserInv, Input
  <2>2. \A k \in DOMAIN stack : stack[k].pc \in DOMAIN Code[stack[k].fn]
    <3>1. ASSUME NEW k \in DOMAIN stack
          PROVE  stack[k].pc \in DOMAIN Code[stack[k].fn]
      <4>1. ShapeAt(k) \in Shapes
        BY <1>1 DEF ParserInv, Activations, Size
      <4>2. ShapeAt(k).pc \in DOMAIN Code[ShapeAt(k).fn]
        BY <4>1, OwnershipAssumption
      <4> QED BY <4>2 DEF ShapeAt
    <3> QED BY <3>1
  <2>3. /\ DOMAIN nodes \subseteq 1..(fresh - 1) /\ misfreed \in BOOLEAN /\ fresh \in Nat \ {0}
        /\ Grove(Held, nodes) /\ (~failed => Filled(nodes))
    BY <1>1 DEF ParserInv, Tree
  <2>4. ASSUME NEW id \in DOMAIN nodes, NEW k \in DOMAIN nodes[id].kids
        PROVE  nodes[id].kids[k] \in (IF failed THEN 0 ELSE 1)..(fresh - 1)
    <3>1. nodes[id].kids[k] = 0 \/ nodes[id].kids[k] \in DOMAIN nodes
      BY <2>3 DEF Grove
    <3>2. nodes[id].kids[k] = 0 => failed
      BY <2>3 DEF Filled
    <3> QED BY <2>3, <3>1, <3>2
  <2>5. root \in 0..(fresh - 1)
    <3>1. root = 0 \/ root \in DOMAIN nodes
      BY <2>3 DEF Grove, Held
    <3> QED BY <2>3, <3>1
  <2>6. result \in {"todo", "ok", "failed"}
    BY <1>1 DEF ParserInv, Activations
  <2> QED BY <2>1, <2>2, <2>3, <2>4, <2>5, <2>6 DEF TypeOK
<1> QED BY <1>1, ParserInvariantHolds, PTL

\* Whatever the program, the parser does not move on after its first error
\* (parser.c:31-73).
THEOREM StopsAtErrorAlways == Spec => []StopsAtError
<1>1. ParserInv => StopsAtError
  BY DEF ParserInv, Input, StopsAtError
<1> QED BY <1>1, ParserInvariantHolds, PTL

\* Sets that count as none or one.
LEMMA Counted ==
  ASSUME NEW S
  PROVE  /\ S = {} => Cardinality(S) = 0
         /\ \A e : S = {e} => Cardinality(S) = 1
BY FS_EmptySet, FS_Singleton

\* Whatever the program, wherever parsing fails: every node is owned once, none
\* is freed twice and none is left (parser.c:31-535).
THEOREM HeldOnceAlways == Spec => []HeldOnce
<1>1. ASSUME ParserInv, NEW id \in DOMAIN nodes
      PROVE  Holders(id) = 1
  <2> DEFINE A == {k \in DOMAIN stack : stack[k].n = id}
             B == {k \in DOMAIN stack : stack[k].r = id}
             C == {e \in Entries : nodes[e[1]].kids[e[2]] = id}
  <2>1. Holders(id) = Cardinality(A) + Cardinality(B) + Cardinality(C) + (IF root = id THEN 1 ELSE 0)
    BY DEF Holders
  <2>2. DOMAIN stack = 1..Size /\ id # 0 /\ Grove(Held, nodes) /\ Apart
    BY <1>1 DEF ParserInv, Activations, Size, Tree
  <2>3. \A e : e \in C <=> \E p \in DOMAIN nodes : \E k \in DOMAIN nodes[p].kids :
                             e = <<p, k>> /\ nodes[p].kids[k] = id
    BY DEF Entries
  <2>4. CASE id \in Held
    <3>1. C = {}
      BY <2>2, <2>3, <2>4 DEF Grove
    <3>2. CASE root = id
      <4>1. A = {} /\ B = {}
        BY <2>2, <3>2 DEF Apart
      <4> HIDE DEF A, B, C
      <4> QED BY <2>1, <3>1, <3>2, <4>1, Counted
    <3>3. CASE root # id /\ \E k \in 1..Size : stack[k].n = id
      <4>1. PICK k \in 1..Size : stack[k].n = id
        BY <3>3
      <4>2. A = {k} /\ B = {}
        BY <2>2, <4>1 DEF Apart
      <4> HIDE DEF A, B, C
      <4>3. Cardinality(A) = 1 /\ Cardinality(B) = 0 /\ Cardinality(C) = 0
        BY <3>1, <4>2, Counted
      <4> QED BY <2>1, <3>3, <4>3
    <3>4. CASE root # id /\ \E k \in 1..Size : stack[k].r = id
      <4>1. PICK k \in 1..Size : stack[k].r = id
        BY <3>4
      <4>2. A = {} /\ B = {k}
        BY <2>2, <4>1 DEF Apart
      <4> HIDE DEF A, B, C
      <4>3. Cardinality(A) = 0 /\ Cardinality(B) = 1 /\ Cardinality(C) = 0
        BY <3>1, <4>2, Counted
      <4> QED BY <2>1, <3>4, <4>3
    <3> QED BY <2>4, <3>2, <3>3, <3>4 DEF Held
  <2>5. CASE id \notin Held
    <3>1. A = {} /\ B = {} /\ root # id
      BY <2>2, <2>5 DEF Held
    <3>2. PICK p \in DOMAIN nodes : \E k \in DOMAIN nodes[p].kids : nodes[p].kids[k] = id
      <4>1. \A S \in SUBSET DOMAIN nodes : S # {} =>
               \E c \in S : \/ c \in Held
                            \/ \E p \in DOMAIN nodes \ S : \E k \in DOMAIN nodes[p].kids : nodes[p].kids[k] = c
        BY <2>2 DEF Grove
      <4>2. PICK S \in SUBSET DOMAIN nodes : S = {id}
        OBVIOUS
      <4>3. PICK c \in S : \/ c \in Held
                           \/ \E p \in DOMAIN nodes \ S : \E k \in DOMAIN nodes[p].kids : nodes[p].kids[k] = c
        BY <4>1, <4>2
      <4> HIDE DEF A, B, C
      <4> QED BY <2>5, <4>2, <4>3
    <3>3. PICK k \in DOMAIN nodes[p].kids : nodes[p].kids[k] = id
      BY <3>2
    <3>4. \A q \in DOMAIN nodes : \A j \in DOMAIN nodes[q].kids : nodes[q].kids[j] = id => q = p /\ j = k
      BY <2>2, <3>3 DEF Grove
    <3>5. \A e : e \in C <=> e = <<p, k>>
      BY <2>3, <3>3, <3>4
    <3>6. C = {<<p, k>>}
      <4> HIDE DEF C
      <4> QED BY <3>5
    <3> HIDE DEF A, B, C
    <3>7. Cardinality(A) = 0 /\ Cardinality(B) = 0 /\ Cardinality(C) = 1
      BY <3>1, <3>6, Counted
    <3> QED BY <2>1, <3>1, <3>7
  <2> QED BY <2>4, <2>5
<1>2. ParserInv => HeldOnce
  BY <1>1 DEF HeldOnce, ParserInv, Tree
<1> QED BY <1>2, ParserInvariantHolds, PTL
-----------------------------------------------------------------------------
(***************************************************************************)
(* The part of a heap that hangs below a node                              *)
(***************************************************************************)
Closed(T, C) == \A p \in C : \A k \in DOMAIN T[p].kids : T[p].kids[k] \in C
Whole(T) == Closed(T, DOMAIN T)
\* x and what hangs below it: nothing when x is NULL.
Part(T, x) == {y \in DOMAIN T : x \in DOMAIN T /\ \A C \in SUBSET DOMAIN T : x \in C /\ Closed(T, C) => y \in C}

LEMMA PartLeast ==
  ASSUME NEW T, NEW C \in SUBSET DOMAIN T, NEW x \in C, Closed(T, C)
  PROVE  Part(T, x) \subseteq C
BY DEF Part

LEMMA PartBasics ==
  ASSUME NEW T, Whole(T), NEW x \in DOMAIN T
  PROVE  x \in Part(T, x) /\ Part(T, x) \subseteq DOMAIN T /\ Closed(T, Part(T, x))
<1>1. x \in Part(T, x) /\ Part(T, x) \subseteq DOMAIN T
  BY DEF Part
<1>2. ASSUME NEW p \in Part(T, x), NEW k \in DOMAIN T[p].kids
      PROVE  T[p].kids[k] \in Part(T, x)
  <2>1. T[p].kids[k] \in DOMAIN T
    BY <1>1 DEF Whole, Closed
  <2>2. ASSUME NEW C \in SUBSET DOMAIN T, x \in C, Closed(T, C)
        PROVE  T[p].kids[k] \in C
    <3>1. p \in C
      BY <2>2 DEF Part
    <3> QED BY <2>2, <3>1 DEF Closed
  <2> QED BY <2>1, <2>2 DEF Part
<1> QED BY <1>1, <1>2 DEF Closed

LEMMA PartNone ==
  ASSUME NEW T, NEW x, x \notin DOMAIN T
  PROVE  Part(T, x) = {}
BY DEF Part

LEMMA PartInside ==
  ASSUME NEW T, Whole(T), NEW x, NEW y \in Part(T, x)
  PROVE  Part(T, y) \subseteq Part(T, x) /\ x \in DOMAIN T /\ y \in DOMAIN T
<1>1. x \in DOMAIN T /\ y \in DOMAIN T
  BY DEF Part
<1>2. Closed(T, Part(T, x)) /\ Part(T, x) \in SUBSET DOMAIN T
  BY <1>1, PartBasics
<1> QED BY <1>1, <1>2, PartLeast

\* What is below x is x or below one of its children.
LEMMA PartTop ==
  ASSUME NEW T, Whole(T), NEW x \in DOMAIN T, NEW y \in Part(T, x)
  PROVE  y = x \/ \E k \in DOMAIN T[x].kids : y \in Part(T, T[x].kids[k])
<1> DEFINE C == {x} \cup UNION {Part(T, T[x].kids[k]) : k \in DOMAIN T[x].kids}
<1>1. \A k \in DOMAIN T[x].kids : T[x].kids[k] \in DOMAIN T
  BY DEF Whole, Closed
<1>2. \A k \in DOMAIN T[x].kids : /\ T[x].kids[k] \in Part(T, T[x].kids[k])
                                  /\ Part(T, T[x].kids[k]) \subseteq DOMAIN T
                                  /\ Closed(T, Part(T, T[x].kids[k]))
  BY <1>1, PartBasics
<1>3. C \in SUBSET DOMAIN T /\ x \in C
  BY <1>2
<1>4. Closed(T, C)
  <2>1. ASSUME NEW p \in C, NEW j \in DOMAIN T[p].kids
        PROVE  T[p].kids[j] \in C
    <3>1. CASE p = x
      BY <1>2, <3>1
    <3>2. CASE p # x
      <4>1. PICK k \in DOMAIN T[x].kids : p \in Part(T, T[x].kids[k])
        BY <3>2
      <4>2. T[p].kids[j] \in Part(T, T[x].kids[k])
        BY <1>2, <4>1 DEF Closed
      <4> QED BY <4>2
    <3> QED BY <3>1, <3>2
  <2> HIDE DEF C
  <2> QED BY <2>1 DEF Closed
<1>5. Part(T, x) \subseteq C
  <2> HIDE DEF C
  <2> QED BY <1>3, <1>4, PartLeast
<1> QED BY <1>5

\* A grove without NULLs.
Forest(H, T) == Grove(H, T) /\ Filled(T)

LEMMA ForestWhole ==
  ASSUME NEW H, NEW T, Forest(H, T)
  PROVE  Whole(T) /\ H \subseteq DOMAIN T
BY DEF Forest, Grove, Filled, Whole, Closed

\* A node that no other holds is below none but itself.
LEMMA RootAlone ==
  ASSUME NEW H, NEW T, Forest(H, T), NEW h \in H, NEW x, h \in Part(T, x)
  PROVE  x = h
<1> SUFFICES ASSUME x # h
             PROVE  FALSE
  OBVIOUS
<1>1. Whole(T)
  BY ForestWhole
<1>2. x \in DOMAIN T
  BY DEF Part
<1>3. x \in Part(T, x) /\ Part(T, x) \subseteq DOMAIN T /\ Closed(T, Part(T, x))
  BY <1>1, <1>2, PartBasics
<1>4. PICK C \in SUBSET DOMAIN T : C = Part(T, x) \ {h}
  BY <1>3
<1>5. Closed(T, C) /\ x \in C
  BY <1>3, <1>4 DEF Closed, Forest, Grove, Filled
<1>6. Part(T, x) \subseteq C
  BY <1>5, PartLeast
<1> QED BY <1>4, <1>6

\* Whoever has y among its children is below x when y is, unless y is x.
LEMMA ParentInside ==
  ASSUME NEW H, NEW T, Forest(H, T), NEW x, NEW y \in Part(T, x), y # x,
         NEW p \in DOMAIN T, NEW k \in DOMAIN T[p].kids, T[p].kids[k] = y
  PROVE  p \in Part(T, x)
<1> SUFFICES ASSUME p \notin Part(T, x)
             PROVE  FALSE
  OBVIOUS
<1>1. Whole(T) /\ x \in DOMAIN T
  BY ForestWhole DEF Part
<1>2. x \in Part(T, x) /\ Part(T, x) \subseteq DOMAIN T /\ Closed(T, Part(T, x))
  BY <1>1, PartBasics
<1>3. PICK C \in SUBSET DOMAIN T : C = Part(T, x) \ {y}
  BY <1>2
<1>4. Closed(T, C) /\ x \in C
  BY <1>2, <1>3 DEF Closed, Forest, Grove, Filled
<1>5. Part(T, x) \subseteq C
  BY <1>4, PartLeast
<1> QED BY <1>3, <1>5

LEMMA PartsApart ==
  ASSUME NEW H, NEW T, Forest(H, T), NEW g \in H, NEW h \in H, g # h
  PROVE  Part(T, g) \cap Part(T, h) = {}
<1> SUFFICES ASSUME Part(T, g) \cap Part(T, h) # {}
             PROVE  FALSE
  OBVIOUS
<1>1. PICK C \in SUBSET DOMAIN T : C = Part(T, g) \cap Part(T, h)
  BY DEF Part
<1>2. PICK c \in C : c \in H \/ \E p \in DOMAIN T \ C : \E k \in DOMAIN T[p].kids : T[p].kids[k] = c
  BY <1>1 DEF Forest, Grove, Filled
<1>3. CASE c \in H
  BY <1>1, <1>3, RootAlone
<1>4. CASE c \notin H
  <2>1. PICK p \in DOMAIN T \ C : \E k \in DOMAIN T[p].kids : T[p].kids[k] = c
    BY <1>2, <1>4
  <2>2. PICK k \in DOMAIN T[p].kids : T[p].kids[k] = c
    BY <2>1
  <2>3. c \in Part(T, g) /\ c \in Part(T, h) /\ c # g /\ c # h
    BY <1>1, <1>4
  <2>4. p \in Part(T, g) /\ p \in Part(T, h)
    BY <2>2, <2>3, ParentInside
  <2> QED BY <1>1, <2>4
<1> QED BY <1>3, <1>4

\* Two heaps in which the same hangs below x.
Alike(T, U, x) ==
    /\ Part(U, x) = Part(T, x)
    /\ \A y \in Part(T, x) : y \in DOMAIN U /\ U[y] = T[y] /\ Part(U, y) = Part(T, y)
    /\ x # 0 => x \in Part(T, x)

LEMMA PartSame ==
  ASSUME NEW T, NEW U, Whole(T), Whole(U), NEW x \in DOMAIN T,
         \A y \in Part(T, x) : y \in DOMAIN U /\ U[y] = T[y]
  PROVE  Alike(T, U, x)
<1>1. ASSUME NEW y \in Part(T, x)
      PROVE  Part(U, y) = Part(T, y)
  <2>1. Part(T, y) \subseteq Part(T, x) /\ y \in DOMAIN T
    BY PartInside
  <2>2. y \in Part(T, y) /\ Part(T, y) \in SUBSET DOMAIN U /\ Closed(T, Part(T, y)) /\ y \in DOMAIN U
    BY <2>1, PartBasics
  <2>3. Closed(U, Part(T, y))
    BY <2>1, <2>2 DEF Closed
  <2>4. Part(U, y) \subseteq Part(T, y)
    BY <2>2, <2>3, PartLeast
  <2>5. y \in Part(U, y) /\ Closed(U, Part(U, y))
    BY <2>2, PartBasics
  <2>6. Closed(T, Part(U, y)) /\ Part(U, y) \in SUBSET DOMAIN T
    <3>1. \A z \in Part(U, y) : U[z] = T[z] /\ z \in DOMAIN T
      BY <2>1, <2>4, PartBasics
    <3> QED BY <2>5, <3>1 DEF Closed
  <2>7. Part(T, y) \subseteq Part(U, y)
    BY <2>5, <2>6, PartLeast
  <2> QED BY <2>4, <2>7
<1>2. x \in Part(T, x)
  BY PartBasics
<1> QED BY <1>1, <1>2 DEF Alike

LEMMA AlikeNone ==
  ASSUME NEW T, NEW U, 0 \notin DOMAIN T, 0 \notin DOMAIN U
  PROVE  Alike(T, U, 0)
BY PartNone DEF Alike

LEMMA AlikeBelow ==
  ASSUME NEW T, NEW U, NEW x, Whole(T), Alike(T, U, x), NEW y \in Part(T, x)
  PROVE  Alike(T, U, y)
<1>1. Part(T, y) \subseteq Part(T, x) /\ y \in DOMAIN T
  BY PartInside
<1>2. y \in Part(T, y)
  BY <1>1, PartBasics
<1> QED BY <1>1, <1>2 DEF Alike

-----------------------------------------------------------------------------
(***************************************************************************)
(* ... and what is done to the nodes                                       *)
(***************************************************************************)
LEMMA NewParts ==
  ASSUME NEW T, NEW U, NEW x, NEW S, Whole(T), Whole(U), S \subseteq DOMAIN T, Joins(T, U, x, S)
  PROVE  /\ \A y \in DOMAIN T : Alike(T, U, y)
         /\ Part(U, x) = {x} \cup UNION {Part(T, y) : y \in S}
<1>1. /\ x \notin DOMAIN T /\ DOMAIN U = DOMAIN T \cup {x} /\ \A id \in DOMAIN T : U[id] = T[id]
      /\ S = {U[x].kids[k] : k \in DOMAIN U[x].kids}
  BY DEF Joins
<1>2. ASSUME NEW y \in DOMAIN T
      PROVE  Alike(T, U, y)
  <2>1. \A z \in Part(T, y) : z \in DOMAIN U /\ U[z] = T[z]
    BY <1>1, PartInside
  <2> QED BY <2>1, PartSame
<1>3. \A y \in S : Part(U, y) = Part(T, y)
  BY <1>2 DEF Alike
<1>4. x \in DOMAIN U /\ x \in Part(U, x) /\ Closed(U, Part(U, x))
  BY <1>1, PartBasics
<1>5. ASSUME NEW z \in Part(U, x)
      PROVE  z \in {x} \cup UNION {Part(T, y) : y \in S}
  BY <1>1, <1>3, <1>4, PartTop
<1>6. ASSUME NEW y \in S
      PROVE  Part(T, y) \subseteq Part(U, x)
  <2>1. y \in Part(U, x)
    BY <1>1, <1>4 DEF Closed
  <2> QED BY <1>3, <2>1, PartInside
<1> QED BY <1>2, <1>4, <1>5, <1>6

LEMMA ReseatParts ==
  ASSUME NEW H, NEW T, NEW U, NEW x, NEW n \in H, Forest(H, T), Whole(U), Reseats(T, U, x, n)
  PROVE  /\ \A y \in DOMAIN T \ {n} : Alike(T, U, y)
         /\ Part(U, x) = {x} \cup (Part(T, n) \ {n})
<1>1. /\ x \notin DOMAIN T /\ DOMAIN U = (DOMAIN T \ {n}) \cup {x} /\ U[x].kids = T[n].kids
      /\ \A id \in DOMAIN T \ {n} : U[id] = T[id]
  BY DEF Reseats
<1>2. Whole(T) /\ n \in DOMAIN T
  BY ForestWhole
<1>3. ASSUME NEW y \in DOMAIN T \ {n}
      PROVE  Alike(T, U, y)
  <2>1. n \notin Part(T, y)
    BY RootAlone
  <2>2. \A z \in Part(T, y) : z \in DOMAIN U /\ U[z] = T[z]
    BY <1>1, <1>2, <2>1, PartInside
  <2> QED BY <1>2, <2>2, PartSame
<1>4. \A k \in DOMAIN T[n].kids : T[n].kids[k] \in DOMAIN T \ {n}
  BY <1>2 DEF Forest, Grove, Filled
<1>5. \A k \in DOMAIN T[n].kids : Part(U, T[n].kids[k]) = Part(T, T[n].kids[k])
  BY <1>3, <1>4 DEF Alike
<1>6. x \in DOMAIN U /\ x \in Part(U, x) /\ Closed(U, Part(U, x))
  BY <1>1, PartBasics
<1>7. n \in Part(T, n) /\ Closed(T, Part(T, n))
  BY <1>2, PartBasics
<1>8. ASSUME NEW z \in Part(U, x), z # x
      PROVE  z \in Part(T, n) \ {n}
  <2>1. PICK k \in DOMAIN T[n].kids : z \in Part(T, T[n].kids[k])
    BY <1>1, <1>5, <1>6, <1>8, PartTop
  <2>2. T[n].kids[k] \in Part(T, n) /\ T[n].kids[k] # n
    BY <1>4, <1>7 DEF Closed
  <2>3. z \in Part(T, n)
    BY <1>2, <2>1, <2>2, PartInside
  <2>4. z # n
    BY <2>1, <2>2, RootAlone
  <2> QED BY <2>3, <2>4
<1>9. ASSUME NEW z \in Part(T, n), z # n
      PROVE  z \in Part(U, x)
  <2>1. PICK k \in DOMAIN T[n].kids : z \in Part(T, T[n].kids[k])
    BY <1>2, <1>9, PartTop
  <2>2. T[n].kids[k] \in Part(U, x)
    BY <1>1, <1>6 DEF Closed
  <2>3. z \in Part(U, T[n].kids[k])
    BY <1>5, <2>1
  <2> QED BY <2>2, <2>3, PartInside
<1> QED BY <1>3, <1>6, <1>8, <1>9

LEMMA AttachParts ==
  ASSUME NEW H, NEW T, NEW U, NEW p \in H, NEW c \in H, p # c, Forest(H, T), Whole(U),
         Attaches(T, U, p, c), c \in Nat
  PROVE  /\ \A y \in DOMAIN T \ {p} : Alike(T, U, y)
         /\ Part(U, p) = Part(T, p) \cup Part(T, c)
<1> DEFINE ks == T[p].kids
           js == U[p].kids
<1>1. /\ ks \in Seq(Nat) /\ DOMAIN U = DOMAIN T /\ js = Append(ks, c)
      /\ \A id \in DOMAIN T \ {p} : U[id] = T[id]
  BY DEF Attaches
<1>2. /\ \A k \in DOMAIN js : (k \in DOMAIN ks /\ js[k] = ks[k]) \/ js[k] = c
      /\ \A k \in DOMAIN ks : k \in DOMAIN js /\ js[k] = ks[k]
      /\ \E k \in DOMAIN js : js[k] = c
  <2> HIDE DEF ks, js
  <2>1. DOMAIN js = 1..(Len(ks) + 1) /\ DOMAIN ks = 1..Len(ks) /\ Len(ks) \in Nat
    BY <1>1
  <2>2. js[Len(ks) + 1] = c /\ \A k \in 1..Len(ks) : js[k] = ks[k]
    BY <1>1
  <2> QED BY <2>1, <2>2
<1>3. Whole(T) /\ p \in DOMAIN T /\ c \in DOMAIN T
  BY ForestWhole
<1>4. ASSUME NEW y \in DOMAIN T \ {p}
      PROVE  Alike(T, U, y)
  <2>1. p \notin Part(T, y)
    BY RootAlone
  <2>2. \A z \in Part(T, y) : z \in DOMAIN U /\ U[z] = T[z]
    BY <1>1, <1>3, <2>1, PartInside
  <2> QED BY <1>3, <2>2, PartSame
<1>5. \A k \in DOMAIN ks : ks[k] \in DOMAIN T \ {p}
  BY <1>3 DEF Forest, Grove, Filled
<1>6. /\ \A k \in DOMAIN ks : Part(U, ks[k]) = Part(T, ks[k])
      /\ Part(U, c) = Part(T, c)
  BY <1>3, <1>4, <1>5 DEF Alike
<1>7. p \in DOMAIN U /\ p \in Part(U, p) /\ Closed(U, Part(U, p)) /\ p \in Part(T, p) /\ Closed(T, Part(T, p))
  BY <1>1, <1>3, PartBasics
<1> HIDE DEF ks, js
<1>8. ASSUME NEW z \in Part(U, p)
      PROVE  z \in Part(T, p) \cup Part(T, c)
  <2>1. CASE z = p
    BY <1>7, <2>1
  <2>2. CASE \E k \in DOMAIN js : z \in Part(U, js[k])
    <3>1. PICK k \in DOMAIN js : z \in Part(U, js[k])
      BY <2>2
    <3>2. CASE js[k] = c
      BY <1>6, <3>1, <3>2
    <3>3. CASE k \in DOMAIN ks /\ js[k] = ks[k]
      <4>1. z \in Part(T, ks[k]) /\ ks[k] \in Part(T, p)
        BY <1>6, <1>7, <3>1, <3>3 DEF Closed, ks
      <4> QED BY <1>3, <4>1, PartInside
    <3> QED BY <1>2, <3>2, <3>3
  <2> QED BY <1>7, <2>1, <2>2, PartTop DEF js
<1>9. ASSUME NEW z \in Part(T, c)
      PROVE  z \in Part(U, p)
  <2>1. c \in Part(U, p)
    BY <1>2, <1>7 DEF Closed, js
  <2> QED BY <1>6, <2>1, PartInside
<1>10. ASSUME NEW z \in Part(T, p)
       PROVE  z \in Part(U, p)
  <2>1. CASE z = p
    BY <1>7, <2>1
  <2>2. CASE \E k \in DOMAIN ks : z \in Part(T, ks[k])
    <3>1. PICK k \in DOMAIN ks : z \in Part(T, ks[k])
      BY <2>2
    <3>2. z \in Part(U, ks[k]) /\ ks[k] \in Part(U, p)
      BY <1>2, <1>6, <1>7, <3>1 DEF Closed, js
    <3> QED BY <3>2, PartInside
  <2> QED BY <1>3, <2>1, <2>2, PartTop DEF ks
<1> QED BY <1>4, <1>8, <1>9, <1>10

\* When nothing else is held, everything hangs below the root.
LEMMA AllBelow ==
  ASSUME NEW T, NEW root_, Forest({root_}, T)
  PROVE  Part(T, root_) = DOMAIN T
<1> SUFFICES ASSUME Part(T, root_) # DOMAIN T
             PROVE  FALSE
  OBVIOUS
<1>1. Whole(T) /\ root_ \in DOMAIN T
  BY ForestWhole
<1>2. root_ \in Part(T, root_) /\ Part(T, root_) \subseteq DOMAIN T /\ Closed(T, Part(T, root_))
  BY <1>1, PartBasics
<1>3. PICK C \in SUBSET DOMAIN T : C = DOMAIN T \ Part(T, root_)
  OBVIOUS
<1>4. PICK c \in C : c = root_ \/ \E p \in DOMAIN T \ C : \E k \in DOMAIN T[p].kids : T[p].kids[k] = c
  BY <1>2, <1>3 DEF Forest, Grove, Filled
<1> QED BY <1>2, <1>3, <1>4 DEF Closed

\* What ast_free reaches from a node is what hangs below it.
LEMMA UnderPart ==
  ASSUME NEW H, Forest(H, nodes), IsFiniteSet(DOMAIN nodes), NEW b \in DOMAIN nodes
  PROVE  Under({b}) = Part(nodes, b)
<1>1. Whole(nodes)
  BY ForestWhole
<1>2. \A p \in DOMAIN nodes : Kids(p) = {nodes[p].kids[k] : k \in DOMAIN nodes[p].kids}
  BY DEF Kids, Range, Forest, Filled
<1>3. \A p \in DOMAIN nodes : Kids(p) \subseteq DOMAIN nodes
  BY <1>1, <1>2 DEF Whole, Closed
<1>4. PICK R : R = Under({b})
  OBVIOUS
<1>5. /\ b \in R /\ R \subseteq DOMAIN nodes
      /\ \A id \in R : Kids(id) \subseteq R
      /\ \A id \in R : id = b \/ \E p \in R : id \in Kids(p)
  <2>1. PICK S : S = {b}
    OBVIOUS
  <2>2. S \subseteq DOMAIN nodes
    BY <2>1
  <2>3. /\ S \subseteq Under(S) /\ Under(S) \subseteq DOMAIN nodes
        /\ \A id \in Under(S) : Kids(id) \subseteq Under(S)
        /\ \A id \in Under(S) : id \in S \/ \E p \in Under(S) : id \in Kids(p)
    BY <1>3, <2>2, UnderEffect
  <2>4. R = Under(S)
    BY <1>4, <2>1
  <2> QED BY <2>1, <2>3, <2>4
<1>6. Closed(nodes, R)
  BY <1>2, <1>5 DEF Closed
<1>7. Part(nodes, b) \subseteq R
  BY <1>5, <1>6, PartLeast
<1>8. R \subseteq Part(nodes, b)
  <2> SUFFICES ASSUME ~(R \subseteq Part(nodes, b))
               PROVE  FALSE
    OBVIOUS
  <2>1. PICK C \in SUBSET DOMAIN nodes : C = R \ Part(nodes, b)
    BY <1>5
  <2>2. C # {}
    BY <2>1
  <2>3. b \in Part(nodes, b) /\ Closed(nodes, Part(nodes, b))
    BY <1>1, PartBasics
  <2>4. \A c \in C : \E p \in C : \E k \in DOMAIN nodes[p].kids : nodes[p].kids[k] = c
    <3>1. ASSUME NEW c \in C
          PROVE  \E p \in C : \E k \in DOMAIN nodes[p].kids : nodes[p].kids[k] = c
      <4>1. PICK p \in R : c \in Kids(p)
        BY <1>5, <2>1, <2>3
      <4>2. PICK k \in DOMAIN nodes[p].kids : nodes[p].kids[k] = c
        BY <1>2, <1>5, <4>1
      <4>3. p \notin Part(nodes, b)
        BY <2>1, <2>3, <4>2 DEF Closed
      <4> QED BY <2>1, <4>2, <4>3
    <3> QED BY <3>1
  <2>5. PICK c \in C : \/ c \in H
                       \/ \E q \in DOMAIN nodes \ C : \E k \in DOMAIN nodes[q].kids : nodes[q].kids[k] = c
    BY <2>2 DEF Forest, Grove, Filled
  <2>6. PICK p \in C : \E k \in DOMAIN nodes[p].kids : nodes[p].kids[k] = c
    BY <2>4
  <2>7. c \notin H
    BY <2>6 DEF Forest, Grove, Filled
  <2> QED BY <2>5, <2>6, <2>7 DEF Forest, Grove, Filled
<1> QED BY <1>4, <1>7, <1>8
-----------------------------------------------------------------------------
(***************************************************************************)
(* Brackets and separators in a text ts of tokens                          *)
(***************************************************************************)
HowMany(S, ts, k) == Cardinality({m \in 1..k : ts[m] \in S})
Opens(ts, k)  == HowMany(Opening, ts, k)
Closes(ts, k) == HowMany(Closing, ts, k)
\* The brackets that are open before token k, and those token k is in.
Nest(ts, k) == Opens(ts, k - 1) - Closes(ts, k - 1)
Deep(ts, k) == Opens(ts, k) - Closes(ts, k - 1)

One(ts, i, j) ==
    /\ Deep(ts, i) = Deep(ts, j)
    /\ \A k \in i..j : Deep(ts, k) >= Deep(ts, i) /\ (Deep(ts, k) = Deep(ts, i) => ts[k] \notin Ending)
\* The expression of token i has ended before token q.
Shut(ts, i, q) ==
    \E k \in i..(q - 1) : \/ Deep(ts, k) < Deep(ts, i)
                          \/ Deep(ts, k) = Deep(ts, i) /\ ts[k] \in Ending
Signs == UNION {Levels[v] : v \in DOMAIN Levels}
Rank(ts, k) == CHOOSE v \in DOMAIN Levels : ts[k] \in Levels[v]

\* The model's own words for the same.
LEMMA SameText ==
  /\ \A k : Depth(k) = Deep(tokens, k) /\ LevelOf(k) = Rank(tokens, k)
  /\ \A i, j : OneExpression(i, j) <=> One(tokens, i, j)
<1>1. \A k : Depth(k) = Deep(tokens, k) /\ LevelOf(k) = Rank(tokens, k)
  BY DEF Depth, Deep, Opens, Closes, HowMany, LevelOf, Rank
<1> QED BY <1>1 DEF OneExpression, One

LEMMA CountStep ==
  ASSUME NEW S, NEW ts, NEW k \in Nat
  PROVE  /\ HowMany(S, ts, k) \in Nat
         /\ HowMany(S, ts, k + 1) = HowMany(S, ts, k) + (IF ts[k + 1] \in S THEN 1 ELSE 0)
<1> DEFINE A == {m \in 1..k : ts[m] \in S}
           B == {m \in 1..(k + 1) : ts[m] \in S}
<1>1. IsFiniteSet(A) /\ k + 1 \notin A
  <2>1. IsFiniteSet(1..k) /\ A \subseteq 1..k
    BY FS_Interval
  <2> QED BY <2>1, FS_Subset
<1>2. Cardinality(A) \in Nat
  BY <1>1, FS_CardinalityType
<1>3. CASE ts[k + 1] \in S
  <2>1. B = A \cup {k + 1}
    BY <1>3
  <2> HIDE DEF A, B
  <2>2. Cardinality(B) = Cardinality(A) + 1
    BY <1>1, <2>1, FS_AddElement
  <2> QED BY <1>2, <1>3, <2>2 DEF A, B, HowMany
<1>4. CASE ts[k + 1] \notin S
  <2>1. B = A
    BY <1>4
  <2> HIDE DEF A, B
  <2> QED BY <1>2, <1>4, <2>1 DEF A, B, HowMany
<1> QED BY <1>3, <1>4

\* Token k in numbers.
Steps(ts, k) ==
    /\ Nest(ts, k) \in Int /\ Deep(ts, k) \in Int /\ Nest(ts, k + 1) \in Int
    /\ Deep(ts, k) = Nest(ts, k) + (IF ts[k] \in Opening THEN 1 ELSE 0)
    /\ Nest(ts, k + 1) = Deep(ts, k) - (IF ts[k] \in Closing THEN 1 ELSE 0)

LEMMA TextSteps ==
  ASSUME NEW ts, NEW k \in Nat \ {0}
  PROVE  Steps(ts, k)
<1>1. PICK j \in Nat : k = j + 1
  <2>1. k - 1 \in Nat /\ k = (k - 1) + 1
    OBVIOUS
  <2> QED BY <2>1
<1>2. /\ Opens(ts, j) \in Nat
      /\ Opens(ts, j + 1) = Opens(ts, j) + (IF ts[j + 1] \in Opening THEN 1 ELSE 0)
  BY CountStep DEF Opens
<1>3. /\ Closes(ts, j) \in Nat
      /\ Closes(ts, j + 1) = Closes(ts, j) + (IF ts[j + 1] \in Closing THEN 1 ELSE 0)
  BY CountStep DEF Closes
<1>4. k - 1 = j /\ (k + 1) - 1 = j + 1
  BY <1>1
<1> QED BY <1>1, <1>2, <1>3, <1>4 DEF Steps, Nest, Deep

\* A text that goes on is the same up to where it went on.
Extends(ts, us) == Len(us) >= Len(ts) /\ \A k \in 1..Len(ts) : us[k] = ts[k]

LEMMA SameBefore ==
  ASSUME NEW ts, NEW us, Len(ts) \in Nat, Len(us) \in Nat, Extends(ts, us)
  PROVE  /\ \A k \in 1..Len(ts) : us[k] = ts[k] /\ Deep(us, k) = Deep(ts, k) /\ Rank(us, k) = Rank(ts, k)
         /\ \A k \in 1..(Len(ts) + 1) : Nest(us, k) = Nest(ts, k)
         /\ \A i \in 1..Len(ts) : \A j \in 1..Len(ts) : One(us, i, j) <=> One(ts, i, j)
         /\ \A i \in 1..Len(ts) : \A q \in 1..(Len(ts) + 1) : Shut(us, i, q) <=> Shut(ts, i, q)
<1>1. \A k \in 0..Len(ts) : Opens(us, k) = Opens(ts, k) /\ Closes(us, k) = Closes(ts, k)
  <2>1. ASSUME NEW k \in 0..Len(ts), NEW S
        PROVE  {m \in 1..k : us[m] \in S} = {m \in 1..k : ts[m] \in S}
    <3>1. \A m \in 1..k : us[m] = ts[m]
      BY DEF Extends
    <3> QED BY <3>1
  <2> QED BY <2>1 DEF Opens, Closes, HowMany
<1>2. \A k \in 1..Len(ts) : us[k] = ts[k] /\ Deep(us, k) = Deep(ts, k) /\ Rank(us, k) = Rank(ts, k)
  <2>1. ASSUME NEW k \in 1..Len(ts)
        PROVE  us[k] = ts[k] /\ k \in 0..Len(ts) /\ k - 1 \in 0..Len(ts)
    BY DEF Extends
  <2> QED BY <1>1, <2>1 DEF Deep, Rank
<1>3. \A k \in 1..(Len(ts) + 1) : Nest(us, k) = Nest(ts, k)
  BY <1>1 DEF Nest
<1>4. \A i, j \in 1..Len(ts) : One(us, i, j) <=> One(ts, i, j)
  <2>1. ASSUME NEW i \in 1..Len(ts), NEW j \in 1..Len(ts)
        PROVE  One(us, i, j) <=> One(ts, i, j)
    <3>1. \A k \in i..j : k \in 1..Len(ts)
      OBVIOUS
    <3> QED BY <1>2, <3>1 DEF One
  <2> QED BY <2>1
<1>5. \A i \in 1..Len(ts) : \A q \in 1..(Len(ts) + 1) : Shut(us, i, q) <=> Shut(ts, i, q)
  <2>1. ASSUME NEW i \in 1..Len(ts), NEW q \in 1..(Len(ts) + 1)
        PROVE  Shut(us, i, q) <=> Shut(ts, i, q)
    <3>1. \A k \in i..(q - 1) : k \in 1..Len(ts)
      OBVIOUS
    <3> QED BY <1>2, <3>1 DEF Shut
  <2> QED BY <2>1
<1> QED BY <1>2, <1>3, <1>4, <1>5

LEMMA ShutApart ==
  ASSUME NEW ts, NEW i \in Nat \ {0}, NEW q \in Nat, Shut(ts, i, q)
  PROVE  /\ \A r \in Nat : q <= r => Shut(ts, i, r)
         /\ \A j \in Nat : q <= j => ~One(ts, i, j)
<1>1. PICK k \in i..(q - 1) : \/ Deep(ts, k) < Deep(ts, i)
                              \/ Deep(ts, k) = Deep(ts, i) /\ ts[k] \in Ending
  BY DEF Shut
<1>2. ASSUME NEW r \in Nat, q <= r
      PROVE  Shut(ts, i, r) /\ ~One(ts, i, r)
  <2>1. k \in i..(r - 1) /\ k \in i..r /\ k \in Nat \ {0}
    BY <1>2
  <2>2. Deep(ts, k) \in Int /\ Deep(ts, i) \in Int
    BY <2>1, TextSteps DEF Steps
  <2> QED BY <1>1, <2>1, <2>2 DEF Shut, One
<1> QED BY <1>2

\* An operator at i, in an activation that has read from s up to e: its
\* expression has ended, or it is in all the brackets that are open.
Lies(ts, i, s, e) ==
    /\ i \in s..(e - 1) /\ ts[i] \in Signs /\ Deep(ts, i) >= Nest(ts, s)
    /\ Shut(ts, i, e) \/ Deep(ts, i) >= Nest(ts, e)

\* One token more.
LEMMA LiesOn ==
  ASSUME NEW ts, NEW s \in Nat \ {0}, NEW e \in Nat, NEW i, Lies(ts, i, s, e),
         ts[e] \in Opening => Shut(ts, i, e)
  PROVE  /\ Lies(ts, i, s, e + 1)
         /\ Shut(ts, i, e) \/ ts[e] \in Ending => Shut(ts, i, e + 1)
<1>1. i \in s..(e - 1) /\ i \in Nat \ {0} /\ e \in Nat \ {0} /\ i \in s..((e + 1) - 1) /\ e \in i..((e + 1) - 1)
  BY DEF Lies
<1>2. Steps(ts, e) /\ Steps(ts, i)
  BY <1>1, TextSteps
<1>3. Shut(ts, i, e) => Shut(ts, i, e + 1)
  BY <1>1, ShutApart
<1>4. CASE Shut(ts, i, e)
  BY <1>1, <1>3, <1>4 DEF Lies
<1>5. CASE ~Shut(ts, i, e)
  <2>1. Deep(ts, i) >= Nest(ts, e) /\ ts[e] \notin Opening /\ Deep(ts, e) = Nest(ts, e)
    BY <1>2, <1>5 DEF Lies, Steps
  <2>2. Deep(ts, i) \in Int /\ Deep(ts, e) \in Int
    BY <1>2 DEF Steps
  <2>3. ts[e] \in Ending => Shut(ts, i, e + 1)
    BY <1>1, <2>1, <2>2 DEF Shut
  <2>4. ts[e] \notin Ending => Nest(ts, e + 1) = Nest(ts, e)
    <3>1. ts[e] \notin Ending => ts[e] \notin Closing
      BY DEF Ending
    <3> QED BY <1>2, <2>1, <3>1 DEF Steps
  <2> QED BY <1>1, <1>5, <2>1, <2>3, <2>4 DEF Lies
<1> QED BY <1>4, <1>5
-----------------------------------------------------------------------------
(***************************************************************************)
(* Operators that bind by their level                                      *)
(***************************************************************************)
Ops(T, x) == {y \in Part(T, x) : T[y].type = "binop"}
Amid(T, ts, A, a, b) ==
    {c \in A : T[a].at < T[c].at /\ T[c].at < T[b].at /\ One(ts, T[a].at, T[c].at)}
\* The operators in A, which stand in T, bind by their level.
Sound(T, ts, A) ==
    \A a, b \in A : T[a].at < T[b].at /\ One(ts, T[a].at, T[b].at) =>
        /\ a \in Part(T, b) <=>
              \A c \in Amid(T, ts, A, a, b) \cup {a} : Rank(ts, T[c].at) >= Rank(ts, T[b].at)
        /\ b \in Part(T, a) <=>
              \A c \in Amid(T, ts, A, a, b) \cup {b} : Rank(ts, T[c].at) > Rank(ts, T[a].at)
\* A prefix operator takes no binary one along but in brackets of its operand.
Prefixed(T, ts, u) == T[u].type = "unop" => \A b \in Ops(T, u) : Deep(ts, T[u].at) < Deep(ts, T[b].at)
BindsIn(T, ts, x) == Sound(T, ts, Ops(T, x)) /\ \A u \in Part(T, x) : Prefixed(T, ts, u)

LEMMA LevelsTyped ==
  DOMAIN Levels \subseteq Nat
<1>1. PICK m \in Int : DOMAIN Levels = 0..m
  <2>1. Cardinality(DOMAIN Levels) \in Nat
    BY ParserAssumption, FS_CardinalityType
  <2>2. Cardinality(DOMAIN Levels) - 1 \in Int
    BY <2>1
  <2> QED BY <2>2, ParserAssumption
<1> QED BY <1>1

LEMMA RankTyped ==
  ASSUME NEW ts, NEW k
  PROVE  /\ ts[k] \in Signs => Rank(ts, k) \in Nat /\ Rank(ts, k) \in DOMAIN Levels
         /\ \A v \in DOMAIN Levels : ts[k] \in Levels[v] => ts[k] \in Signs /\ Rank(ts, k) = v
<1>1. DOMAIN Levels \subseteq Nat
  BY LevelsTyped
<1>2. ASSUME ts[k] \in Signs
      PROVE  Rank(ts, k) \in DOMAIN Levels /\ ts[k] \in Levels[Rank(ts, k)]
  BY <1>2 DEF Signs, Rank
<1>3. ASSUME NEW v \in DOMAIN Levels, ts[k] \in Levels[v]
      PROVE  ts[k] \in Signs /\ Rank(ts, k) = v
  <2>1. ts[k] \in Signs
    BY <1>3 DEF Signs
  <2>2. Rank(ts, k) \in DOMAIN Levels /\ ts[k] \in Levels[Rank(ts, k)]
    BY <1>2, <2>1
  <2> QED BY <1>3, <2>1, <2>2, ParserAssumption
<1> QED BY <1>1, <1>2, <1>3

\* Operators of expressions that follow one another.
LEMMA SoundApart ==
  ASSUME NEW T, NEW ts, NEW A, NEW B, Sound(T, ts, A), Sound(T, ts, B),
         \A c \in A \cup B : T[c].at \in Nat,
         \A a \in A : \A b \in B : T[a].at < T[b].at /\ ~One(ts, T[a].at, T[b].at)
  PROVE  Sound(T, ts, A \cup B)
<1>1. ASSUME NEW a \in A \cup B, NEW b \in A \cup B, T[a].at < T[b].at, One(ts, T[a].at, T[b].at)
      PROVE  \/ a \in A /\ b \in A /\ Amid(T, ts, A \cup B, a, b) = Amid(T, ts, A, a, b)
             \/ a \in B /\ b \in B /\ Amid(T, ts, A \cup B, a, b) = Amid(T, ts, B, a, b)
  <2>1. CASE a \in A /\ b \in A
    <3>1. \A c \in A \cup B : T[c].at < T[b].at => c \in A
      BY <2>1
    <3> QED BY <2>1, <3>1 DEF Amid
  <2>2. CASE a \in B /\ b \in B
    <3>1. \A c \in A \cup B : T[a].at < T[c].at => c \in B
      BY <2>2
    <3> QED BY <2>2, <3>1 DEF Amid
  <2>3. CASE a \in A /\ b \in B
    BY <1>1, <2>3
  <2>4. CASE a \in B /\ b \in A
    BY <1>1, <2>4
  <2> QED BY <2>1, <2>2, <2>3, <2>4
<1>2. ASSUME NEW a \in A \cup B, NEW b \in A \cup B, T[a].at < T[b].at, One(ts, T[a].at, T[b].at)
      PROVE  /\ a \in Part(T, b) <=>
                  \A c \in Amid(T, ts, A \cup B, a, b) \cup {a} : Rank(ts, T[c].at) >= Rank(ts, T[b].at)
             /\ b \in Part(T, a) <=>
                  \A c \in Amid(T, ts, A \cup B, a, b) \cup {b} : Rank(ts, T[c].at) > Rank(ts, T[a].at)
  <2>1. CASE a \in A /\ b \in A /\ Amid(T, ts, A \cup B, a, b) = Amid(T, ts, A, a, b)
    BY <1>2, <2>1 DEF Sound
  <2>2. CASE a \in B /\ b \in B /\ Amid(T, ts, A \cup B, a, b) = Amid(T, ts, B, a, b)
    BY <1>2, <2>2 DEF Sound
  <2> QED BY <1>1, <1>2, <2>1, <2>2
<1> QED BY <1>2 DEF Sound

\* x joins what was read before it, A, with what was read behind it, B.
Pivot(T, ts, A, x, B) ==
    /\ T[x].at \in Nat \ {0} /\ ts[T[x].at] \in Signs
    /\ \A a \in A : /\ T[a].at \in Nat \ {0} /\ ts[T[a].at] \in Signs /\ T[a].at < T[x].at
                    /\ Deep(ts, T[a].at) >= Deep(ts, T[x].at)
                    /\ Deep(ts, T[a].at) = Deep(ts, T[x].at) => Rank(ts, T[a].at) >= Rank(ts, T[x].at)
                    /\ a \in Part(T, x) /\ x \notin Part(T, a)
    /\ \A b \in B : /\ T[b].at \in Nat \ {0} /\ ts[T[b].at] \in Signs /\ T[x].at < T[b].at
                    /\ Deep(ts, T[b].at) = Deep(ts, T[x].at) => Rank(ts, T[b].at) > Rank(ts, T[x].at)
                    /\ b \in Part(T, x) /\ x \notin Part(T, b)
    /\ \A a \in A : \A b \in B : a \notin Part(T, b) /\ b \notin Part(T, a)

LEMMA SoundJoin ==
  ASSUME NEW T, NEW ts, NEW A, NEW B, NEW x, Sound(T, ts, A), Sound(T, ts, B), Pivot(T, ts, A, x, B)
  PROVE  Sound(T, ts, A \cup B \cup {x})
<1> DEFINE Z == A \cup B \cup {x}
           at(c) == T[c].at
           rank(c) == Rank(ts, T[c].at)
           deep(c) == Deep(ts, T[c].at)
<1>1. \A c \in Z : at(c) \in Nat \ {0} /\ ts[at(c)] \in Signs
  BY DEF Pivot
<1>2. \A c \in Z : rank(c) \in Nat /\ deep(c) \in Int
  <2>1. ASSUME NEW c \in Z
        PROVE  rank(c) \in Nat /\ deep(c) \in Int
    <3>1. at(c) \in Nat \ {0} /\ ts[at(c)] \in Signs
      BY <1>1
    <3> HIDE DEF Z
    <3> QED BY <3>1, RankTyped, TextSteps DEF Steps
  <2> QED BY <2>1
<1>3. /\ \A a \in A : /\ at(a) < at(x) /\ deep(a) >= deep(x)
                      /\ deep(a) = deep(x) => rank(a) >= rank(x)
                      /\ a \in Part(T, x) /\ x \notin Part(T, a)
      /\ \A b \in B : /\ at(x) < at(b)
                      /\ deep(b) = deep(x) => rank(b) > rank(x)
                      /\ b \in Part(T, x) /\ x \notin Part(T, b)
      /\ \A a \in A : \A b \in B : a \notin Part(T, b) /\ b \notin Part(T, a)
  BY DEF Pivot
<1>4. \A c, e : One(ts, at(c), at(e)) => deep(c) = deep(e)
  BY DEF One
<1> DEFINE Law(a, b) ==
             /\ a \in Part(T, b) <=> \A c \in Amid(T, ts, Z, a, b) \cup {a} : rank(c) >= rank(b)
             /\ b \in Part(T, a) <=> \A c \in Amid(T, ts, Z, a, b) \cup {b} : rank(c) > rank(a)
<1>5. \A a, b, c : c \in Amid(T, ts, Z, a, b) <=>
                     c \in Z /\ at(a) < at(c) /\ at(c) < at(b) /\ One(ts, at(a), at(c))
  BY DEF Amid
<1>6. ASSUME NEW a \in Z, NEW b \in Z, at(a) < at(b), One(ts, at(a), at(b))
      PROVE  Law(a, b)
  <2>1. CASE a \in A /\ b \in A
    <3>1. \A c \in Z : at(c) < at(b) => c \in A
      BY <1>1, <1>3, <2>1
    <3>2. Amid(T, ts, Z, a, b) = Amid(T, ts, A, a, b)
      BY <3>1 DEF Amid
    <3>3. /\ a \in Part(T, b) <=>
                \A c \in Amid(T, ts, A, a, b) \cup {a} : Rank(ts, T[c].at) >= Rank(ts, T[b].at)
          /\ b \in Part(T, a) <=>
                \A c \in Amid(T, ts, A, a, b) \cup {b} : Rank(ts, T[c].at) > Rank(ts, T[a].at)
      BY <1>6, <2>1 DEF Sound
    <3> HIDE DEF Z
    <3> QED BY <3>2, <3>3
  <2>2. CASE a \in B /\ b \in B
    <3>1. \A c \in Z : at(a) < at(c) => c \in B
      BY <1>1, <1>3, <2>2
    <3>2. Amid(T, ts, Z, a, b) = Amid(T, ts, B, a, b)
      BY <3>1 DEF Amid
    <3>3. /\ a \in Part(T, b) <=>
                \A c \in Amid(T, ts, B, a, b) \cup {a} : Rank(ts, T[c].at) >= Rank(ts, T[b].at)
          /\ b \in Part(T, a) <=>
                \A c \in Amid(T, ts, B, a, b) \cup {b} : Rank(ts, T[c].at) > Rank(ts, T[a].at)
      BY <1>6, <2>2 DEF Sound
    <3> HIDE DEF Z
    <3> QED BY <3>2, <3>3
  <2>3. CASE a \in A /\ b = x
    <3>1. \A c \in Amid(T, ts, Z, a, b) \cup {a} : c \in A /\ deep(c) = deep(x)
      <4>1. deep(a) = deep(x)
        BY <1>4, <1>6, <2>3
      <4>2. ASSUME NEW c \in Amid(T, ts, Z, a, b)
            PROVE  c \in A /\ deep(c) = deep(x)
        <5>1. c \in Z /\ at(c) < at(x) /\ One(ts, at(a), at(c))
          BY <1>5, <2>3
        <5>2. c \in A
          BY <1>1, <1>3, <5>1
        <5>3. deep(c) = deep(a)
          BY <1>4, <5>1
        <5> HIDE DEF deep
        <5> QED BY <4>1, <5>2, <5>3
      <4> HIDE DEF deep
      <4> QED BY <2>3, <4>1, <4>2
    <3>2. \A c \in Amid(T, ts, Z, a, b) \cup {a} : rank(c) >= rank(b)
      BY <1>3, <2>3, <3>1
    <3>3. ~(rank(b) > rank(a)) /\ b \in Amid(T, ts, Z, a, b) \cup {b}
      <4>1. rank(a) >= rank(b) /\ rank(a) \in Nat /\ rank(b) \in Nat
        BY <1>2, <3>2
      <4> HIDE DEF rank
      <4> QED BY <4>1
    <3>4. a \in Part(T, b) /\ b \notin Part(T, a)
      BY <1>3, <2>3
    <3> HIDE DEF rank, Z
    <3> QED BY <3>2, <3>3, <3>4
  <2>4. CASE a = x /\ b \in B
    <3>1. \A c \in Amid(T, ts, Z, a, b) \cup {b} : c \in B /\ deep(c) = deep(x)
      <4>1. deep(b) = deep(x)
        BY <1>4, <1>6, <2>4
      <4>2. ASSUME NEW c \in Amid(T, ts, Z, a, b)
            PROVE  c \in B /\ deep(c) = deep(x)
        <5>1. c \in Z /\ at(x) < at(c) /\ One(ts, at(x), at(c))
          BY <1>5, <2>4
        <5>2. c \in B
          BY <1>1, <1>3, <5>1
        <5>3. deep(c) = deep(x)
          BY <1>4, <5>1
        <5> QED BY <5>2, <5>3
      <4> HIDE DEF deep
      <4> QED BY <2>4, <4>1, <4>2
    <3>2. \A c \in Amid(T, ts, Z, a, b) \cup {b} : rank(c) > rank(a)
      BY <1>3, <2>4, <3>1
    <3>3. ~(rank(a) >= rank(b)) /\ a \in Amid(T, ts, Z, a, b) \cup {a}
      <4>1. rank(b) > rank(a) /\ rank(a) \in Nat /\ rank(b) \in Nat
        BY <1>2, <3>2
      <4> HIDE DEF rank
      <4> QED BY <4>1
    <3>4. b \in Part(T, a) /\ a \notin Part(T, b)
      BY <1>3, <2>4
    <3> HIDE DEF rank, Z
    <3> QED BY <3>2, <3>3, <3>4
  <2>5. CASE a \in A /\ b \in B
    <3>1. at(a) < at(x) /\ at(x) < at(b) /\ at(a) \in Nat /\ at(x) \in Nat /\ at(b) \in Nat
      BY <1>1, <1>3, <2>5
    <3>2. deep(x) = deep(a) /\ deep(b) = deep(a)
      <4>1. deep(x) >= deep(a)
        <5>1. at(x) \in at(a)..at(b)
          <6> HIDE DEF at
          <6> QED BY <3>1
        <5> QED BY <1>6, <5>1 DEF One
      <4>2. deep(a) >= deep(x) /\ deep(a) \in Int /\ deep(x) \in Int
        BY <1>2, <1>3, <2>5
      <4>3. deep(b) = deep(a)
        BY <1>4, <1>6
      <4> HIDE DEF deep
      <4> QED BY <4>1, <4>2, <4>3
    <3>3. One(ts, at(a), at(x))
      <4>1. \A k \in at(a)..at(x) : k \in at(a)..at(b)
        <5> HIDE DEF at
        <5> QED BY <3>1
      <4> QED BY <1>6, <3>2, <4>1 DEF One
    <3>4. x \in Amid(T, ts, Z, a, b)
      BY <1>5, <3>1, <3>3
    <3>5. rank(x) < rank(b) /\ rank(x) <= rank(a) /\ rank(x) \in Nat /\ rank(b) \in Nat /\ rank(a) \in Nat
      BY <1>2, <1>3, <2>5, <3>2
    <3>6. ~(rank(x) >= rank(b)) /\ ~(rank(x) > rank(a))
      <4> HIDE DEF rank
      <4> QED BY <3>5
    <3>7. a \notin Part(T, b) /\ b \notin Part(T, a)
      BY <1>3, <2>5
    <3> HIDE DEF rank, Z
    <3> QED BY <3>4, <3>6, <3>7
  <2>6. CASE (a \in B /\ b \in A \cup {x}) \/ (a = x /\ b \in A \cup {x})
    <3>1. at(a) \in Nat /\ at(b) \in Nat /\ at(x) \in Nat
      BY <1>1
    <3>2. at(a) >= at(x) /\ at(b) <= at(x)
      BY <1>3, <2>6, <3>1
    <3> HIDE DEF at
    <3> QED BY <1>6, <3>1, <3>2
  <2> HIDE DEF Law
  <2> QED BY <2>1, <2>2, <2>3, <2>4, <2>5, <2>6
<1> QED BY <1>6 DEF Sound
-----------------------------------------------------------------------------
(***************************************************************************)
(* What an activation that has read the tokens from s up to e has in a     *)
(* variable x                                                              *)
(***************************************************************************)
Good(T, ts, x, s, e, tight) ==
    /\ BindsIn(T, ts, x)
    /\ \A a \in Ops(T, x) : /\ Lies(ts, T[a].at, s, e)
                            /\ tight => Deep(ts, T[a].at) > Nest(ts, s)
    /\ \A u \in Part(T, x) : T[u].type = "unop" => T[u].at \in s..(e - 1)
\* The expressions of its operators have ended.
Ended(T, ts, x, e) == \A a \in Ops(T, x) : Shut(ts, T[a].at, e)
\* Those of y stand in other expressions behind those of x.
Separate(T, ts, x, y) ==
    \A a \in Ops(T, x) : \A b \in Ops(T, y) : T[a].at < T[b].at /\ ~One(ts, T[a].at, T[b].at)
\* Those that stand in no bracket bind at least as tightly as level v.
AtLeast(T, ts, x, s, v) == \A a \in Ops(T, x) : Deep(ts, T[a].at) = Nest(ts, s) => Rank(ts, T[a].at) >= v

LEMMA OpsNone ==
  ASSUME NEW T, 0 \notin DOMAIN T
  PROVE  Part(T, 0) = {} /\ Ops(T, 0) = {}
BY PartNone DEF Ops

LEMMA GoodNone ==
  ASSUME NEW T, NEW ts, NEW s, NEW e, NEW x, Part(T, x) = {}
  PROVE  \A tight \in BOOLEAN : Good(T, ts, x, s, e, tight) /\ Ended(T, ts, x, e)
<1>1. Ops(T, x) = {}
  BY DEF Ops
<1> QED BY <1>1 DEF Good, Ended, BindsIn, Sound

LEMMA OpsSame ==
  ASSUME NEW T, NEW U, NEW x, Alike(T, U, x)
  PROVE  Ops(U, x) = Ops(T, x) /\ \A a \in Ops(T, x) : U[a] = T[a]
BY DEF Alike, Ops

LEMMA SoundSame ==
  ASSUME NEW T, NEW U, NEW ts, NEW A, Sound(T, ts, A),
         \A a \in A : U[a].at = T[a].at /\ Part(U, a) = Part(T, a)
  PROVE  Sound(U, ts, A)
<1>1. ASSUME NEW a \in A, NEW b \in A
      PROVE  Amid(U, ts, A, a, b) = Amid(T, ts, A, a, b)
  BY DEF Amid
<1>2. ASSUME NEW a \in A, NEW b \in A, U[a].at < U[b].at, One(ts, U[a].at, U[b].at)
      PROVE  /\ a \in Part(U, b) <=>
                  \A c \in Amid(U, ts, A, a, b) \cup {a} : Rank(ts, U[c].at) >= Rank(ts, U[b].at)
             /\ b \in Part(U, a) <=>
                  \A c \in Amid(U, ts, A, a, b) \cup {b} : Rank(ts, U[c].at) > Rank(ts, U[a].at)
  <2>1. /\ a \in Part(T, b) <=>
                  \A c \in Amid(T, ts, A, a, b) \cup {a} : Rank(ts, T[c].at) >= Rank(ts, T[b].at)
        /\ b \in Part(T, a) <=>
                  \A c \in Amid(T, ts, A, a, b) \cup {b} : Rank(ts, T[c].at) > Rank(ts, T[a].at)
    BY <1>2 DEF Sound
  <2>2. \A c \in Amid(T, ts, A, a, b) \cup {a} : U[c].at = T[c].at
    BY DEF Amid
  <2>3. \A c \in Amid(T, ts, A, a, b) \cup {b} : U[c].at = T[c].at
    BY DEF Amid
  <2> QED BY <1>1, <2>1, <2>2, <2>3
<1> QED BY <1>2 DEF Sound

LEMMA GoodSame ==
  ASSUME NEW T, NEW U, NEW ts, NEW x, NEW s, NEW e, NEW tight, Whole(T), Alike(T, U, x)
  PROVE  /\ Good(T, ts, x, s, e, tight) => Good(U, ts, x, s, e, tight)
         /\ Ended(T, ts, x, e) => Ended(U, ts, x, e)
<1>1. Ops(U, x) = Ops(T, x) /\ \A a \in Ops(T, x) : U[a] = T[a] /\ Part(U, a) = Part(T, a)
  BY OpsSame DEF Alike, Ops
<1>2. Part(U, x) = Part(T, x) /\ \A u \in Part(T, x) : U[u] = T[u]
  BY DEF Alike
<1>3. ASSUME NEW u \in Part(T, x), Prefixed(T, ts, u)
      PROVE  Prefixed(U, ts, u)
  <2>1. Alike(T, U, u)
    BY AlikeBelow
  <2>2. Ops(U, u) = Ops(T, u) /\ \A a \in Ops(T, u) : U[a] = T[a]
    BY <2>1, OpsSame
  <2> QED BY <1>2, <1>3, <2>2 DEF Prefixed
<1>4. BindsIn(T, ts, x) => BindsIn(U, ts, x)
  BY <1>1, <1>2, <1>3, SoundSame DEF BindsIn
<1> QED BY <1>1, <1>2, <1>4 DEF Good, Ended

\* The text goes on.
LEMMA GoodText ==
  ASSUME NEW ts, NEW us, Len(ts) \in Nat, Len(us) \in Nat, Extends(ts, us),
         NEW s \in Nat \ {0}, NEW e \in Nat, e <= Len(ts) + 1, s <= e,
         NEW T, Whole(T), NEW x, NEW tight, Good(T, ts, x, s, e, tight)
  PROVE  /\ Good(T, us, x, s, e, tight)
         /\ Ended(T, ts, x, e) => Ended(T, us, x, e)
<1>0. s \in 1..(Len(ts) + 1) /\ e \in 1..(Len(ts) + 1)
  OBVIOUS
<1>1. /\ \A k \in 1..Len(ts) : us[k] = ts[k] /\ Deep(us, k) = Deep(ts, k) /\ Rank(us, k) = Rank(ts, k)
      /\ Nest(us, s) = Nest(ts, s) /\ Nest(us, e) = Nest(ts, e)
      /\ \A i \in 1..Len(ts) : \A j \in 1..Len(ts) : One(us, i, j) <=> One(ts, i, j)
      /\ \A i \in 1..Len(ts) : Shut(us, i, e) <=> Shut(ts, i, e)
  BY <1>0, SameBefore
<1>2. \A a \in Ops(T, x) : T[a].at \in 1..Len(ts)
  <2>1. ASSUME NEW a \in Ops(T, x)
        PROVE  T[a].at \in s..(e - 1)
    BY DEF Good, Lies
  <2> QED BY <2>1
<1>3. \A u \in Part(T, x) : T[u].type = "unop" => T[u].at \in 1..Len(ts)
  <2>1. \A u \in Part(T, x) : T[u].type = "unop" => T[u].at \in s..(e - 1)
    BY DEF Good
  <2> QED BY <2>1
<1>4. Sound(T, us, Ops(T, x))
  <2>1. Sound(T, ts, Ops(T, x))
    BY DEF Good, BindsIn
  <2>2. ASSUME NEW a \in Ops(T, x), NEW b \in Ops(T, x)
        PROVE  Amid(T, us, Ops(T, x), a, b) = Amid(T, ts, Ops(T, x), a, b)
    BY <1>1, <1>2 DEF Amid
  <2>3. ASSUME NEW a \in Ops(T, x), NEW b \in Ops(T, x), T[a].at < T[b].at, One(us, T[a].at, T[b].at)
        PROVE  /\ a \in Part(T, b) <=>
                    \A c \in Amid(T, us, Ops(T, x), a, b) \cup {a} : Rank(us, T[c].at) >= Rank(us, T[b].at)
               /\ b \in Part(T, a) <=>
                    \A c \in Amid(T, us, Ops(T, x), a, b) \cup {b} : Rank(us, T[c].at) > Rank(us, T[a].at)
    <3>1. One(ts, T[a].at, T[b].at)
      BY <1>1, <1>2, <2>3
    <3>2. /\ a \in Part(T, b) <=>
                \A c \in Amid(T, ts, Ops(T, x), a, b) \cup {a} : Rank(ts, T[c].at) >= Rank(ts, T[b].at)
          /\ b \in Part(T, a) <=>
                \A c \in Amid(T, ts, Ops(T, x), a, b) \cup {b} : Rank(ts, T[c].at) > Rank(ts, T[a].at)
      BY <2>1, <2>3, <3>1 DEF Sound
    <3>3. \A c \in Amid(T, ts, Ops(T, x), a, b) \cup {a, b} : Rank(us, T[c].at) = Rank(ts, T[c].at)
      BY <1>1, <1>2 DEF Amid
    <3> QED BY <2>2, <3>2, <3>3
  <2> QED BY <2>3 DEF Sound
<1>5. ASSUME NEW u \in Part(T, x)
      PROVE  Prefixed(T, us, u)
  <2>1. Prefixed(T, ts, u)
    BY DEF Good, BindsIn
  <2>2. Ops(T, u) \subseteq Ops(T, x)
    BY PartInside DEF Ops
  <2> QED BY <1>1, <1>2, <1>3, <2>1, <2>2 DEF Prefixed
<1>6. \A a \in Ops(T, x) : /\ Lies(us, T[a].at, s, e)
                           /\ tight => Deep(us, T[a].at) > Nest(us, s)
  <2>1. ASSUME NEW a \in Ops(T, x)
        PROVE  /\ Lies(us, T[a].at, s, e)
               /\ tight => Deep(us, T[a].at) > Nest(us, s)
    <3>1. Lies(ts, T[a].at, s, e) /\ (tight => Deep(ts, T[a].at) > Nest(ts, s))
      BY DEF Good
    <3>2. T[a].at \in 1..Len(ts)
      BY <1>2
    <3> QED BY <1>1, <3>1, <3>2 DEF Lies
  <2> QED BY <2>1
<1>7. Ended(T, ts, x, e) => Ended(T, us, x, e)
  BY <1>1, <1>2 DEF Ended
<1>8. \A u \in Part(T, x) : T[u].type = "unop" => T[u].at \in s..(e - 1)
  BY DEF Good
<1> QED BY <1>4, <1>5, <1>6, <1>7, <1>8 DEF Good, BindsIn

\* A token is taken.
LEMMA GoodOn ==
  ASSUME NEW ts, NEW s \in Nat \ {0}, NEW e \in Nat, NEW T, NEW x, NEW tight,
         Good(T, ts, x, s, e, tight), ts[e] \in Opening => Ended(T, ts, x, e)
  PROVE  /\ Good(T, ts, x, s, e + 1, tight)
         /\ Ended(T, ts, x, e) \/ ts[e] \in Ending => Ended(T, ts, x, e + 1)
<1>1. ASSUME NEW a \in Ops(T, x)
      PROVE  /\ Lies(ts, T[a].at, s, e + 1)
             /\ Shut(ts, T[a].at, e) \/ ts[e] \in Ending => Shut(ts, T[a].at, e + 1)
  <2>1. Lies(ts, T[a].at, s, e) /\ (ts[e] \in Opening => Shut(ts, T[a].at, e))
    BY DEF Good, Ended
  <2> QED BY <2>1, LiesOn
<1>2. \A u \in Part(T, x) : T[u].type = "unop" => T[u].at \in s..((e + 1) - 1)
  <2>1. ASSUME NEW u \in Part(T, x), T[u].type = "unop"
        PROVE  T[u].at \in s..(e - 1)
    BY <2>1 DEF Good
  <2> QED BY <2>1
<1> QED BY <1>1, <1>2 DEF Good, Ended

\* A call has been made, and ended.
LEMMA GoodOver ==
  ASSUME NEW ts, NEW s \in Nat \ {0}, NEW e \in Nat, NEW k \in Nat, e <= k, Nest(ts, k) = Nest(ts, e),
         NEW T, NEW x, NEW tight, Good(T, ts, x, s, e, tight)
  PROVE  /\ Good(T, ts, x, s, k, tight)
         /\ Ended(T, ts, x, e) => Ended(T, ts, x, k)
<1>1. ASSUME NEW a \in Ops(T, x)
      PROVE  /\ Lies(ts, T[a].at, s, k)
             /\ Shut(ts, T[a].at, e) => Shut(ts, T[a].at, k)
  <2>1. Lies(ts, T[a].at, s, e)
    BY DEF Good
  <2>2. T[a].at \in s..(e - 1) /\ T[a].at \in Nat \ {0} /\ T[a].at \in s..(k - 1)
    BY <2>1 DEF Lies
  <2>3. Shut(ts, T[a].at, e) => Shut(ts, T[a].at, k)
    BY <2>2, ShutApart
  <2> QED BY <2>1, <2>2, <2>3 DEF Lies
<1>2. \A u \in Part(T, x) : T[u].type = "unop" => T[u].at \in s..(k - 1)
  <2>1. ASSUME NEW u \in Part(T, x), T[u].type = "unop"
        PROVE  T[u].at \in s..(e - 1)
    BY <2>1 DEF Good
  <2> QED BY <2>1
<1> QED BY <1>1, <1>2 DEF Good, Ended

\* What a call returned, to a caller that started at s.
LEMMA GoodFrom ==
  ASSUME NEW ts, NEW s \in Nat \ {0}, NEW e \in Nat \ {0}, NEW k \in Nat, s <= e,
         NEW nest \in Nat, Nest(ts, e) = Nest(ts, s) + nest,
         NEW T, NEW x, NEW tight, NEW loose, Good(T, ts, x, e, k, tight),
         loose => nest > 0 \/ tight
  PROVE  Good(T, ts, x, s, k, loose)
<1>1. Nest(ts, e) \in Int /\ Nest(ts, s) \in Int
  BY TextSteps DEF Steps
<1>2. ASSUME NEW a \in Ops(T, x)
      PROVE  /\ Lies(ts, T[a].at, s, k)
             /\ loose => Deep(ts, T[a].at) > Nest(ts, s)
  <2>1. Lies(ts, T[a].at, e, k) /\ (tight => Deep(ts, T[a].at) > Nest(ts, e))
    BY DEF Good
  <2>2. T[a].at \in e..(k - 1) /\ T[a].at \in Nat \ {0} /\ T[a].at \in s..(k - 1)
    BY <2>1 DEF Lies
  <2>3. Deep(ts, T[a].at) \in Int
    BY <2>2, TextSteps DEF Steps
  <2>4. Deep(ts, T[a].at) >= Nest(ts, e)
    BY <2>1 DEF Lies
  <2>5. Deep(ts, T[a].at) >= Nest(ts, s) /\ (loose => Deep(ts, T[a].at) > Nest(ts, s))
    BY <1>1, <2>1, <2>3, <2>4
  <2> QED BY <2>1, <2>2, <2>5 DEF Lies
<1>3. \A u \in Part(T, x) : T[u].type = "unop" => T[u].at \in s..(k - 1)
  <2>1. ASSUME NEW u \in Part(T, x), T[u].type = "unop"
        PROVE  T[u].at \in e..(k - 1)
    BY <2>1 DEF Good
  <2> QED BY <2>1
<1> QED BY <1>2, <1>3 DEF Good

\* In U, x is above what hangs below a and b in T, and is no operator that joins
\* them; so is a node that takes a and b, or the children of a, and a itself
\* when b is put below it.
Above(T, U, x, a, b) ==
    /\ U[x].type # "binop"
    /\ \A u \in Part(U, x) : \/ u = x
                             \/ u \in Part(T, a) \cup Part(T, b) /\ U[u] = T[u] /\ Part(U, u) = Part(T, u)
    /\ \A c \in Ops(T, a) \cup Ops(T, b) : c \in Part(U, x) /\ c # x

LEMMA AboveOps ==
  ASSUME NEW T, NEW U, NEW x, NEW a, NEW b, Above(T, U, x, a, b)
  PROVE  /\ Ops(U, x) = Ops(T, a) \cup Ops(T, b)
         /\ \A c \in Ops(U, x) : U[c] = T[c] /\ Part(U, c) = Part(T, c)
<1>1. ASSUME NEW c \in Ops(U, x)
      PROVE  c \in Ops(T, a) \cup Ops(T, b) /\ U[c] = T[c] /\ Part(U, c) = Part(T, c)
  <2>1. c \in Part(U, x) /\ U[c].type = "binop"
    BY DEF Ops
  <2>2. c # x
    BY <2>1 DEF Above
  <2>3. c \in Part(T, a) \cup Part(T, b) /\ U[c] = T[c] /\ Part(U, c) = Part(T, c)
    BY <2>1, <2>2 DEF Above
  <2> QED BY <2>1, <2>3 DEF Ops
<1>2. ASSUME NEW c \in Ops(T, a) \cup Ops(T, b)
      PROVE  c \in Ops(U, x)
  <2>1. c \in Part(U, x) /\ c # x
    BY DEF Above
  <2>2. U[c] = T[c]
    BY <2>1 DEF Above
  <2>3. T[c].type = "binop"
    BY DEF Ops
  <2> QED BY <2>1, <2>2, <2>3 DEF Ops
<1> QED BY <1>1, <1>2

LEMMA GoodAbove ==
  ASSUME NEW T, NEW U, NEW ts, NEW x, NEW a, NEW b, NEW s \in Nat \ {0}, NEW e \in Nat, NEW tight,
         Whole(T), Whole(U), Above(T, U, x, a, b), Separate(T, ts, a, b),
         Good(T, ts, a, s, e, tight), Good(T, ts, b, s, e, tight),
         U[x].type = "unop" => U[x].at \in s..(e - 1) /\ Prefixed(U, ts, x)
  PROVE  /\ Good(U, ts, x, s, e, tight)
         /\ Ended(T, ts, a, e) /\ Ended(T, ts, b, e) => Ended(U, ts, x, e)
<1>1. /\ Ops(U, x) = Ops(T, a) \cup Ops(T, b)
      /\ \A c \in Ops(U, x) : U[c] = T[c] /\ Part(U, c) = Part(T, c)
  BY AboveOps
<1>2. \A c \in Ops(T, a) \cup Ops(T, b) : T[c].at \in Nat
  <2>1. ASSUME NEW c \in Ops(T, a) \cup Ops(T, b)
        PROVE  T[c].at \in Nat
    <3>1. Lies(ts, T[c].at, s, e)
      BY DEF Good
    <3> QED BY <3>1 DEF Lies
  <2> QED BY <2>1
<1>3. Sound(T, ts, Ops(T, a) \cup Ops(T, b))
  <2>1. Sound(T, ts, Ops(T, a)) /\ Sound(T, ts, Ops(T, b))
    BY DEF Good, BindsIn
  <2>2. \A c \in Ops(T, a) : \A d \in Ops(T, b) : T[c].at < T[d].at /\ ~One(ts, T[c].at, T[d].at)
    BY DEF Separate
  <2> QED BY <1>2, <2>1, <2>2, SoundApart
<1>4. Sound(U, ts, Ops(U, x))
  BY <1>1, <1>3, SoundSame
<1>5. ASSUME NEW u \in Part(U, x), u # x
      PROVE  Prefixed(U, ts, u) /\ (U[u].type = "unop" => U[u].at \in s..(e - 1))
  <2>1. u \in Part(T, a) \cup Part(T, b) /\ U[u] = T[u] /\ Part(U, u) = Part(T, u)
    BY <1>5 DEF Above
  <2>2. Prefixed(T, ts, u) /\ (T[u].type = "unop" => T[u].at \in s..(e - 1))
    BY <2>1 DEF Good, BindsIn
  <2>3. ASSUME NEW c \in Ops(U, u)
        PROVE  c \in Ops(T, u) /\ U[c] = T[c]
    <3>1. c \in Ops(U, x)
      BY PartInside DEF Ops
    <3>2. U[c] = T[c] /\ U[c].type = "binop" /\ c \in Part(T, u)
      BY <1>1, <2>1, <3>1 DEF Ops
    <3> QED BY <3>2 DEF Ops
  <2> QED BY <2>1, <2>2, <2>3 DEF Prefixed
<1>6. Prefixed(U, ts, x)
  BY DEF Prefixed
<1>7. \A u \in Part(U, x) : Prefixed(U, ts, u) /\ (U[u].type = "unop" => U[u].at \in s..(e - 1))
  BY <1>5, <1>6
<1>8. \A c \in Ops(U, x) : /\ Lies(ts, U[c].at, s, e)
                           /\ tight => Deep(ts, U[c].at) > Nest(ts, s)
  BY <1>1 DEF Good
<1>9. Ended(T, ts, a, e) /\ Ended(T, ts, b, e) => Ended(U, ts, x, e)
  BY <1>1 DEF Ended
<1> QED BY <1>4, <1>7, <1>8, <1>9 DEF Good, BindsIn

\* In U, x is a new node above a and b.
Joined(T, U, x, a, b) ==
    /\ Part(U, x) = {x} \cup Part(T, a) \cup Part(T, b) /\ x \notin DOMAIN T
    /\ \A u \in Part(T, a) \cup Part(T, b) : U[u] = T[u] /\ Part(U, u) = Part(T, u)

LEMMA JoinedAbove ==
  ASSUME NEW T, NEW U, NEW x, NEW a, NEW b, Joined(T, U, x, a, b), U[x].type # "binop"
  PROVE  Above(T, U, x, a, b)
<1>1. x \notin Part(T, a) \cup Part(T, b)
  BY DEF Joined, Part
<1> QED BY <1>1 DEF Joined, Above, Ops

\* Where an operator of level v stands, in an activation that started at s, and
\* what has been read before and behind it.
Hinge(T, ts, a, b, s, e, op, v) ==
    /\ op \in s..(e - 1) /\ Deep(ts, op) = Nest(ts, s) /\ v \in DOMAIN Levels /\ ts[op] \in Levels[v]
    /\ \A c \in Ops(T, a) : T[c].at < op
    /\ \A c \in Ops(T, b) : /\ op < T[c].at
                            /\ Deep(ts, T[c].at) = Nest(ts, s) => Rank(ts, T[c].at) > v

LEMMA GoodJoin ==
  ASSUME NEW T, NEW U, NEW ts, NEW x, NEW a, NEW b, NEW s \in Nat \ {0}, NEW e \in Nat \ {0}, NEW v,
         Whole(T), Whole(U), Joined(T, U, x, a, b), Part(T, a) \cap Part(T, b) = {},
         Good(T, ts, a, s, e, FALSE), Good(T, ts, b, s, e, FALSE), Nest(ts, e) = Nest(ts, s),
         U[x].type = "binop", Hinge(T, ts, a, b, s, e, U[x].at, v), AtLeast(T, ts, a, s, v)
  PROVE  Good(U, ts, x, s, e, FALSE) /\ AtLeast(U, ts, x, s, v)
<1> DEFINE op == U[x].at
<1>1. op \in s..(e - 1) /\ Deep(ts, op) = Nest(ts, s) /\ ts[op] \in Signs /\ Rank(ts, op) = v /\ v \in Nat
  BY RankTyped DEF Hinge
<1>2. /\ Ops(U, x) = Ops(T, a) \cup Ops(T, b) \cup {x} /\ x \notin Ops(T, a) \cup Ops(T, b)
      /\ \A c \in Ops(T, a) \cup Ops(T, b) : U[c] = T[c] /\ Part(U, c) = Part(T, c)
  <2>1. x \notin Part(T, a) \cup Part(T, b)
    BY DEF Joined, Part
  <2> QED BY <2>1 DEF Joined, Ops
<1>3. \A c \in Ops(T, a) \cup Ops(T, b) : Lies(ts, T[c].at, s, e)
  BY DEF Good
<1>4. \A c \in Ops(T, a) \cup Ops(T, b) :
         /\ T[c].at \in Nat \ {0} /\ ts[T[c].at] \in Signs /\ Deep(ts, T[c].at) >= Nest(ts, s)
         /\ Rank(ts, T[c].at) \in Nat /\ Deep(ts, T[c].at) \in Int
  <2>1. ASSUME NEW c \in Ops(T, a) \cup Ops(T, b)
        PROVE  /\ T[c].at \in Nat \ {0} /\ ts[T[c].at] \in Signs /\ Deep(ts, T[c].at) >= Nest(ts, s)
               /\ Rank(ts, T[c].at) \in Nat /\ Deep(ts, T[c].at) \in Int
    <3>1. T[c].at \in s..(e - 1) /\ ts[T[c].at] \in Signs /\ Deep(ts, T[c].at) >= Nest(ts, s)
      BY <1>3 DEF Lies
    <3>2. T[c].at \in Nat \ {0}
      BY <3>1
    <3>3. Rank(ts, T[c].at) \in Nat
      BY <3>1, RankTyped
    <3>4. Deep(ts, T[c].at) \in Int
      BY <3>2, TextSteps DEF Steps
    <3> QED BY <3>1, <3>2, <3>3, <3>4
  <2> QED BY <2>1
<1>5. Pivot(U, ts, Ops(T, a), x, Ops(T, b))
  <2>1. op \in Nat \ {0} /\ ts[op] \in Signs
    BY <1>1
  <2>2. ASSUME NEW c \in Ops(T, a)
        PROVE  /\ U[c].at \in Nat \ {0} /\ ts[U[c].at] \in Signs /\ U[c].at < op
               /\ Deep(ts, U[c].at) >= Deep(ts, op)
               /\ Deep(ts, U[c].at) = Deep(ts, op) => Rank(ts, U[c].at) >= Rank(ts, op)
               /\ c \in Part(U, x) /\ x \notin Part(U, c)
    <3>1. U[c].at = T[c].at /\ Part(U, c) = Part(T, c) /\ c \in Part(T, a)
      BY <1>2 DEF Ops
    <3>2. c \in Part(U, x) /\ x \notin Part(U, c)
      BY <3>1 DEF Joined, Part
    <3>3. T[c].at < op /\ (Deep(ts, T[c].at) = Nest(ts, s) => Rank(ts, T[c].at) >= v)
      BY DEF Hinge, AtLeast
    <3> QED BY <1>1, <1>4, <3>1, <3>2, <3>3
  <2>3. ASSUME NEW c \in Ops(T, b)
        PROVE  /\ U[c].at \in Nat \ {0} /\ ts[U[c].at] \in Signs /\ op < U[c].at
               /\ Deep(ts, U[c].at) = Deep(ts, op) => Rank(ts, U[c].at) > Rank(ts, op)
               /\ c \in Part(U, x) /\ x \notin Part(U, c)
    <3>1. U[c].at = T[c].at /\ Part(U, c) = Part(T, c) /\ c \in Part(T, b)
      BY <1>2 DEF Ops
    <3>2. c \in Part(U, x) /\ x \notin Part(U, c)
      BY <3>1 DEF Joined, Part
    <3>3. op < T[c].at /\ (Deep(ts, T[c].at) = Nest(ts, s) => Rank(ts, T[c].at) > v)
      BY DEF Hinge
    <3> QED BY <1>1, <1>4, <3>1, <3>2, <3>3
  <2>4. \A c \in Ops(T, a) : \A d \in Ops(T, b) : c \notin Part(U, d) /\ d \notin Part(U, c)
    <3>1. ASSUME NEW c \in Ops(T, a), NEW d \in Ops(T, b)
          PROVE  c \notin Part(U, d) /\ d \notin Part(U, c)
      <4>1. c \in Part(T, a) /\ d \in Part(T, b)
        BY DEF Ops
      <4>2. Part(T, c) \subseteq Part(T, a) /\ Part(T, d) \subseteq Part(T, b)
        BY <4>1, PartInside
      <4> QED BY <1>2, <4>1, <4>2
    <3> QED BY <3>1
  <2> QED BY <2>1, <2>2, <2>3, <2>4 DEF Pivot
<1>6. Sound(U, ts, Ops(U, x))
  <2>1. Sound(T, ts, Ops(T, a)) /\ Sound(T, ts, Ops(T, b))
    BY DEF Good, BindsIn
  <2>2. Sound(U, ts, Ops(T, a)) /\ Sound(U, ts, Ops(T, b))
    BY <1>2, <2>1, SoundSame
  <2> QED BY <1>2, <1>5, <2>2, SoundJoin
<1>7. ASSUME NEW u \in Part(U, x)
      PROVE  Prefixed(U, ts, u) /\ (U[u].type = "unop" => U[u].at \in s..(e - 1))
  <2>1. CASE u = x
    BY <2>1 DEF Prefixed
  <2>2. CASE u # x
    <3>1. u \in Part(T, a) \cup Part(T, b) /\ U[u] = T[u] /\ Part(U, u) = Part(T, u)
      BY <2>2 DEF Joined
    <3>2. Prefixed(T, ts, u) /\ (T[u].type = "unop" => T[u].at \in s..(e - 1))
      BY <3>1 DEF Good, BindsIn
    <3>3. \A c \in Part(T, u) : U[c] = T[c]
      BY <3>1, PartInside DEF Joined
    <3> QED BY <3>1, <3>2, <3>3 DEF Prefixed, Ops
  <2> QED BY <2>1, <2>2
<1>8. Lies(ts, op, s, e)
  <2>1. Nest(ts, s) \in Int
    BY TextSteps DEF Steps
  <2> QED BY <1>1, <2>1 DEF Lies
<1>9. \A c \in Ops(U, x) : Lies(ts, U[c].at, s, e)
  BY <1>2, <1>3, <1>8
<1>10. AtLeast(U, ts, x, s, v)
  <2>1. ASSUME NEW c \in Ops(U, x), Deep(ts, U[c].at) = Nest(ts, s)
        PROVE  Rank(ts, U[c].at) >= v
    <3>1. CASE c = x
      BY <1>1, <3>1
    <3>2. CASE c \in Ops(T, a)
      BY <1>2, <2>1, <3>2 DEF AtLeast
    <3>3. CASE c \in Ops(T, b)
      <4>1. U[c].at = T[c].at /\ Rank(ts, T[c].at) \in Nat
        BY <1>2, <1>4, <3>3
      <4>2. Rank(ts, T[c].at) > v
        BY <2>1, <3>3, <4>1 DEF Hinge
      <4> QED BY <1>1, <4>1, <4>2
    <3> QED BY <1>2, <3>1, <3>2, <3>3
  <2> QED BY <2>1 DEF AtLeast
<1> QED BY <1>6, <1>7, <1>9, <1>10 DEF Good, BindsIn
-----------------------------------------------------------------------------
(***************************************************************************)
(* An activation f at a place p that has read the tokens from s up to e    *)
(***************************************************************************)
Span(ts, s, e, nest) ==
    s \in Nat \ {0} /\ e \in Nat \ {0} /\ s <= e /\ e <= Len(ts) + 1 /\ Nest(ts, e) = Nest(ts, s) + nest
NodeFit(T, ts, f, s, p) ==
    p.type # "unknown" => /\ f.n # 0 /\ T[f.n].type = p.type
                          /\ p.type = "unop" => Deep(ts, T[f.n].at) = Nest(ts, s)
\* parse_at_level: before its operator there is what binds at least as tightly,
\* behind it what binds tighter.
LevelFit(T, ts, f, s, e) ==
    f.fn = "level" =>
      /\ f.level \in DOMAIN Levels /\ AtLeast(T, ts, f.n, s, f.level)
      /\ f.pc = 4 => e <= Len(ts) /\ ts[e] \in Levels[f.level]
      /\ f.pc \in 5..7 => Hinge(T, ts, f.n, f.r, s, e, f.op, f.level)
      /\ f.pc \notin 6..7 => f.r = 0
\* parse_unary: its operator is its first token.
UnaryFit(ts, f, s, e) ==
    f.fn = "unary" => /\ f.pc <= 2 => e = s
                      /\ f.pc = 3 => f.op = s /\ s < e /\ Deep(ts, s) = Nest(ts, s)

Fit(T, ts, f, s, e, p) ==
    /\ p \in Places /\ p.fn = f.fn /\ p.pc = f.pc
    /\ Span(ts, s, e, p.nest)
    /\ Good(T, ts, f.n, s, e, f.fn \in Tight) /\ Good(T, ts, f.r, s, e, f.fn \in Tight)
    /\ "n" \in p.shut => Ended(T, ts, f.n, e)
    /\ "r" \in p.shut => Ended(T, ts, f.r, e)
    /\ f.fn # "level" => Separate(T, ts, f.n, f.r)
    /\ NodeFit(T, ts, f, s, p) /\ LevelFit(T, ts, f, s, e) /\ UnaryFit(ts, f, s, e)

LEMMA PlaceTyped ==
  ASSUME NEW p \in Places
  PROVE  /\ Nested(p) /\ Leads(p) \subseteq Places /\ p.pc \in Nat /\ p.nest \in Nat
         /\ DOMAIN p = {"fn", "pc", "nest", "shut", "type", "see"}
<1>1. Nested(p) /\ Leads(p) \subseteq Places /\ p.pc \in Nat
  BY NestingAssumption
<1>2. DOMAIN p = DOMAIN Entry("program", <<>>) /\ p.nest \in Nat
  BY <1>1 DEF Nested
<1> QED BY <1>1, <1>2 DEF Entry

LEMMA LevelPlace ==
  ASSUME NEW p \in Places, p.fn = "level", NEW i, i = InstrOf(p)
  PROVE  /\ p.nest = 0
         /\ i.do \in {"call", "bail", "unless", "advance", "new", "jump", "return"}
         /\ i.do = "call" => (p.pc = 1 /\ Register(i) = "n") \/ (p.pc = 5 /\ Register(i) = "r")
         /\ i.do = "bail" => p.pc \in {2, 6}
         /\ i.do = "unless" => p.pc = 3 /\ i.name = "at level" /\ i.skip = 5
         /\ i.do = "advance" => p.pc = 4
         /\ i.do = "new" => p.pc = 7
         /\ i.do = "jump" => p.pc = 8 /\ i.skip = -6
<1>1. Nested(p) /\ p.pc \in Nat
  BY PlaceTyped
<1>2. /\ p.nest = 0 /\ p.pc \in DOMAIN LevelSteps /\ i.do = LevelSteps[p.pc]
      /\ i.do = "call" => Register(i) = IF p.pc = 1 THEN "n" ELSE "r"
      /\ i.do = "unless" => i.name = "at level" /\ i.skip = 5
      /\ i.do = "jump" => i.skip = -6
  BY <1>1 DEF Nested
<1>3. DOMAIN LevelSteps = 1..9
  BY DEF LevelSteps
<1>4. \/ p.pc = 1 /\ i.do = "call"
      \/ p.pc \in {2, 6} /\ i.do = "bail"
      \/ p.pc = 3 /\ i.do = "unless"
      \/ p.pc = 4 /\ i.do = "advance"
      \/ p.pc = 5 /\ i.do = "call"
      \/ p.pc = 7 /\ i.do = "new"
      \/ p.pc = 8 /\ i.do = "jump"
      \/ p.pc = 9 /\ i.do = "return"
  <2>1. p.pc \in 1..9
    BY <1>2, <1>3
  <2>2. p.pc = 1 \/ p.pc = 2 \/ p.pc = 3 \/ p.pc = 4 \/ p.pc = 5 \/ p.pc = 6 \/ p.pc = 7 \/ p.pc = 8 \/ p.pc = 9
    BY <2>1
  <2>3. /\ LevelSteps[1] = "call" /\ LevelSteps[2] = "bail" /\ LevelSteps[3] = "unless"
        /\ LevelSteps[4] = "advance" /\ LevelSteps[5] = "call" /\ LevelSteps[6] = "bail"
        /\ LevelSteps[7] = "new" /\ LevelSteps[8] = "jump" /\ LevelSteps[9] = "return"
    BY DEF LevelSteps
  <2>4. i.do = LevelSteps[p.pc]
    BY <1>2
  <2> QED BY <2>2, <2>3, <2>4
<1> QED BY <1>2, <1>4

\* In another heap, in which the same hangs below its variables.
LEMMA FitSame ==
  ASSUME NEW T, NEW U, NEW ts, NEW f, NEW s, NEW e, NEW p, Fit(T, ts, f, s, e, p),
         Whole(T), Alike(T, U, f.n), Alike(T, U, f.r)
  PROVE  Fit(U, ts, f, s, e, p)
<1>1. /\ Ops(U, f.n) = Ops(T, f.n) /\ \A a \in Ops(T, f.n) : U[a] = T[a]
      /\ Ops(U, f.r) = Ops(T, f.r) /\ \A a \in Ops(T, f.r) : U[a] = T[a]
  BY OpsSame
<1>2. Good(U, ts, f.n, s, e, f.fn \in Tight) /\ Good(U, ts, f.r, s, e, f.fn \in Tight)
  BY GoodSame DEF Fit
<1>3. ("n" \in p.shut => Ended(U, ts, f.n, e)) /\ ("r" \in p.shut => Ended(U, ts, f.r, e))
  BY GoodSame DEF Fit
<1>4. f.fn # "level" => Separate(U, ts, f.n, f.r)
  BY <1>1 DEF Fit, Separate
<1>5. NodeFit(U, ts, f, s, p)
  <2>1. f.n # 0 => U[f.n] = T[f.n]
    BY DEF Alike
  <2> QED BY <2>1 DEF Fit, NodeFit
<1>6. LevelFit(U, ts, f, s, e)
  <2>1. \A v : AtLeast(T, ts, f.n, s, v) => AtLeast(U, ts, f.n, s, v)
    BY <1>1 DEF AtLeast
  <2>2. \A op, v : Hinge(T, ts, f.n, f.r, s, e, op, v) => Hinge(U, ts, f.n, f.r, s, e, op, v)
    BY <1>1 DEF Hinge
  <2> QED BY <2>1, <2>2 DEF Fit, LevelFit
<1> QED BY <1>2, <1>3, <1>4, <1>5, <1>6 DEF Fit

\* When a token more has been looked at.
LEMMA FitText ==
  ASSUME NEW T, NEW ts, NEW us, Len(ts) \in Nat, Len(us) \in Nat, Extends(ts, us), Whole(T),
         NEW f, NEW s, NEW e, NEW p, Fit(T, ts, f, s, e, p), f.n # 0 => f.n \in DOMAIN T
  PROVE  Fit(T, us, f, s, e, p)
<1>0. Span(ts, s, e, p.nest)
  BY DEF Fit
<1>1. /\ s \in Nat \ {0} /\ e \in Nat \ {0} /\ s <= e /\ e <= Len(ts) + 1
      /\ s \in 1..(Len(ts) + 1) /\ e \in 1..(Len(ts) + 1)
  BY <1>0 DEF Span
<1>2. /\ \A k \in 1..Len(ts) : us[k] = ts[k] /\ Deep(us, k) = Deep(ts, k) /\ Rank(us, k) = Rank(ts, k)
      /\ Nest(us, s) = Nest(ts, s) /\ Nest(us, e) = Nest(ts, e)
      /\ \A i \in 1..Len(ts) : \A j \in 1..Len(ts) : One(us, i, j) <=> One(ts, i, j)
  BY <1>1, SameBefore
<1>3. Span(us, s, e, p.nest)
  BY <1>0, <1>1, <1>2 DEF Span, Extends
<1>4. \A k \in s..(e - 1) : k \in 1..Len(ts)
  BY <1>1
<1>5. \A a \in Ops(T, f.n) \cup Ops(T, f.r) : T[a].at \in 1..Len(ts)
  <2>1. \A a \in Ops(T, f.n) \cup Ops(T, f.r) : T[a].at \in s..(e - 1)
    BY DEF Fit, Good, Lies
  <2> QED BY <1>4, <2>1
<1>6. /\ Good(T, us, f.n, s, e, f.fn \in Tight) /\ Good(T, us, f.r, s, e, f.fn \in Tight)
      /\ "n" \in p.shut => Ended(T, us, f.n, e)
      /\ "r" \in p.shut => Ended(T, us, f.r, e)
  BY <1>1, GoodText DEF Fit
<1>7. f.fn # "level" => Separate(T, us, f.n, f.r)
  BY <1>2, <1>5 DEF Fit, Separate
<1>8. NodeFit(T, us, f, s, p)
  <2>1. ASSUME p.type = "unop"
        PROVE  T[f.n].at \in 1..Len(ts)
    <3>1. f.n \in DOMAIN T /\ T[f.n].type = "unop"
      BY <2>1 DEF Fit, NodeFit
    <3>2. f.n \in Part(T, f.n)
      BY <3>1, PartBasics
    <3>3. T[f.n].at \in s..(e - 1)
      BY <3>1, <3>2 DEF Fit, Good
    <3> QED BY <1>4, <3>3
  <2> QED BY <1>2, <2>1 DEF Fit, NodeFit
<1>9. LevelFit(T, us, f, s, e)
  <2>1. ASSUME NEW v, AtLeast(T, ts, f.n, s, v)
        PROVE  AtLeast(T, us, f.n, s, v)
    BY <1>2, <1>5, <2>1 DEF AtLeast
  <2>2. ASSUME NEW op, NEW v, Hinge(T, ts, f.n, f.r, s, e, op, v)
        PROVE  Hinge(T, us, f.n, f.r, s, e, op, v)
    <3>1. op \in s..(e - 1) /\ op \in 1..Len(ts)
      BY <1>4, <2>2 DEF Hinge
    <3> QED BY <1>2, <1>5, <2>2, <3>1 DEF Hinge
  <2>3. e <= Len(ts) => e <= Len(us) /\ us[e] = ts[e]
    BY <1>1, <1>2 DEF Extends
  <2> QED BY <2>1, <2>2, <2>3 DEF Fit, LevelFit
<1>10. UnaryFit(us, f, s, e)
  <2>1. s < e => Deep(us, s) = Deep(ts, s)
    BY <1>1, <1>2
  <2> QED BY <1>2, <2>1 DEF Fit, UnaryFit
<1> QED BY <1>3, <1>6, <1>7, <1>8, <1>9, <1>10 DEF Fit

\* Elsewhere in its function, nothing having been read or made.
LEMMA FitMoved ==
  ASSUME NEW T, NEW ts, NEW f, NEW s, NEW e, NEW p, Fit(T, ts, f, s, e, p),
         NEW g, g.fn = f.fn, g.n = f.n, g.r = f.r, g.op = f.op, g.level = f.level, g.pc \in Nat,
         NEW q \in Places, q.fn = p.fn, q.pc = g.pc, q.nest = p.nest, q.shut = p.shut, NodeFit(T, ts, g, s, q),
         f.fn = "level" => \/ f.pc \in {2, 8} /\ g.pc = 3
                           \/ f.pc = 3 /\ g.pc = 9
                           \/ f.pc = 3 /\ g.pc = 4 /\ e <= Len(ts) /\ ts[e] \in Levels[f.level]
                           \/ f.pc = 6 /\ g.pc = 7,
         f.fn = "unary" => (f.pc = 1 /\ g.pc = 2) \/ g.pc > 3
  PROVE  Fit(T, ts, g, s, e, q)
<1>1. LevelFit(T, ts, g, s, e)
  BY DEF Fit, LevelFit
<1>2. UnaryFit(ts, g, s, e)
  BY DEF Fit, UnaryFit
<1> QED BY <1>1, <1>2 DEF Fit

\* What a token does that is one of S, whatever it is.
Tells(p, S, t) ==
    /\ t # "eof"
    /\ t \in Opening <=> S \subseteq Opening
    /\ t \in Closing <=> S \subseteq Closing
    /\ S \subseteq Ending => t \in Ending
    /\ t \in Opening => p.shut = NR

\* A token is taken.
LEMMA FitOn ==
  ASSUME NEW T, NEW ts, NEW f, NEW s, NEW e, NEW p, Fit(T, ts, f, s, e, p), e <= Len(ts), Len(ts) \in Nat,
         NEW S, Tells(p, S, ts[e]), Ate(p, S) \in Places,
         NEW g, g.fn = f.fn, g.pc = f.pc + 1, g.n = f.n, g.r = f.r,
         LevelFit(T, ts, g, s, e + 1), UnaryFit(ts, g, s, e + 1)
  PROVE  Fit(T, ts, g, s, e + 1, Ate(p, S))
<1>1. PICK q \in Places : q = Ate(p, S)
  OBVIOUS
<1>2. /\ q.fn = p.fn /\ q.pc = p.pc + 1 /\ q.type = p.type
      /\ q.nest = (IF S \subseteq Opening THEN p.nest + 1 ELSE IF S \subseteq Closing THEN p.nest - 1 ELSE p.nest)
      /\ q.shut = (IF S \subseteq Ending THEN NR ELSE p.shut)
  <2>1. DOMAIN p = {"fn", "pc", "nest", "shut", "type", "see"}
    BY PlaceTyped DEF Fit
  <2> QED BY <1>1, <2>1 DEF Ate
<1>3. Span(ts, s, e, p.nest) /\ p.nest \in Nat
  BY PlaceTyped DEF Fit
<1>4. s \in Nat \ {0} /\ e \in Nat \ {0} /\ e + 1 \in Nat \ {0}
  BY <1>3 DEF Span
<1>5. Span(ts, s, e + 1, q.nest)
  <2>1. Steps(ts, e) /\ Nest(ts, s) \in Int
    BY <1>4, TextSteps DEF Steps
  <2>2. \A t \in Opening : t \notin Closing
    BY DEF Opening, Closing
  <2>3. Nest(ts, e + 1) = Nest(ts, s) + q.nest
    <3>1. /\ Nest(ts, e) \in Int /\ Nest(ts, e) = Nest(ts, s) + p.nest
          /\ Nest(ts, e + 1) = Nest(ts, e) + (IF ts[e] \in Opening THEN 1 ELSE 0)
                                 - (IF ts[e] \in Closing THEN 1 ELSE 0)
      <4>1. Nest(ts, e) = Nest(ts, s) + p.nest
        BY <1>3 DEF Span
      <4>2. /\ Nest(ts, e) \in Int /\ Deep(ts, e) \in Int
            /\ Deep(ts, e) = Nest(ts, e) + (IF ts[e] \in Opening THEN 1 ELSE 0)
            /\ Nest(ts, e + 1) = Deep(ts, e) - (IF ts[e] \in Closing THEN 1 ELSE 0)
        BY <2>1 DEF Steps
      <4> HIDE DEF Opening, Closing
      <4> QED BY <4>1, <4>2
    <3> QED BY <1>2, <1>3, <2>1, <2>2, <3>1 DEF Tells
  <2> QED BY <1>3, <1>4, <2>3 DEF Span
<1>6. ASSUME NEW x \in {f.n, f.r}, Good(T, ts, x, s, e, f.fn \in Tight), ts[e] \in Opening => Ended(T, ts, x, e)
      PROVE  /\ Good(T, ts, x, s, e + 1, f.fn \in Tight)
             /\ Ended(T, ts, x, e) \/ S \subseteq Ending => Ended(T, ts, x, e + 1)
  BY <1>4, <1>6, GoodOn DEF Tells
<1>7. ts[e] \in Opening => Ended(T, ts, f.n, e) /\ Ended(T, ts, f.r, e)
  BY DEF Fit, Tells, NR
<1>8. /\ Good(T, ts, g.n, s, e + 1, g.fn \in Tight) /\ Good(T, ts, g.r, s, e + 1, g.fn \in Tight)
      /\ "n" \in q.shut => Ended(T, ts, g.n, e + 1)
      /\ "r" \in q.shut => Ended(T, ts, g.r, e + 1)
  BY <1>2, <1>6, <1>7 DEF Fit
<1>9. NodeFit(T, ts, g, s, q) /\ (g.fn # "level" => Separate(T, ts, g.n, g.r))
  BY <1>2 DEF Fit, NodeFit
<1> QED BY <1>1, <1>2, <1>5, <1>8, <1>9 DEF Fit
-----------------------------------------------------------------------------
(***************************************************************************)
(* All activations                                                         *)
(***************************************************************************)
Fits(t, S) == t \in S \/ (S = {AnOperator} /\ t \in Signs)
\* The tokens from k on are those that are known to come.
Sees(ts, k, see) ==
    see # <<>> => /\ k \in 1..Len(ts) /\ Fits(ts[k], see[1])
                  /\ Tail(see) # <<>> => /\ k + 1 \in 1..Len(ts) /\ Fits(ts[k + 1], Tail(see)[1])
                                         /\ Tail(Tail(see)) = <<>>

\* What f called with the instruction i is h, or turned into it.
Answers(i, f, h) ==
    /\ i.name \notin Loose => h.fn \notin Loose
    /\ i.name \in Tight => h.fn \in Tight
    /\ i.name = "operand" => h.fn = "unary" \/ (h.fn = "level" /\ h.level = f.level + 1)

\* Activation k has read the tokens from g[k] up to g[k + 1], and is at p[k].
Parsed(g, p) ==
    /\ \A k \in 1..Size : Fit(nodes, tokens, stack[k], g[k], g[k + 1], p[k])
    /\ g[Size + 1] = pos
    /\ Sees(tokens, pos, p[Size].see)
    /\ \A k \in 1..(Size - 1) : Answers(InstrOf(p[k]), stack[k], stack[k + 1])
Reading == \E g, p : Parsed(g, p)

LEMMA TopReads ==
  ASSUME ParserInv, ~failed, stack # <<>>, NEW g, NEW p, Parsed(g, p), NEW q, q = p[Size], NEW s, s = g[Size]
  PROVE  /\ Fit(nodes, tokens, Top, s, pos, q) /\ q \in Places /\ Nested(q) /\ Leads(q) \subseteq Places
         /\ InstrOf(q) = Instr /\ q.fn = Top.fn /\ q.pc = Top.pc
         /\ Sees(tokens, pos, q.see) /\ Whole(nodes) /\ 0 \notin DOMAIN nodes
         /\ Span(tokens, s, pos, q.nest) /\ Len(tokens) \in Nat /\ Top \in Frame
<1>1. Size \in 1..Size /\ Top = stack[Size] /\ Top \in Frame
  BY TopTyped DEF ParserInv
<1>2. Fit(nodes, tokens, Top, s, pos, q) /\ Sees(tokens, pos, q.see)
  BY <1>1 DEF Parsed
<1>3. q \in Places /\ q.fn = Top.fn /\ q.pc = Top.pc /\ Span(tokens, s, pos, q.nest)
  BY <1>2 DEF Fit
<1>4. InstrOf(q) = Instr
  BY <1>3 DEF InstrOf, Instr
<1>5. Whole(nodes) /\ 0 \notin DOMAIN nodes /\ Len(tokens) \in Nat
  <2>1. Forest(Held, nodes) /\ DOMAIN nodes \subseteq 1..(fresh - 1)
    BY DEF ParserInv, Tree, Forest
  <2>2. Len(tokens) \in Nat
    BY DEF ParserInv, Input
  <2> QED BY <2>1, <2>2, ForestWhole
<1> QED BY <1>1, <1>2, <1>3, <1>4, <1>5, PlaceTyped

\* The innermost activation has moved on, or turned into another one.
LEMMA ReadingTurns ==
  ASSUME ParserInv, ~failed, stack # <<>>, NEW g, NEW p, Parsed(g, p),
         NEW h \in Frame, stack' = [stack EXCEPT ![Size] = h], tokens' = tokens,
         \A k \in 1..Size : k # Size => Alike(nodes, nodes', stack[k].n) /\ Alike(nodes, nodes', stack[k].r),
         \A i, f : Answers(i, f, Top) => Answers(i, f, h),
         NEW q, NEW s, s = g[Size], Fit(nodes', tokens, h, s, pos', q), Sees(tokens, pos', q.see)
  PROVE  Reading'
<1>1. PICK d \in Nat : d = Size /\ d \in 1..d /\ d > 0
  BY TopTyped DEF ParserInv
<1>2. /\ stack \in Seq(Frame) /\ Len(stack) = d /\ Size' = d /\ stack'[d] = h /\ Top = stack[d]
      /\ \A k \in 1..d : k # d => stack'[k] = stack[k]
  <2>1. stack \in Seq(Frame) /\ Len(stack) = d /\ Top = stack[d]
    BY <1>1, TopTyped DEF ParserInv, Activations, Size
  <2> QED BY <1>1, <2>1 DEF Size
<1>3. PICK e : e = pos'
  OBVIOUS
<1>4. PICK g2 : g2 = [k \in 1..(d + 1) |-> IF k = d + 1 THEN e ELSE g[k]]
  OBVIOUS
<1>5. PICK p2 : p2 = [k \in 1..d |-> IF k = d THEN q ELSE p[k]]
  OBVIOUS
<1>6. g2[d + 1] = e /\ g2[d] = s /\ p2[d] = q /\ d + 1 \in 1..(d + 1)
  BY <1>1, <1>4, <1>5
<1>7. \A k \in 1..d : k # d => g2[k] = g[k] /\ g2[k + 1] = g[k + 1] /\ p2[k] = p[k]
  BY <1>1, <1>4, <1>5
<1>8. ASSUME NEW k \in 1..d
      PROVE  Fit(nodes', tokens', stack'[k], g2[k], g2[k + 1], p2[k])
  <2>1. CASE k = d
    BY <1>2, <1>3, <1>6, <2>1
  <2>2. CASE k # d
    <3>1. Fit(nodes, tokens, stack[k], g[k], g[k + 1], p[k])
      BY <1>1 DEF Parsed
    <3>2. Whole(nodes)
      BY TopReads
    <3>3. Alike(nodes, nodes', stack[k].n) /\ Alike(nodes, nodes', stack[k].r)
      BY <1>1, <2>2
    <3>4. Fit(nodes', tokens, stack[k], g[k], g[k + 1], p[k])
      BY <3>1, <3>2, <3>3, FitSame
    <3> QED BY <1>2, <1>7, <2>2, <3>4
  <2> QED BY <2>1, <2>2
<1>9. ASSUME NEW k \in 1..(d - 1)
      PROVE  Answers(InstrOf(p2[k]), stack'[k], stack'[k + 1])
  <2>1. Answers(InstrOf(p[k]), stack[k], stack[k + 1])
    BY <1>1 DEF Parsed
  <2>2. k \in 1..d /\ k # d /\ k + 1 \in 1..d
    BY <1>1
  <2>3. p2[k] = p[k] /\ stack'[k] = stack[k]
    BY <1>2, <1>7, <2>2
  <2>4. CASE k + 1 = d
    BY <1>2, <2>1, <2>3, <2>4
  <2>5. CASE k + 1 # d
    BY <1>2, <2>1, <2>2, <2>3, <2>5
  <2> QED BY <2>4, <2>5
<1>10. Sees(tokens', pos', p2[d].see)
  BY <1>6
<1>11. Parsed(g2, p2)'
  BY <1>2, <1>3, <1>6, <1>8, <1>9, <1>10 DEF Parsed
<1> QED BY <1>11 DEF Reading

\* Nor has it made a node.
LEMMA ReadingMoves ==
  ASSUME ParserInv, ~failed, stack # <<>>, NEW g, NEW p, Parsed(g, p),
         NEW h \in Frame, stack' = [stack EXCEPT ![Size] = h], tokens' = tokens, nodes' = nodes,
         \A i, f : Answers(i, f, Top) => Answers(i, f, h),
         NEW q, NEW s, s = g[Size], Fit(nodes, tokens, h, s, pos', q), Sees(tokens, pos', q.see)
  PROVE  Reading'
<1>1. Whole(nodes) /\ 0 \notin DOMAIN nodes
  BY TopReads
<1>2. \A x \in DOMAIN nodes \cup {0} : Alike(nodes, nodes, x)
  <2>1. Alike(nodes, nodes, 0)
    BY <1>1, AlikeNone
  <2>2. \A x \in DOMAIN nodes : Alike(nodes, nodes, x)
    BY <1>1, PartBasics DEF Alike
  <2> QED BY <2>1, <2>2
<1>3. \A k \in 1..Size : stack[k].n \in DOMAIN nodes \cup {0} /\ stack[k].r \in DOMAIN nodes \cup {0}
  BY HeldLive
<1>4. \A k \in 1..Size : k # Size => Alike(nodes, nodes', stack[k].n) /\ Alike(nodes, nodes', stack[k].r)
  BY <1>2, <1>3
<1>5. Fit(nodes', tokens, h, s, pos', q)
  OBVIOUS
<1> QED BY <1>4, <1>5, ReadingTurns

LEMMA AnswersSame ==
  ASSUME NEW h, h.fn = Top.fn, h.level = Top.level
  PROVE  \A i, f : Answers(i, f, Top) => Answers(i, f, h)
BY DEF Answers

LEMMA EdibleTells ==
  ASSUME NEW p, NEW S, NEW t, Edible(p, S), Fits(t, S)
  PROVE  Tells(p, S, t)
<1>1. /\ \A c \in Opening : c \notin Ending
      /\ \A c \in Closing : c \notin Opening /\ c \in Ending
      /\ AnOperator \notin Opening /\ AnOperator \notin Ending /\ "eof" \notin Opening /\ "eof" \notin Ending
  BY DEF Opening, Closing, Ending, AnOperator
<1>2. CASE t \in S
  <2> HIDE DEF Opening, Closing, Ending
  <2> QED BY <1>1, <1>2 DEF Edible, Tells
<1>3. CASE S = {AnOperator} /\ t \in Signs
  <2>1. t \notin Opening /\ t \notin Ending /\ t # "eof"
    BY <1>3, ParserAssumption DEF Signs
  <2> QED BY <1>1, <1>3, <2>1 DEF Tells
<1> QED BY <1>2, <1>3 DEF Fits

\* What comes after the next token.
LEMMA SeesOn ==
  ASSUME NEW ts, NEW k \in Nat, NEW see, Sees(ts, k, see), see # <<>>
  PROVE  Sees(ts, k + 1, Tail(see))
BY DEF Sees

\* An instruction that takes a token.
LEMMA EatReads ==
  ASSUME ParserInv, ~failed, stack # <<>>, NEW g, NEW p, Parsed(g, p), ~Undecided,
         NEW h \in Frame, h.fn = Top.fn, h.level = Top.level, h.pc = Top.pc + 1, h.n = Top.n, h.r = Top.r,
         stack' = [stack EXCEPT ![Size] = h], UNCHANGED <<tokens, nodes>>, Eat,
         NEW S, NEW q, NEW s, q = p[Size], s = g[Size], Edible(q, S), Fits(Cur, S), Ate(q, S) \in Places,
         LevelFit(nodes, tokens, h, s, pos + 1), UnaryFit(tokens, h, s, pos + 1)
  PROVE  Reading'
<1>1. /\ Fit(nodes, tokens, Top, s, pos, q) /\ q \in Places /\ Sees(tokens, pos, q.see)
      /\ Len(tokens) \in Nat
  BY TopReads
<1>2. pos <= Len(tokens) /\ pos \in Nat
  BY Known, ParserAssumption DEF ParserInv, Input
<1>3. Tells(q, S, tokens[pos])
  BY EdibleTells DEF Cur
<1>4. pos' = pos + 1
  BY <1>3 DEF Tells, Eat, Cur
<1>5. Fit(nodes, tokens, h, s, pos + 1, Ate(q, S))
  BY <1>1, <1>2, <1>3, FitOn
<1>6. Sees(tokens, pos + 1, Ate(q, S).see)
  <2>1. DOMAIN q = {"fn", "pc", "nest", "shut", "type", "see"}
    BY <1>1, PlaceTyped
  <2>2. Ate(q, S).see = IF q.see = <<>> THEN <<>> ELSE Tail(q.see)
    BY <2>1 DEF Ate
  <2>3. CASE q.see = <<>>
    BY <2>2, <2>3 DEF Sees
  <2>4. CASE q.see # <<>>
    BY <1>1, <1>2, <2>2, <2>4, SeesOn
  <2> QED BY <2>3, <2>4
<1>7. \A i, f : Answers(i, f, Top) => Answers(i, f, h)
  BY AnswersSame
<1>8. Fit(nodes, tokens, h, s, pos', Ate(q, S)) /\ Sees(tokens, pos', Ate(q, S).see) /\ tokens' = tokens /\ nodes' = nodes
  BY <1>4, <1>5, <1>6
<1> QED BY <1>7, <1>8, ReadingMoves

LEMMA AdvanceReads ==
  ASSUME ParserInv, ~failed, Reading, DoAdvance
  PROVE  Reading'
<1>1. /\ stack # <<>> /\ ~Undecided /\ Instr.do = "advance" /\ UNCHANGED <<tokens, nodes>> /\ Eat
      /\ stack' = [stack EXCEPT ![Size] = [Past EXCEPT !.op = pos]]
  BY DEF DoAdvance, At, SetTop, SameTree, Size
<1>2. PICK g, p : Parsed(g, p)
  BY DEF Reading
<1>3. PICK q, s : q = p[Size] /\ s = g[Size]
  OBVIOUS
<1>4. /\ Fit(nodes, tokens, Top, s, pos, q) /\ q \in Places /\ Nested(q) /\ Leads(q) \subseteq Places
      /\ InstrOf(q) = Instr /\ q.fn = Top.fn /\ q.pc = Top.pc
      /\ Sees(tokens, pos, q.see) /\ 0 \notin DOMAIN nodes
      /\ Span(tokens, s, pos, q.nest) /\ Len(tokens) \in Nat /\ Top \in Frame
  BY <1>1, <1>2, <1>3, TopReads
<1>5. PICK S : S = q.see[1]
  OBVIOUS
<1>6. q.see # <<>> /\ Edible(q, S)
  BY <1>1, <1>4, <1>5 DEF Nested
<1>7. Fits(Cur, S)
  BY <1>4, <1>5, <1>6 DEF Sees, Cur
<1>8. Ate(q, S) \in Places
  BY <1>1, <1>4, <1>5 DEF Leads
<1>9. PICK h : h = [Past EXCEPT !.op = pos]
  OBVIOUS
<1>10. pos <= Len(tokens) /\ pos \in Nat \ {0} /\ s \in Nat \ {0} /\ s <= pos
  BY <1>1, <1>4, Known, ParserAssumption DEF ParserInv, Input, Span
<1>11. /\ h \in Frame /\ h.fn = Top.fn /\ h.pc = Top.pc + 1 /\ h.n = Top.n /\ h.r = Top.r
       /\ h.level = Top.level /\ h.op = pos
  BY <1>4, <1>9, <1>10, PastTyped DEF Frame
<1>12. Steps(tokens, pos)
  BY <1>10, TextSteps
<1>13. LevelFit(nodes, tokens, h, s, pos + 1)
  <2> SUFFICES ASSUME Top.fn = "level"
               PROVE  LevelFit(nodes, tokens, h, s, pos + 1)
    BY <1>11 DEF LevelFit
  <2>1. q.pc = 4 /\ q.nest = 0
    BY <1>1, <1>4, LevelPlace
  <2>2. /\ Top.level \in DOMAIN Levels /\ AtLeast(nodes, tokens, Top.n, s, Top.level)
        /\ tokens[pos] \in Levels[Top.level] /\ Top.r = 0
    BY <1>4, <2>1 DEF Fit, LevelFit
  <2>3. tokens[pos] \notin Opening
    BY <2>2, ParserAssumption
  <2>4. Deep(tokens, pos) = Nest(tokens, s)
    <3>1. Nest(tokens, pos) = Nest(tokens, s) + 0 /\ Nest(tokens, pos) \in Int
      BY <1>4, <1>12, <2>1 DEF Span, Steps
    <3>2. Deep(tokens, pos) = Nest(tokens, pos)
      BY <1>12, <2>3 DEF Steps
    <3>3. Nest(tokens, s) \in Int
      BY <1>10, TextSteps DEF Steps
    <3> QED BY <3>1, <3>2, <3>3
  <2>5. \A c \in Ops(nodes, Top.n) : nodes[c].at < pos
    <3>1. \A c \in Ops(nodes, Top.n) : nodes[c].at \in s..(pos - 1)
      BY <1>4 DEF Fit, Good, Lies
    <3> QED BY <1>10, <3>1
  <2>6. Ops(nodes, Top.r) = {}
    BY <1>4, <2>2, OpsNone
  <2>7. pos \in s..((pos + 1) - 1)
    BY <1>10
  <2>8. Hinge(nodes, tokens, h.n, h.r, s, pos + 1, h.op, h.level)
    BY <1>11, <2>2, <2>4, <2>5, <2>6, <2>7 DEF Hinge
  <2> QED BY <1>4, <1>11, <2>1, <2>2, <2>8 DEF LevelFit
<1>14. UnaryFit(tokens, h, s, pos + 1)
  <2> SUFFICES ASSUME Top.fn = "unary"
               PROVE  UnaryFit(tokens, h, s, pos + 1)
    BY <1>11 DEF UnaryFit
  <2>1. q.pc = 2 /\ S \cap Opening = {}
    BY <1>1, <1>4, <1>5 DEF Nested
  <2>2. pos = s
    BY <1>4, <2>1 DEF Fit, UnaryFit
  <2>3. tokens[pos] \notin Opening
    <3>1. CASE Cur \in S
      BY <2>1, <3>1 DEF Cur
    <3>2. CASE Cur \in Signs
      BY <3>2, ParserAssumption DEF Cur, Signs
    <3> QED BY <1>7, <3>1, <3>2 DEF Fits
  <2>4. Deep(tokens, s) = Nest(tokens, s)
    BY <1>12, <2>2, <2>3 DEF Steps
  <2> QED BY <1>4, <1>10, <1>11, <2>1, <2>2, <2>4 DEF UnaryFit
<1> QED BY <1>1, <1>2, <1>3, <1>6, <1>7, <1>8, <1>9, <1>11, <1>13, <1>14, EatReads

LEMMA ExpectReads ==
  ASSUME ParserInv, Reading, DoExpect, ~failed, ~failed'
  PROVE  Reading'
<1>1. /\ stack # <<>> /\ ~Undecided /\ Instr.do = "expect" /\ UNCHANGED <<tokens, nodes>> /\ Eat
      /\ Cur \in Instr.toks /\ stack' = [stack EXCEPT ![Size] = Past]
  BY DEF DoExpect, At, SetTop, SameTree, Size, ParseFail
<1>2. PICK g, p : Parsed(g, p)
  BY DEF Reading
<1>3. PICK q, s : q = p[Size] /\ s = g[Size]
  OBVIOUS
<1>4. /\ Fit(nodes, tokens, Top, s, pos, q) /\ q \in Places /\ Nested(q) /\ Leads(q) \subseteq Places
      /\ InstrOf(q) = Instr /\ q.fn = Top.fn /\ q.pc = Top.pc /\ Top \in Frame
  BY <1>1, <1>2, <1>3, TopReads
<1>5. PICK S : S = Instr.toks
  OBVIOUS
<1>6. Edible(q, S) /\ Fits(Cur, S)
  BY <1>1, <1>4, <1>5 DEF Nested, Fits
<1>7. Ate(q, S) \in Places
  BY <1>1, <1>4, <1>5 DEF Leads
<1>8. PICK h : h = Past
  OBVIOUS
<1>9. /\ h \in Frame /\ h.fn = Top.fn /\ h.pc = Top.pc + 1 /\ h.n = Top.n /\ h.r = Top.r
      /\ h.level = Top.level
  BY <1>4, <1>8, PastTyped DEF Frame
<1>10. Top.fn # "level" /\ Top.fn # "unary"
  <2>1. Top.fn # "level"
    BY <1>1, <1>4, LevelPlace
  <2>2. Top.fn # "unary"
    BY <1>1, <1>4 DEF Nested
  <2> QED BY <2>1, <2>2
<1>11. LevelFit(nodes, tokens, h, s, pos + 1) /\ UnaryFit(tokens, h, s, pos + 1)
  BY <1>9, <1>10 DEF LevelFit, UnaryFit
<1> QED BY <1>1, <1>2, <1>3, <1>6, <1>7, <1>8, <1>9, <1>11, EatReads

\* The next place in a function, from each of those that matter.
LEMMA Sums ==
  /\ \A x : /\ x = 1 => x + 1 = 2
            /\ x = 2 => x + 1 = 3
            /\ x = 3 => x + 1 = 4
            /\ x = 5 => x + 1 = 6
            /\ x = 6 => x + 1 = 7
            /\ x = 7 => x + 1 = 8
  /\ \A x, k : /\ x = 3 /\ k = 5 => x + 1 + k = 9
               /\ x = 8 /\ k = -6 => x + 1 + k = 3
               /\ x = 1 /\ k \in Nat \ {0, 1} => x + 1 + k > 3
  /\ \A x \in Nat : x > 3 => x + 1 > 3
OBVIOUS

\* Where an activation f of parse_at_level or parse_unary may go without
\* taking a token, when tokens[k] is the next one: on to pc.
Goes(f, pc, ts, k) ==
    /\ f.fn = "level" => \/ f.pc \in {2, 8} /\ pc = 3
                         \/ f.pc = 3 /\ pc = 9
                         \/ f.pc = 3 /\ pc = 4 /\ k <= Len(ts) /\ ts[k] \in Levels[f.level]
                         \/ f.pc = 6 /\ pc = 7
    /\ f.fn = "unary" => (f.pc = 1 /\ pc = 2) \/ pc > 3

\* An instruction that only goes elsewhere in its function.
LEMMA MoveReads ==
  ASSUME ParserInv, ~failed, stack # <<>>, NEW g, NEW p, Parsed(g, p), UNCHANGED <<tokens, nodes, pos>>,
         NEW q \in Places, stack' = [stack EXCEPT ![Size] = [Top EXCEPT !.pc = q.pc]],
         NEW q0, NEW s, q0 = p[Size], s = g[Size], q.fn = q0.fn, q.nest = q0.nest, q.shut = q0.shut,
         NodeFit(nodes, tokens, Top, s, q), Sees(tokens, pos, q.see), Goes(Top, q.pc, tokens, pos)
  PROVE  Reading'
<1>1. Fit(nodes, tokens, Top, s, pos, q0) /\ q0 \in Places /\ Top \in Frame
  BY TopReads
<1>2. PICK h : h = [Top EXCEPT !.pc = q.pc]
  OBVIOUS
<1>3. q.pc \in Nat
  BY PlaceTyped
<1>4. /\ h \in Frame /\ h.fn = Top.fn /\ h.pc = q.pc /\ h.n = Top.n /\ h.r = Top.r
      /\ h.op = Top.op /\ h.level = Top.level
  BY <1>1, <1>2, <1>3 DEF Frame
<1>5. NodeFit(nodes, tokens, h, s, q)
  BY <1>4 DEF NodeFit
<1>6. Fit(nodes, tokens, h, s, pos, q)
  BY <1>1, <1>3, <1>4, <1>5, FitMoved DEF Goes
<1>7. \A i, f : Answers(i, f, Top) => Answers(i, f, h)
  BY <1>4, AnswersSame
<1>8. Fit(nodes, tokens, h, s, pos', q) /\ Sees(tokens, pos', q.see) /\ tokens' = tokens /\ nodes' = nodes
  BY <1>6
<1> QED BY <1>2, <1>4, <1>7, <1>8, ReadingMoves

\* What a look at the next token tells.
LEMMA SeesMore ==
  ASSUME NEW ts, NEW k, NEW q, Sees(ts, k, q.see), k \in 1..Len(ts), NEW S,
         q.see = <<>> \/ q.see[1] # {AnOperator}
  PROVE  /\ ts[k] \in S => Sees(ts, k, Seen(q, S))
         /\ ts[k] \notin S => Sees(ts, k, Ruled(q, S))
<1>1. \A X : <<X>> # <<>> /\ <<X>>[1] = X /\ Tail(<<X>>) = <<>>
  OBVIOUS
<1>2. \A X : ts[k] \in X => Sees(ts, k, <<X>>)
  BY <1>1 DEF Sees, Fits
<1>3. q.see # <<>> => ts[k] \in q.see[1]
  BY DEF Sees, Fits
<1>4. ts[k] \in S => Sees(ts, k, Seen(q, S))
  BY <1>2, <1>3 DEF Seen
<1>5. ts[k] \notin S => Sees(ts, k, Ruled(q, S))
  <2>1. CASE q.see = <<>>
    BY <2>1 DEF Ruled, Sees
  <2>2. CASE q.see # <<>>
    BY <1>2, <1>3, <2>2 DEF Ruled
  <2> QED BY <2>1, <2>2
<1> QED BY <1>4, <1>5

LEMMA UnlessReads ==
  ASSUME ParserInv, ~failed, Reading, DoUnless
  PROVE  Reading'
<1>1. /\ stack # <<>> /\ ~Undecided /\ Instr.do = "unless" /\ UNCHANGED <<tokens, nodes, pos>>
      /\ stack' = [stack EXCEPT ![Size] =
                    [Past EXCEPT !.pc = @ + (IF Holds(Instr.name, Instr.toks) THEN 0 ELSE Instr.skip)]]
  BY DEF DoUnless, At, SetTop, SameInput, SameTree, Size
<1>2. PICK g, p : Parsed(g, p)
  BY DEF Reading
<1>3. PICK q, s : q = p[Size] /\ s = g[Size]
  OBVIOUS
<1>4. /\ Fit(nodes, tokens, Top, s, pos, q) /\ q \in Places /\ Nested(q) /\ Leads(q) \subseteq Places
      /\ InstrOf(q) = Instr /\ q.fn = Top.fn /\ q.pc = Top.pc /\ Top \in Frame
      /\ Sees(tokens, pos, q.see) /\ Len(tokens) \in Nat
  BY <1>1, <1>2, <1>3, TopReads
<1>5. pos \in 1..Len(tokens)
  BY <1>1, <1>4, Known, ParserAssumption DEF ParserInv, Input
<1>6. /\ q.see = <<>> \/ q.see[1] # {AnOperator}
      /\ Instr.name = "at level" => Top.fn = "level"
      /\ Top.fn = "level" => q.pc = 3 /\ Instr.name = "at level" /\ Instr.skip = 5
      /\ Top.fn = "unary" => q.pc = 1 /\ Instr.skip \in Nat \ {0, 1}
  <2>1. /\ q.see = <<>> \/ q.see[1] # {AnOperator}
        /\ Instr.name = "at level" => Top.fn = "level"
    BY <1>1, <1>4 DEF Nested
  <2>2. Top.fn = "unary" => q.pc = 1 /\ Instr.skip \in Nat \ {0, 1}
    BY <1>1, <1>4 DEF Nested
  <2>3. Top.fn = "level" => q.pc = 3 /\ Instr.name = "at level" /\ Instr.skip = 5
    BY <1>1, <1>4, LevelPlace
  <2> QED BY <2>1, <2>2, <2>3
<1>0. \A S : /\ Cur \in S => Sees(tokens, pos, Seen(q, S))
             /\ Cur \notin S => Sees(tokens, pos, Ruled(q, S))
  <2>1. Sees(tokens, pos, q.see) /\ (q.see = <<>> \/ q.see[1] # {AnOperator})
    BY <1>4, <1>6
  <2> QED BY <1>5, <2>1, SeesMore DEF Cur
<1>7. /\ Entered(q) \in Places /\ Skipped(q) \in Places
      /\ DOMAIN q = {"fn", "pc", "nest", "shut", "type", "see"}
  BY <1>1, <1>4, PlaceTyped DEF Leads
<1>8. NodeFit(nodes, tokens, Top, s, q)
  BY <1>4 DEF Fit
<1>9. \A X : <<X>> # <<>> /\ <<X>>[1] = X /\ Tail(<<X>>) = <<>>
  OBVIOUS
<1>10. \A X : Cur \in X => Sees(tokens, pos, <<X>>)
  BY <1>5, <1>9 DEF Sees, Fits, Cur
<1>11. CASE Holds(Instr.name, Instr.toks)
  <2>1. PICK e : e = Entered(q)
    OBVIOUS
  <2>2. /\ e \in Places /\ e.fn = q.fn /\ e.pc = q.pc + 1 /\ e.nest = q.nest /\ e.shut = q.shut
        /\ e.type = IF Instr.name = "indexed" THEN "index" ELSE q.type
    BY <1>4, <1>7, <2>1 DEF Entered
  <2>3. e.see = CASE Instr.name = "check"      -> Seen(q, Instr.toks)
                  [] Instr.name = "no check"   -> Ruled(q, Instr.toks)
                  [] Instr.name = "assignable" -> <<{"id"}, {"="}>>
                  [] Instr.name = "indexed"    -> <<{"="}>>
                  [] Instr.name = "at level"   -> <<{AnOperator}>>
                  [] OTHER                 -> q.see
    BY <1>4, <1>7, <2>1 DEF Entered
  <2>4. Sees(tokens, pos, e.see)
    <3>1. CASE Instr.name = "check"
      <4>1. e.see = Seen(q, Instr.toks) /\ Cur \in Instr.toks
        BY <1>11, <2>3, <3>1 DEF Holds
      <4> QED BY <1>0, <4>1
    <3>2. CASE Instr.name = "no check"
      <4>1. e.see = Ruled(q, Instr.toks) /\ Cur \notin Instr.toks
        BY <1>11, <2>3, <3>2 DEF Holds
      <4> QED BY <1>0, <4>1
    <3>3. CASE Instr.name = "assignable"
      <4>1. e.see = <<{"id"}, {"="}>> /\ Cur = "id" /\ tokens[pos + 1] = "="
        BY <1>11, <2>3, <3>3 DEF Holds
      <4>2. pos + 1 \in 1..Len(tokens)
        BY <1>1, <1>4, <1>5, <3>3, <4>1 DEF Undecided
      <4>3. /\ e.see[1] = {"id"} /\ Tail(e.see) = <<{"="}>> /\ Tail(e.see)[1] = {"="}
            /\ Tail(Tail(e.see)) = <<>>
        BY <4>1
      <4> QED BY <1>5, <4>1, <4>2, <4>3 DEF Sees, Fits, Cur
    <3>4. CASE Instr.name = "indexed"
      <4>1. e.see = <<{"="}>> /\ Cur \in {"="}
        BY <1>11, <2>3, <3>4 DEF Holds
      <4> QED BY <1>10, <4>1
    <3>5. CASE Instr.name = "at level"
      <4>1. e.see = <<{AnOperator}>> /\ Cur \in Levels[Top.level]
        BY <1>11, <2>3, <3>5 DEF Holds, AtLevel
      <4>2. Top.level \in DOMAIN Levels
        BY <1>4, <1>6, <3>5 DEF Fit, LevelFit
      <4>3. Fits(Cur, {AnOperator})
        BY <4>1, <4>2 DEF Fits, Signs
      <4> QED BY <1>5, <1>9, <4>1, <4>3 DEF Sees, Cur
    <3>6. CASE Instr.name \notin {"check", "no check", "assignable", "indexed", "at level"}
      BY <1>4, <2>3, <3>6
    <3> QED BY <3>1, <3>2, <3>3, <3>4, <3>5, <3>6
  <2>5. NodeFit(nodes, tokens, Top, s, e)
    <3>1. CASE Instr.name = "indexed"
      <4>1. Top.n # 0 /\ nodes[Top.n].type = "index"
        BY <1>11, <3>1 DEF Holds
      <4> QED BY <2>2, <3>1, <4>1 DEF NodeFit
    <3>2. CASE Instr.name # "indexed"
      BY <1>8, <2>2, <3>2 DEF NodeFit
    <3> QED BY <3>1, <3>2
  <2>6. Top.fn = "level" => Top.pc = 3 /\ e.pc = 4 /\ pos <= Len(tokens) /\ tokens[pos] \in Levels[Top.level]
    <3>1. Top.fn = "level" => Cur \in Levels[Top.level]
      BY <1>6, <1>11 DEF Holds, AtLevel
    <3>2. ASSUME Top.fn = "level"
          PROVE  q.pc = 3 /\ Top.pc = 3
      BY <1>4, <1>6, <3>2
    <3>3. q.pc = 3 => e.pc = 4
      BY <2>2, Sums
    <3> QED BY <1>5, <3>1, <3>2, <3>3 DEF Cur
  <2>7. Top.fn = "unary" => Top.pc = 1 /\ e.pc = 2
    BY <1>4, <1>6, <2>2, Sums
  <2>8. stack' = [stack EXCEPT ![Size] = [Top EXCEPT !.pc = e.pc]]
    <3>1. [Past EXCEPT !.pc = @ + 0] = [Top EXCEPT !.pc = e.pc]
      <4>1. e.pc = Top.pc + 1 /\ e.pc + 0 = e.pc
        <5>1. e.pc = Top.pc + 1 /\ Top.pc \in Nat
          BY <1>4, <2>2 DEF Frame
        <5> QED BY <5>1
      <4> QED BY <1>4, <4>1 DEF Past, Frame
    <3> QED BY <1>1, <1>11, <3>1
  <2>9. e \in Places /\ e.fn = q.fn /\ e.nest = q.nest /\ e.shut = q.shut /\ UNCHANGED <<tokens, nodes, pos>> /\ stack # <<>>
    BY <1>1, <2>2
  <2>10. Goes(Top, e.pc, tokens, pos)
    BY <2>6, <2>7 DEF Goes
  <2> QED BY <1>2, <1>3, <2>4, <2>5, <2>8, <2>9, <2>10, MoveReads
<1>12. CASE ~Holds(Instr.name, Instr.toks)
  <2>1. PICK e : e = Skipped(q)
    OBVIOUS
  <2>2. /\ e \in Places /\ e.fn = q.fn /\ e.pc = q.pc + 1 + Instr.skip /\ e.nest = q.nest /\ e.shut = q.shut
        /\ e.type = q.type
    BY <1>4, <1>7, <2>1 DEF Skipped
  <2>3. e.see = CASE Instr.name = "check"    -> Ruled(q, Instr.toks)
                  [] Instr.name = "no check" -> Seen(q, Instr.toks)
                  [] OTHER               -> q.see
    BY <1>4, <1>7, <2>1 DEF Skipped
  <2>4. Sees(tokens, pos, e.see)
    <3>1. CASE Instr.name = "check"
      <4>1. e.see = Ruled(q, Instr.toks) /\ Cur \notin Instr.toks
        BY <1>12, <2>3, <3>1 DEF Holds
      <4> QED BY <1>0, <4>1
    <3>2. CASE Instr.name = "no check"
      <4>1. e.see = Seen(q, Instr.toks) /\ Cur \in Instr.toks
        BY <1>12, <2>3, <3>2 DEF Holds
      <4> QED BY <1>0, <4>1
    <3>3. CASE Instr.name \notin {"check", "no check"}
      BY <1>4, <2>3, <3>3
    <3> QED BY <3>1, <3>2, <3>3
  <2>5. NodeFit(nodes, tokens, Top, s, e)
    BY <1>8, <2>2 DEF NodeFit
  <2>6. Top.fn = "level" => Top.pc = 3 /\ e.pc = 9
    <3>1. ASSUME Top.fn = "level"
          PROVE  q.pc = 3 /\ Top.pc = 3 /\ Instr.skip = 5
      BY <1>4, <1>6, <3>1
    <3>2. q.pc = 3 /\ Instr.skip = 5 => e.pc = 9
      BY <2>2, Sums
    <3> QED BY <3>1, <3>2
  <2>7. Top.fn = "unary" => e.pc > 3
    <3>1. Top.fn = "unary" => q.pc = 1 /\ Instr.skip \in Nat \ {0, 1}
      BY <1>6
    <3>2. q.pc = 1 /\ Instr.skip \in Nat \ {0, 1} => e.pc > 3
      BY <2>2, Sums
    <3> QED BY <3>1, <3>2
  <2>8. stack' = [stack EXCEPT ![Size] = [Top EXCEPT !.pc = e.pc]]
    <3>1. [Past EXCEPT !.pc = @ + Instr.skip] = [Top EXCEPT !.pc = e.pc]
      BY <1>4, <2>2 DEF Past, Frame
    <3> QED BY <1>1, <1>12, <3>1
  <2>9. e \in Places /\ e.fn = q.fn /\ e.nest = q.nest /\ e.shut = q.shut /\ UNCHANGED <<tokens, nodes, pos>> /\ stack # <<>>
    BY <1>1, <2>2
  <2>10. Goes(Top, e.pc, tokens, pos)
    BY <2>6, <2>7 DEF Goes
  <2> QED BY <1>2, <1>3, <2>4, <2>5, <2>8, <2>9, <2>10, MoveReads
<1> QED BY <1>11, <1>12

LEMMA JumpReads ==
  ASSUME ParserInv, ~failed, Reading, DoJump
  PROVE  Reading'
<1>1. /\ stack # <<>> /\ Instr.do = "jump" /\ UNCHANGED <<tokens, nodes, pos>>
      /\ stack' = [stack EXCEPT ![Size] = [Past EXCEPT !.pc = @ + Instr.skip]]
  BY DEF DoJump, At, SetTop, SameInput, SameTree, Size
<1>2. PICK g, p : Parsed(g, p)
  BY DEF Reading
<1>3. PICK q, s : q = p[Size] /\ s = g[Size]
  OBVIOUS
<1>4. /\ Fit(nodes, tokens, Top, s, pos, q) /\ q \in Places /\ Nested(q) /\ Leads(q) \subseteq Places
      /\ InstrOf(q) = Instr /\ q.fn = Top.fn /\ q.pc = Top.pc /\ Top \in Frame
      /\ Sees(tokens, pos, q.see)
  BY <1>1, <1>2, <1>3, TopReads
<1>5. PICK e : e = [q EXCEPT !.pc = @ + 1 + Instr.skip]
  OBVIOUS
<1>6. e \in Places
  BY <1>1, <1>4, <1>5 DEF Leads
<1>7. /\ e.fn = q.fn /\ e.pc = q.pc + 1 + Instr.skip /\ e.nest = q.nest /\ e.shut = q.shut
      /\ e.type = q.type /\ e.see = q.see
  BY <1>4, <1>5, PlaceTyped
<1>8. NodeFit(nodes, tokens, Top, s, e) /\ Sees(tokens, pos, e.see)
  BY <1>4, <1>7 DEF Fit, NodeFit
<1>9. Top.fn = "level" => Top.pc = 8 /\ e.pc = 3
  <2>1. ASSUME Top.fn = "level"
        PROVE  q.pc = 8 /\ Top.pc = 8 /\ Instr.skip = -6
    BY <1>1, <1>4, <2>1, LevelPlace
  <2>2. q.pc = 8 /\ Instr.skip = -6 => e.pc = 3
    BY <1>7, Sums
  <2> QED BY <2>1, <2>2
<1>10. Top.fn # "unary"
  BY <1>1, <1>4 DEF Nested
<1>11. stack' = [stack EXCEPT ![Size] = [Top EXCEPT !.pc = e.pc]]
  <2>1. [Past EXCEPT !.pc = @ + Instr.skip] = [Top EXCEPT !.pc = e.pc]
    BY <1>4, <1>7 DEF Past, Frame
  <2> QED BY <1>1, <2>1
<1>12. e.fn = q.fn /\ e.nest = q.nest /\ e.shut = q.shut /\ UNCHANGED <<tokens, nodes, pos>>
  BY <1>1, <1>7
<1>13. Goes(Top, e.pc, tokens, pos)
  BY <1>9, <1>10 DEF Goes
<1>14. stack # <<>>
  BY <1>1
<1> QED BY <1>2, <1>3, <1>6, <1>8, <1>11, <1>12, <1>13, <1>14, MoveReads

LEMMA BailReads ==
  ASSUME ParserInv, Reading, DoBail, ~failed
  PROVE  Reading'
<1>1. /\ stack # <<>> /\ Instr.do = "bail" /\ UNCHANGED <<tokens, nodes, pos>>
      /\ stack' = [stack EXCEPT ![Size] = Past]
  BY DEF DoBail, At, SetTop, SameInput, SameTree, Size
<1>2. PICK g, p : Parsed(g, p)
  BY DEF Reading
<1>3. PICK q, s : q = p[Size] /\ s = g[Size]
  OBVIOUS
<1>4. /\ Fit(nodes, tokens, Top, s, pos, q) /\ q \in Places /\ Nested(q) /\ Leads(q) \subseteq Places
      /\ InstrOf(q) = Instr /\ q.fn = Top.fn /\ q.pc = Top.pc /\ Top \in Frame
      /\ Sees(tokens, pos, q.see)
  BY <1>1, <1>2, <1>3, TopReads
<1>5. PICK e : e = Onward(q)
  OBVIOUS
<1>6. e \in Places
  BY <1>1, <1>4, <1>5 DEF Leads
<1>7. /\ e.fn = q.fn /\ e.pc = q.pc + 1 /\ e.nest = q.nest /\ e.shut = q.shut
      /\ e.type = q.type /\ e.see = q.see
  BY <1>4, <1>5, PlaceTyped DEF Onward
<1>8. NodeFit(nodes, tokens, Top, s, e) /\ Sees(tokens, pos, e.see)
  BY <1>4, <1>7 DEF Fit, NodeFit
<1>9. Top.fn = "level" => (Top.pc = 2 /\ e.pc = 3) \/ (Top.pc = 6 /\ e.pc = 7)
  <2>1. ASSUME Top.fn = "level"
        PROVE  q.pc \in {2, 6} /\ Top.pc = q.pc
    BY <1>1, <1>4, <2>1, LevelPlace
  <2>2. (q.pc = 2 => e.pc = 3) /\ (q.pc = 6 => e.pc = 7)
    BY <1>7, Sums
  <2> QED BY <2>1, <2>2
<1>10. Top.fn = "unary" => e.pc > 3
  <2>1. Top.fn = "unary" => q.pc > 3
    BY <1>1, <1>4 DEF Nested
  <2> QED BY <1>4, <1>7, <2>1, PlaceTyped, Sums
<1>11. stack' = [stack EXCEPT ![Size] = [Top EXCEPT !.pc = e.pc]]
  <2>1. Past = [Top EXCEPT !.pc = e.pc]
    BY <1>4, <1>7 DEF Past, Frame
  <2> QED BY <1>1, <2>1
<1>12. e.fn = q.fn /\ e.nest = q.nest /\ e.shut = q.shut /\ UNCHANGED <<tokens, nodes, pos>>
  BY <1>1, <1>7
<1>13. Goes(Top, e.pc, tokens, pos)
  BY <1>9, <1>10 DEF Goes
<1>14. stack # <<>>
  BY <1>1
<1> QED BY <1>2, <1>3, <1>6, <1>8, <1>11, <1>12, <1>13, <1>14, MoveReads

\* An activation that starts behind the tokens from s up to e.
LEMMA FitFresh ==
  ASSUME NEW T, 0 \notin DOMAIN T, NEW ts, NEW h, h.n = 0, h.r = 0, h.pc = 1,
         NEW s, NEW e, Span(ts, s, e, 0), NEW see, Entry(h.fn, see) \in Places,
         h.fn = "unary" => e = s, h.fn = "level" => h.level \in DOMAIN Levels
  PROVE  Fit(T, ts, h, s, e, Entry(h.fn, see))
<1>1. PICK q \in Places : q = Entry(h.fn, see)
  OBVIOUS
<1>2. q.fn = h.fn /\ q.pc = 1 /\ q.nest = 0 /\ q.type = "unknown"
  BY <1>1 DEF Entry
<1>3. Part(T, 0) = {} /\ Ops(T, 0) = {}
  BY OpsNone
<1>4. Good(T, ts, 0, s, e, h.fn \in Tight) /\ Ended(T, ts, 0, e)
  <2>1. \A tight \in BOOLEAN : Good(T, ts, 0, s, e, tight) /\ Ended(T, ts, 0, e)
    BY <1>3, GoodNone
  <2>2. (h.fn \in Tight) \in BOOLEAN
    OBVIOUS
  <2> HIDE DEF Tight
  <2> QED BY <2>1, <2>2
<1>5. Separate(T, ts, h.n, h.r) /\ NodeFit(T, ts, h, s, q)
  BY <1>2, <1>3 DEF Separate, NodeFit
<1>6. LevelFit(T, ts, h, s, e) /\ UnaryFit(ts, h, s, e)
  BY <1>3 DEF LevelFit, UnaryFit, AtLeast
<1> QED BY <1>1, <1>2, <1>4, <1>5, <1>6 DEF Fit

LEMMA Kinds ==
  ASSUME NEW f \in {"stmt", "primary"}, NEW t, NEW c, c = Chosen(f, t)
  PROVE  /\ c \notin Loose /\ c # "unary" /\ (f = "primary" => c \in Tight)
         /\ c \notin Default => t \in Heads
<1>1. CASE f = "stmt"
  BY <1>1 DEF Chosen, Loose, Default, Heads
<1>2. CASE f = "primary"
  BY <1>2 DEF Chosen, Loose, Default, Heads, Tight
<1> QED BY <1>1, <1>2

LEMMA BranchReads ==
  ASSUME ParserInv, ~failed, Reading, DoBranch
  PROVE  Reading'
<1>1. PICK c, h : c = Chosen(Top.fn, Cur) /\ h = Activation(c, 0)
  OBVIOUS
<1>2. /\ stack # <<>> /\ ~Undecided /\ Instr.do = "branch" /\ stack' = [stack EXCEPT ![Size] = h]
      /\ UNCHANGED <<tokens, nodes, pos>>
  BY <1>1 DEF DoBranch, At, SetTop, SameInput, SameTree, Size
<1>3. PICK g, p : Parsed(g, p)
  BY DEF Reading
<1>4. PICK q, s : q = p[Size] /\ s = g[Size]
  OBVIOUS
<1>5. /\ q \in Places /\ Nested(q) /\ Leads(q) \subseteq Places
      /\ InstrOf(q) = Instr /\ q.fn = Top.fn /\ 0 \notin DOMAIN nodes
      /\ Span(tokens, s, pos, q.nest) /\ Len(tokens) \in Nat
  BY <1>2, <1>3, <1>4, TopReads
<1>6. q.nest = 0 /\ Top.fn \in {"stmt", "primary"}
  BY <1>2, <1>5 DEF Nested
<1>7. pos \in 1..Len(tokens)
  BY <1>2, <1>5, Known, ParserAssumption DEF ParserInv, Input
<1>8. PICK see : see = IF c \in Default THEN <<>> ELSE <<{t \in Heads : Chosen(Top.fn, t) = c}>>
  OBVIOUS
<1>9. Entry(c, see) \in Places
  <2>1. c \in Targets(q.fn)
    BY <1>1, <1>5, <1>6, ChosenIsTarget
  <2>2. Chose(q.fn, c) \in Leads(q)
    BY <1>2, <1>5, <2>1 DEF Leads
  <2>3. Chose(q.fn, c) = Entry(c, see)
    BY <1>5, <1>8 DEF Chose
  <2> QED BY <1>5, <2>2, <2>3
<1>10. h \in Frame /\ h.fn = c /\ h.pc = 1 /\ h.n = 0 /\ h.r = 0
  <2>1. c \in DOMAIN Code
    <3>1. Entry(c, see).fn \in DOMAIN Code
      BY <1>9, NestingAssumption
    <3> QED BY <3>1 DEF Entry
  <2> QED BY <1>1, <2>1 DEF Activation, Frame
<1>11. /\ c \notin Loose /\ c # "unary" /\ (Top.fn = "primary" => c \in Tight)
       /\ c \notin Default => Cur \in Heads
  BY <1>1, <1>6, Kinds
<1>12. Fit(nodes, tokens, h, s, pos, Entry(c, see))
  <2>1. h.fn # "unary" /\ h.fn # "level"
    BY <1>10, <1>11 DEF Loose
  <2>2. Span(tokens, s, pos, 0)
    BY <1>5, <1>6
  <2> QED BY <1>5, <1>9, <1>10, <2>1, <2>2, FitFresh
<1>13. Sees(tokens, pos, Entry(c, see).see)
  <2>1. Entry(c, see).see = see
    BY DEF Entry
  <2>2. CASE c \in Default
    BY <1>8, <2>1, <2>2 DEF Sees
  <2>3. CASE c \notin Default
    <3>1. see # <<>> /\ see[1] = {t \in Heads : Chosen(Top.fn, t) = c} /\ Tail(see) = <<>>
      BY <1>8, <2>3
    <3>2. Cur \in see[1]
      BY <1>1, <1>11, <2>3, <3>1
    <3> QED BY <1>7, <2>1, <3>1, <3>2 DEF Sees, Fits, Cur
  <2> QED BY <2>2, <2>3
<1>14. ASSUME NEW i, NEW f, Answers(i, f, Top)
       PROVE  Answers(i, f, h)
  <2>1. /\ i.name \in Tight => Top.fn \in Tight
        /\ i.name = "operand" => Top.fn = "unary" \/ Top.fn = "level"
    BY <1>14 DEF Answers
  <2>2. i.name # "operand" /\ (i.name \in Tight => c \in Tight)
    BY <1>6, <1>11, <2>1 DEF Tight
  <2> QED BY <1>10, <1>11, <2>2 DEF Answers
<1>15. Fit(nodes, tokens, h, s, pos', Entry(c, see)) /\ Sees(tokens, pos', Entry(c, see).see)
       /\ tokens' = tokens /\ nodes' = nodes
  BY <1>2, <1>12, <1>13
<1> QED BY <1>2, <1>3, <1>4, <1>10, <1>14, <1>15, ReadingMoves

\* Levels are tried from 0 up to the last one.
LEMMA LevelUp ==
  /\ 0 \in DOMAIN Levels
  /\ \A v \in DOMAIN Levels : v # LevelMax => v + 1 \in DOMAIN Levels
<1>1. PICK m \in Int : DOMAIN Levels = 0..m
  <2>1. Cardinality(DOMAIN Levels) \in Nat
    BY ParserAssumption, FS_CardinalityType
  <2>2. Cardinality(DOMAIN Levels) - 1 \in Int
    BY <2>1
  <2> QED BY <2>2, ParserAssumption
<1>2. 0 <= m
  BY <1>1, ParserAssumption
<1>3. LevelMax = m
  <2>1. LevelMax = CHOOSE x \in 0..m : \A y \in 0..m : x >= y
    BY <1>1 DEF LevelMax, Max
  <2>2. m \in 0..m /\ \A y \in 0..m : m >= y
    BY <1>2
  <2>3. LevelMax \in 0..m /\ \A y \in 0..m : LevelMax >= y
    BY <2>1, <2>2
  <2> QED BY <2>2, <2>3
<1> QED BY <1>1, <1>2, <1>3

LEMMA CallReads ==
  ASSUME ParserInv, Reading, DoCall, ~failed
  PROVE  Reading'
<1>1. PICK a : a = (IF Instr.name # "operand" THEN Activation(Instr.name, 0)
                    ELSE IF Top.level = LevelMax THEN Activation("unary", 0)
                    ELSE Activation("level", Top.level + 1))
  OBVIOUS
<1>2. /\ stack # <<>> /\ Instr.do = "call" /\ stack' = Append(stack, a)
      /\ UNCHANGED <<tokens, nodes, pos>>
  BY <1>1 DEF DoCall, At, SameInput, SameTree
<1>3. PICK g, p : Parsed(g, p)
  BY DEF Reading
<1>4. PICK q, s : q = p[Size] /\ s = g[Size]
  OBVIOUS
<1>5. /\ Fit(nodes, tokens, Top, s, pos, q) /\ Nested(q) /\ Leads(q) \subseteq Places
      /\ InstrOf(q) = Instr /\ q.fn = Top.fn /\ 0 \notin DOMAIN nodes
      /\ Span(tokens, s, pos, q.nest) /\ Top \in Frame
  BY <1>2, <1>3, <1>4, TopReads
<1>6. PICK c, v : a = Activation(c, v) /\ Start(c) \in Callees(Instr.name) /\ v \in Nat
                  /\ (c = "level" => v \in DOMAIN Levels)
                  /\ Answers(Instr, Top, a)
  <2>1. Instr.name = "operand" <=> Top.fn = "level"
    BY <1>2, <1>5 DEF Nested
  <2>2. Top.fn = "level" => Top.level \in DOMAIN Levels
    BY <1>5 DEF Fit, LevelFit
  <2>3. Top.level \in Nat
    BY <1>5 DEF Frame
  <2>4. CASE Instr.name # "operand"
    <3>1. a = Activation(Instr.name, 0)
      BY <1>1, <2>4
    <3>2. Start(Instr.name) \in Callees(Instr.name)
      BY <2>4 DEF Callees
    <3>3. a.fn = Instr.name
      BY <3>1 DEF Activation
    <3> QED BY <2>4, <3>1, <3>2, <3>3, LevelUp DEF Answers
  <2>5. CASE Instr.name = "operand" /\ Top.level = LevelMax
    <3>1. a = Activation("unary", 0)
      BY <1>1, <2>5
    <3>2. Start("unary") \in Callees(Instr.name)
      BY <2>5 DEF Callees
    <3>3. a.fn = "unary"
      BY <3>1 DEF Activation
    <3>4. Answers(Instr, Top, a)
      BY <2>5, <3>3 DEF Answers, Loose, Tight
    <3> QED BY <3>1, <3>2, <3>4
  <2>6. CASE Instr.name = "operand" /\ Top.level # LevelMax
    <3>1. a = Activation("level", Top.level + 1)
      BY <1>1, <2>6
    <3>2. Start("level") \in Callees(Instr.name)
      BY <2>6 DEF Callees
    <3>3. a.fn = "level" /\ a.level = Top.level + 1
      BY <3>1 DEF Activation
    <3>4. Answers(Instr, Top, a)
      BY <2>6, <3>3 DEF Answers, Loose, Tight
    <3>5. Top.level + 1 \in DOMAIN Levels /\ Top.level + 1 \in Nat
      BY <2>1, <2>2, <2>3, <2>6, LevelUp
    <3> QED BY <3>1, <3>2, <3>4, <3>5
  <2> QED BY <2>4, <2>5, <2>6
<1>7. a.fn = c /\ a.pc = 1 /\ a.n = 0 /\ a.r = 0 /\ a.level = v
  BY <1>6 DEF Activation
<1>8. Entry(a.fn, <<>>) \in Places
  <2>1. Start(c).fn = c
    BY DEF Start, Shape
  <2>2. Entry(c, <<>>) \in Leads(q)
    BY <1>2, <1>5, <1>6, <2>1 DEF Leads
  <2> QED BY <1>5, <1>7, <2>2
<1>9. Fit(nodes, tokens, a, pos, pos, Entry(a.fn, <<>>))
  <2>1. Span(tokens, pos, pos, 0)
    <3>1. pos \in Nat \ {0} /\ pos <= Len(tokens) + 1
      BY <1>5 DEF Span
    <3>2. Nest(tokens, pos) \in Int
      BY <3>1, TextSteps DEF Steps
    <3> QED BY <3>1, <3>2 DEF Span
  <2> QED BY <1>5, <1>6, <1>7, <1>8, <2>1, FitFresh
<1>10. PICK d \in Nat : d = Size /\ d \in 1..d /\ d > 0
  BY <1>2, TopTyped DEF ParserInv
<1>11. /\ Size' = d + 1 /\ stack'[d + 1] = a /\ Top = stack[d]
       /\ \A k \in 1..d : stack'[k] = stack[k]
  <2>1. stack \in Seq(Frame) /\ Len(stack) = d /\ Top = stack[d]
    BY <1>2, <1>10, TopTyped DEF ParserInv, Activations, Size
  <2> QED BY <1>2, <1>10, <2>1 DEF Size
<1>12. PICK e : e = pos
  OBVIOUS
<1>13. PICK g2 : g2 = [k \in 1..(d + 2) |-> IF k = d + 2 THEN e ELSE g[k]]
  OBVIOUS
<1>14. PICK p2 : p2 = [k \in 1..(d + 1) |-> IF k = d + 1 THEN Entry(a.fn, <<>>) ELSE p[k]]
  OBVIOUS
<1>15. g2[d + 2] = e /\ g2[d + 1] = g[d + 1] /\ p2[d + 1] = Entry(a.fn, <<>>)
  BY <1>10, <1>13, <1>14
<1>16. \A k \in 1..d : g2[k] = g[k] /\ g2[k + 1] = g[k + 1] /\ p2[k] = p[k] /\ k # d + 1
  BY <1>10, <1>13, <1>14
<1>17. g[d + 1] = e
  BY <1>3, <1>10, <1>12 DEF Parsed
<1>18. ASSUME NEW k \in 1..(d + 1)
       PROVE  Fit(nodes', tokens', stack'[k], g2[k], g2[k + 1], p2[k])
  <2>1. CASE k = d + 1
    <3>1. k + 1 = d + 2
      BY <1>10, <2>1
    <3> QED BY <1>2, <1>9, <1>11, <1>12, <1>15, <1>17, <2>1, <3>1
  <2>2. CASE k # d + 1
    <3>1. k \in 1..d
      BY <1>10, <2>2
    <3>2. Fit(nodes, tokens, stack[k], g[k], g[k + 1], p[k])
      BY <1>3, <1>10, <3>1 DEF Parsed
    <3> QED BY <1>2, <1>11, <1>16, <3>1, <3>2
  <2> QED BY <2>1, <2>2
<1>19. ASSUME NEW k \in 1..d
       PROVE  Answers(InstrOf(p2[k]), stack'[k], stack'[k + 1])
  <2>1. CASE k = d
    BY <1>4, <1>5, <1>6, <1>10, <1>11, <1>16, <2>1
  <2>2. CASE k # d
    <3>1. k \in 1..(d - 1) /\ k + 1 \in 1..d
      BY <1>10, <2>2
    <3>2. Answers(InstrOf(p[k]), stack[k], stack[k + 1])
      BY <1>3, <1>10, <3>1 DEF Parsed
    <3> QED BY <1>11, <1>16, <3>1, <3>2
  <2> QED BY <2>1, <2>2
<1>20. Sees(tokens', pos', p2[d + 1].see)
  <2>1. p2[d + 1].see = <<>>
    <3>1. \A x : Entry(x, <<>>).see = <<>>
      BY DEF Entry
    <3> QED BY <1>15, <3>1
  <2> QED BY <2>1 DEF Sees
<1>21. Parsed(g2, p2)'
  <2>1. (d + 1) + 1 = d + 2 /\ (d + 1) - 1 = d
    BY <1>10
  <2>2. pos' = e
    BY <1>2, <1>12
  <2> QED BY <1>11, <1>15, <1>18, <1>19, <1>20, <2>1, <2>2 DEF Parsed
<1> QED BY <1>21 DEF Reading

\* A node has been made.
LEMMA MadeReads ==
  ASSUME ParserInv, ParserInv', ~failed, stack # <<>>, NEW g, NEW p, Parsed(g, p), Instr.do \in {"new", "reseat"},
         tokens' = tokens, NEW ks, NEW gone, Make(ks, gone), NEW q, NEW s, q = p[Size], s = g[Size],
         \A y \in DOMAIN nodes \ {Top.n, Top.r} : Alike(nodes, nodes', y),
         Good(nodes', tokens, fresh, s, pos, Top.fn \in Tight),
         "n" \in Made(q).shut => Ended(nodes', tokens, fresh, pos),
         Instr.name = "unop" => Deep(tokens, Top.op) = Nest(tokens, s),
         Top.fn = "level" => Top.pc = 7 /\ AtLeast(nodes', tokens, fresh, s, Top.level),
         Top.fn = "unary" => Top.pc = 3
  PROVE  Reading'
<1>1. /\ Fit(nodes, tokens, Top, s, pos, q) /\ q \in Places /\ Leads(q) \subseteq Places
      /\ InstrOf(q) = Instr /\ q.fn = Top.fn /\ q.pc = Top.pc /\ Top \in Frame
      /\ Sees(tokens, pos, q.see) /\ Span(tokens, s, pos, q.nest)
      /\ DOMAIN q = {"fn", "pc", "nest", "shut", "type", "see"}
  BY TopReads, PlaceTyped
<1>2. PICK h : h = [Past EXCEPT !.n = fresh, !.r = 0]
  OBVIOUS
<1>3. /\ stack' = [stack EXCEPT ![Size] = h] /\ pos' = pos
      /\ nodes' = [id \in (DOMAIN nodes \ gone) \cup {fresh} |->
                     IF id = fresh THEN [type |-> Instr.name, at |-> Top.op, kids |-> ks] ELSE nodes[id]]
  BY <1>2 DEF Make, SetTop, SameInput, Size
<1>4. fresh \in Nat \ {0} /\ 0 \notin DOMAIN nodes /\ 0 \notin DOMAIN nodes'
  <2>1. fresh \in Nat \ {0} /\ 0 \notin DOMAIN nodes
    BY DEF ParserInv, Tree
  <2> QED BY <1>3, <2>1
<1>5. /\ h \in Frame /\ h.fn = Top.fn /\ h.pc = Top.pc + 1 /\ h.n = fresh /\ h.r = 0
      /\ h.op = Top.op /\ h.level = Top.level
  BY <1>1, <1>2, <1>4, PastTyped DEF Frame
<1>6. PICK e : e = Made(q)
  OBVIOUS
<1>7. e \in Places
  BY <1>1, <1>6 DEF Leads
<1>8. /\ e.fn = q.fn /\ e.pc = q.pc + 1 /\ e.nest = q.nest /\ e.type = Instr.name /\ e.see = q.see
  BY <1>1, <1>6 DEF Made
<1>9. nodes'[fresh].type = Instr.name /\ nodes'[fresh].at = Top.op
  <2>1. nodes'[fresh] = [type |-> Instr.name, at |-> Top.op, kids |-> ks]
    BY <1>3
  <2> QED BY <2>1
<1>10. Part(nodes', 0) = {} /\ Ops(nodes', 0) = {}
  BY <1>4, OpsNone
<1>11. \A tight \in BOOLEAN : Good(nodes', tokens, 0, s, pos, tight) /\ Ended(nodes', tokens, 0, pos)
  BY <1>10, GoodNone
<1>12. Good(nodes', tokens, 0, s, pos, Top.fn \in Tight) /\ Ended(nodes', tokens, 0, pos)
  <2>1. (Top.fn \in Tight) \in BOOLEAN
    OBVIOUS
  <2> HIDE DEF Tight
  <2> QED BY <1>11, <2>1
<1>13. Separate(nodes', tokens, fresh, 0)
  BY <1>10 DEF Separate
<1>14. NodeFit(nodes', tokens, h, s, e)
  BY <1>4, <1>5, <1>8, <1>9 DEF NodeFit
<1>15. LevelFit(nodes', tokens, h, s, pos)
  <2> SUFFICES ASSUME Top.fn = "level"
               PROVE  LevelFit(nodes', tokens, h, s, pos)
    BY <1>5 DEF LevelFit
  <2>1. Top.level \in DOMAIN Levels
    BY <1>1 DEF Fit, LevelFit
  <2>2. h.pc = 8
    BY <1>5, Sums
  <2> QED BY <1>5, <2>1, <2>2 DEF LevelFit
<1>16. UnaryFit(tokens, h, s, pos)
  <2> SUFFICES ASSUME Top.fn = "unary"
               PROVE  UnaryFit(tokens, h, s, pos)
    BY <1>5 DEF UnaryFit
  <2>1. h.pc = 4
    BY <1>5, Sums
  <2> QED BY <2>1 DEF UnaryFit
<1>17. Fit(nodes', tokens, h, s, pos, e)
  <2>1. e.pc = h.pc
    BY <1>1, <1>5, <1>8
  <2>2. e \in Places /\ e.fn = h.fn /\ Span(tokens, s, pos, e.nest)
    BY <1>1, <1>5, <1>7, <1>8
  <2>3. /\ Good(nodes', tokens, h.n, s, pos, h.fn \in Tight) /\ Good(nodes', tokens, h.r, s, pos, h.fn \in Tight)
        /\ "n" \in e.shut => Ended(nodes', tokens, h.n, pos)
        /\ "r" \in e.shut => Ended(nodes', tokens, h.r, pos)
        /\ Separate(nodes', tokens, h.n, h.r)
    BY <1>5, <1>6, <1>12, <1>13
  <2> QED BY <1>14, <1>15, <1>16, <2>1, <2>2, <2>3 DEF Fit
<1>18. ASSUME NEW k \in 1..Size, k # Size
       PROVE  Alike(nodes, nodes', stack[k].n) /\ Alike(nodes, nodes', stack[k].r)
  <2>1. Size \in 1..Size /\ Top = stack[Size]
    BY TopTyped DEF ParserInv
  <2>2. Alike(nodes, nodes', 0)
    BY <1>4, AlikeNone
  <2>3. /\ stack[k].n # 0 => stack[k].n \in DOMAIN nodes
        /\ stack[k].r # 0 => stack[k].r \in DOMAIN nodes
    BY HeldLive
  <2>4. /\ stack[k].n # 0 => stack[k].n # Top.n /\ stack[k].n # Top.r
        /\ stack[k].r # 0 => stack[k].r # Top.n /\ stack[k].r # Top.r
    BY <1>18, <2>1 DEF ParserInv, Apart
  <2> QED BY <2>2, <2>3, <2>4
<1>19. \A i, f : Answers(i, f, Top) => Answers(i, f, h)
  BY <1>5, AnswersSame
<1>20. Fit(nodes', tokens, h, s, pos', e) /\ Sees(tokens, pos', e.see)
  BY <1>1, <1>3, <1>8, <1>17
<1>21. stack' = [stack EXCEPT ![Size] = h]
  BY <1>3
<1> QED BY <1>5, <1>18, <1>19, <1>20, <1>21, ReadingTurns

LEMMA NewReads ==
  ASSUME ParserInv, ~failed, Reading, DoNew
  PROVE  Reading'
<1>1. /\ stack # <<>> /\ Instr.do = "new" /\ tokens' = tokens
      /\ Instr.regs # {} \/ (Top.n = 0 /\ Top.r = 0)
      /\ {Top.n, Top.r} \ {0} \subseteq Held /\ Joins(nodes, nodes', fresh, {Top.n, Top.r} \ {0})
  BY NewEffect
<1>2. PICK ks : Make(ks, {})
  BY NewEffect
<1>3. PICK g, p : Parsed(g, p)
  BY DEF Reading
<1>4. PICK q, s : q = p[Size] /\ s = g[Size]
  OBVIOUS
<1>5. /\ Fit(nodes, tokens, Top, s, pos, q) /\ q \in Places /\ Nested(q)
      /\ InstrOf(q) = Instr /\ q.fn = Top.fn /\ q.pc = Top.pc
      /\ Whole(nodes) /\ 0 \notin DOMAIN nodes
      /\ Span(tokens, s, pos, q.nest)
      /\ DOMAIN q = {"fn", "pc", "nest", "shut", "type", "see"}
  BY <1>1, <1>3, <1>4, TopReads, PlaceTyped
<1>6. ParserInv' /\ Whole(nodes')
  <2>1. ParserInv'
    BY NewKeeps
  <2>2. Forest(Held, nodes)'
    BY <1>2, <2>1 DEF ParserInv, Tree, Forest, Make, SameInput
  <2>3. Forest(Held', nodes')
    BY <2>2
  <2> QED BY <2>1, <2>3, ForestWhole
<1>7. PICK S : S = {Top.n, Top.r} \ {0}
  OBVIOUS
<1>8. /\ \A y \in DOMAIN nodes : Alike(nodes, nodes', y)
      /\ Part(nodes', fresh) = {fresh} \cup UNION {Part(nodes, y) : y \in S}
  <2>1. S \subseteq DOMAIN nodes /\ Joins(nodes, nodes', fresh, S)
    BY <1>1, <1>7, HeldLive
  <2> QED BY <1>5, <1>6, <2>1, NewParts
<1>9. Joined(nodes, nodes', fresh, Top.n, Top.r)
  <2>1. Part(nodes, 0) = {}
    BY <1>5, OpsNone
  <2>2. UNION {Part(nodes, y) : y \in S} = Part(nodes, Top.n) \cup Part(nodes, Top.r)
    BY <1>7, <2>1
  <2>3. fresh \notin DOMAIN nodes
    BY HeldLive
  <2>4. ASSUME NEW u \in Part(nodes, Top.n) \cup Part(nodes, Top.r)
        PROVE  nodes'[u] = nodes[u] /\ Part(nodes', u) = Part(nodes, u)
    <3>1. u \in DOMAIN nodes
      BY DEF Part
    <3>2. u \in Part(nodes, u)
      BY <1>5, <3>1, PartBasics
    <3> QED BY <1>8, <3>1, <3>2 DEF Alike
  <2> QED BY <1>8, <2>2, <2>3, <2>4 DEF Joined
<1>10. nodes'[fresh].type = Instr.name /\ nodes'[fresh].at = Top.op
  <2>1. nodes'[fresh] = [type |-> Instr.name, at |-> Top.op, kids |-> ks]
    BY <1>2 DEF Make
  <2> QED BY <2>1
<1>11. /\ Instr.regs # {} => Instr.name # "unop"
       /\ Instr.name = "binop" <=> Top.fn = "level"
       /\ Instr.name = "unop" => Top.fn = "unary" /\ Top.pc = 3
       /\ Top.fn = "unary" => Top.pc = 3
  BY <1>1, <1>5 DEF Nested
<1>12. s \in Nat \ {0} /\ pos \in Nat \ {0} /\ s <= pos
  BY <1>5 DEF Span
<1>13. CASE Instr.name # "binop"
  <2>1. Top.fn # "level" /\ Above(nodes, nodes', fresh, Top.n, Top.r)
    BY <1>9, <1>10, <1>11, <1>13, JoinedAbove
  <2>2. /\ Good(nodes, tokens, Top.n, s, pos, Top.fn \in Tight)
        /\ Good(nodes, tokens, Top.r, s, pos, Top.fn \in Tight)
        /\ Separate(nodes, tokens, Top.n, Top.r)
        /\ "n" \in q.shut => Ended(nodes, tokens, Top.n, pos)
        /\ "r" \in q.shut => Ended(nodes, tokens, Top.r, pos)
    BY <1>5, <2>1 DEF Fit
  <2>3. ASSUME Instr.name = "unop"
        PROVE  /\ Top.op \in s..(pos - 1) /\ Deep(tokens, Top.op) = Nest(tokens, s)
               /\ Prefixed(nodes', tokens, fresh)
    <3>1. Top.fn = "unary" /\ Top.pc = 3 /\ Top.n = 0 /\ Top.r = 0
      BY <1>1, <1>11, <2>3
    <3>2. Top.op = s /\ s < pos /\ Deep(tokens, s) = Nest(tokens, s)
      BY <1>5, <3>1 DEF Fit, UnaryFit
    <3>3. Ops(nodes, Top.n) = {} /\ Ops(nodes, Top.r) = {}
      BY <1>5, <3>1, OpsNone
    <3>4. Ops(nodes', fresh) = {}
      BY <2>1, <3>3, AboveOps
    <3> QED BY <1>12, <3>2, <3>4 DEF Prefixed
  <2>4. nodes'[fresh].type = "unop" => nodes'[fresh].at \in s..(pos - 1) /\ Prefixed(nodes', tokens, fresh)
    BY <1>10, <2>3
  <2>5. /\ Good(nodes', tokens, fresh, s, pos, Top.fn \in Tight)
        /\ Ended(nodes, tokens, Top.n, pos) /\ Ended(nodes, tokens, Top.r, pos) => Ended(nodes', tokens, fresh, pos)
    <3>1. PICK tight : tight = (Top.fn \in Tight)
      OBVIOUS
    <3>2. Good(nodes, tokens, Top.n, s, pos, tight) /\ Good(nodes, tokens, Top.r, s, pos, tight)
      <4> HIDE DEF Tight
      <4> QED BY <2>2, <3>1
    <3>3. /\ Good(nodes', tokens, fresh, s, pos, tight)
          /\ Ended(nodes, tokens, Top.n, pos) /\ Ended(nodes, tokens, Top.r, pos) => Ended(nodes', tokens, fresh, pos)
      BY <1>5, <1>6, <1>12, <2>1, <2>2, <2>4, <3>2, GoodAbove
    <3> HIDE DEF Tight
    <3> QED BY <3>1, <3>3
  <2>6. ASSUME "n" \in Made(q).shut
        PROVE  Ended(nodes', tokens, fresh, pos)
    <3>1. Instr.regs = {} \/ q.shut = NR
      <4>1. Made(q).shut = IF Instr.name # "binop" /\ (Instr.regs = {} \/ q.shut = NR) THEN NR ELSE {"r"}
        BY <1>5 DEF Made
      <4> QED BY <2>6, <4>1
    <3>2. CASE Instr.regs = {}
      <4>1. Ops(nodes, Top.n) = {} /\ Ops(nodes, Top.r) = {}
        BY <1>1, <1>5, <3>2, OpsNone
      <4> QED BY <2>5, <4>1 DEF Ended
    <3>3. CASE q.shut = NR
      BY <2>2, <2>5, <3>3 DEF NR
    <3> QED BY <3>1, <3>2, <3>3
  <2> QED BY <1>1, <1>2, <1>3, <1>4, <1>6, <1>8, <1>11, <2>1, <2>3, <2>5, <2>6, MadeReads
<1>14. CASE Instr.name = "binop"
  <2>1. Top.fn = "level" /\ Top.fn # "unary" /\ ~(Top.fn \in Tight) /\ Top.pc = 7 /\ q.nest = 0
    BY <1>1, <1>5, <1>11, <1>14, LevelPlace DEF Tight
  <2>2. /\ Good(nodes, tokens, Top.n, s, pos, FALSE) /\ Good(nodes, tokens, Top.r, s, pos, FALSE)
    <3>1. (Top.fn \in Tight) = FALSE
      BY <2>1
    <3> HIDE DEF Tight
    <3> QED BY <1>5, <3>1 DEF Fit
  <2>3. /\ Hinge(nodes, tokens, Top.n, Top.r, s, pos, nodes'[fresh].at, Top.level)
        /\ AtLeast(nodes, tokens, Top.n, s, Top.level)
    BY <1>5, <1>10, <2>1 DEF Fit, LevelFit
  <2>4. Nest(tokens, pos) = Nest(tokens, s)
    <3>1. Nest(tokens, pos) = Nest(tokens, s) + 0 /\ Nest(tokens, s) \in Int
      BY <1>5, <1>12, <2>1, TextSteps DEF Span, Steps
    <3> QED BY <3>1
  <2>5. Part(nodes, Top.n) \cap Part(nodes, Top.r) = {}
    <3>1. Part(nodes, 0) = {}
      BY <1>5, OpsNone
    <3>2. Top.n # 0 => Top.n # Top.r
      <4>1. Size \in 1..Size /\ Top = stack[Size]
        BY <1>1, TopTyped DEF ParserInv
      <4> QED BY <4>1 DEF ParserInv, Apart
    <3>3. CASE Top.n = 0 \/ Top.r = 0
      BY <3>1, <3>3
    <3>4. CASE Top.n # 0 /\ Top.r # 0
      <4>1. Top.n \in Held /\ Top.r \in Held /\ Forest(Held, nodes)
        BY <1>1, <3>4 DEF ParserInv, Tree, Forest
      <4> QED BY <3>2, <3>4, <4>1, PartsApart
    <3> QED BY <3>3, <3>4
  <2>6. nodes'[fresh].type = "binop"
    BY <1>10, <1>14
  <2>7. Good(nodes', tokens, fresh, s, pos, FALSE) /\ AtLeast(nodes', tokens, fresh, s, Top.level)
    BY <1>5, <1>6, <1>9, <1>12, <2>2, <2>3, <2>4, <2>5, <2>6, GoodJoin
  <2>8. Good(nodes', tokens, fresh, s, pos, Top.fn \in Tight)
    <3>1. (Top.fn \in Tight) = FALSE
      BY <2>1
    <3> HIDE DEF Tight
    <3> QED BY <2>7, <3>1
  <2>9. "n" \notin Made(q).shut
    <3>1. Made(q).shut = {"r"}
      BY <1>5, <1>14 DEF Made
    <3> QED BY <3>1
  <2>10. Instr.name # "unop"
    BY <1>14
  <2> QED BY <1>1, <1>2, <1>3, <1>4, <1>6, <1>8, <2>1, <2>7, <2>8, <2>9, <2>10, MadeReads
<1> QED BY <1>13, <1>14

LEMMA ReseatReads ==
  ASSUME ParserInv, ~failed, Reading, DoReseat
  PROVE  Reading'
<1>1. PICK ks : ks = nodes[Top.n].kids
  OBVIOUS
<1>2. stack # <<>> /\ Instr.do = "reseat" /\ tokens' = tokens /\ Make(ks, {Top.n})
  BY <1>1 DEF DoReseat, At
<1>3. PICK g, p : Parsed(g, p)
  BY DEF Reading
<1>4. PICK q, s : q = p[Size] /\ s = g[Size]
  OBVIOUS
<1>5. /\ Fit(nodes, tokens, Top, s, pos, q) /\ q \in Places /\ Nested(q)
      /\ InstrOf(q) = Instr /\ q.fn = Top.fn /\ q.pc = Top.pc
      /\ Whole(nodes) /\ 0 \notin DOMAIN nodes
      /\ Span(tokens, s, pos, q.nest)
  BY <1>2, <1>3, <1>4, TopReads
<1>6. /\ q.type = "index" /\ q.shut = NR /\ Instr.name \notin {"binop", "unop"}
      /\ Top.fn # "level" /\ Top.fn # "unary"
  <2>1. Top.fn # "level"
    BY <1>2, <1>5, LevelPlace
  <2> QED BY <1>2, <1>5, <2>1 DEF Nested
<1>7. Top.n # 0 /\ nodes[Top.n].type = "index"
  BY <1>5, <1>6 DEF Fit, NodeFit
<1>8. /\ Top.n \in Held /\ Held \subseteq DOMAIN nodes /\ fresh \notin DOMAIN nodes
      /\ Forest(Held, nodes)
  <2>1. Size \in 1..Size /\ Top = stack[Size]
    BY <1>2, TopTyped DEF ParserInv
  <2> QED BY <1>7, <2>1, HeldLive DEF ParserInv, Tree, Forest
<1>9. Reseats(nodes, nodes', fresh, Top.n)
  BY <1>1, <1>2, <1>8 DEF Make, Reseats
<1>10. ParserInv' /\ Whole(nodes')
  <2>1. ParserInv'
    BY ReseatKeeps
  <2>2. Forest(Held, nodes)'
    BY <1>2, <2>1 DEF ParserInv, Tree, Forest, Make, SameInput
  <2>3. Forest(Held', nodes')
    BY <2>2
  <2> QED BY <2>1, <2>3, ForestWhole
<1>11. /\ \A y \in DOMAIN nodes \ {Top.n} : Alike(nodes, nodes', y)
       /\ Part(nodes', fresh) = {fresh} \cup (Part(nodes, Top.n) \ {Top.n})
  BY <1>8, <1>9, <1>10, ReseatParts
<1>12. nodes'[fresh].type = Instr.name
  <2>1. nodes'[fresh] = [type |-> Instr.name, at |-> Top.op, kids |-> ks]
    BY <1>2 DEF Make
  <2> QED BY <2>1
<1>13. Part(nodes, 0) = {} /\ Ops(nodes, 0) = {}
  BY <1>5, OpsNone
<1>14. Above(nodes, nodes', fresh, Top.n, 0)
  <2>1. ASSUME NEW u \in Part(nodes', fresh), u # fresh
        PROVE  u \in Part(nodes, Top.n) /\ nodes'[u] = nodes[u] /\ Part(nodes', u) = Part(nodes, u)
    <3>1. u \in Part(nodes, Top.n) /\ u # Top.n
      BY <1>11, <2>1
    <3>2. u \in DOMAIN nodes
      BY <3>1 DEF Part
    <3>3. u \in Part(nodes, u)
      BY <1>5, <3>2, PartBasics
    <3> QED BY <1>11, <3>1, <3>2, <3>3 DEF Alike
  <2>2. ASSUME NEW c \in Ops(nodes, Top.n)
        PROVE  c \in Part(nodes', fresh) /\ c # fresh
    <3>1. c \in Part(nodes, Top.n) /\ nodes[c].type = "binop"
      BY DEF Ops
    <3>2. c \in DOMAIN nodes /\ c # Top.n
      BY <1>7, <3>1 DEF Part
    <3> QED BY <1>8, <1>11, <3>1, <3>2
  <2> QED BY <1>6, <1>12, <1>13, <2>1, <2>2 DEF Above
<1>15. s \in Nat \ {0} /\ pos \in Nat
  BY <1>5 DEF Span
<1>16. /\ Good(nodes, tokens, Top.n, s, pos, Top.fn \in Tight)
       /\ Ended(nodes, tokens, Top.n, pos)
  BY <1>5, <1>6 DEF Fit, NR
<1>17. Good(nodes, tokens, 0, s, pos, Top.fn \in Tight) /\ Ended(nodes, tokens, 0, pos)
  <2>1. \A tight \in BOOLEAN : Good(nodes, tokens, 0, s, pos, tight) /\ Ended(nodes, tokens, 0, pos)
    BY <1>13, GoodNone
  <2>2. (Top.fn \in Tight) \in BOOLEAN
    OBVIOUS
  <2> HIDE DEF Tight
  <2> QED BY <2>1, <2>2
<1>18. Separate(nodes, tokens, Top.n, 0)
  BY <1>13 DEF Separate
<1>19. nodes'[fresh].type # "unop"
  BY <1>6, <1>12
<1>20. /\ Good(nodes', tokens, fresh, s, pos, Top.fn \in Tight)
       /\ Ended(nodes', tokens, fresh, pos)
  <2>1. PICK tight : tight = (Top.fn \in Tight)
    OBVIOUS
  <2>2. Good(nodes, tokens, Top.n, s, pos, tight) /\ Good(nodes, tokens, 0, s, pos, tight)
    <3> HIDE DEF Tight
    <3> QED BY <1>16, <1>17, <2>1
  <2>3. Good(nodes', tokens, fresh, s, pos, tight) /\ Ended(nodes', tokens, fresh, pos)
    BY <1>5, <1>10, <1>14, <1>15, <1>16, <1>17, <1>18, <1>19, <2>2, GoodAbove
  <2> HIDE DEF Tight
  <2> QED BY <2>1, <2>3
<1>21. Instr.name # "unop"
  BY <1>6
<1> QED BY <1>2, <1>3, <1>4, <1>6, <1>10, <1>11, <1>20, <1>21, MadeReads

\* What h, which started at e, hands to f, which started at s.
LEMMA Handed ==
  ASSUME NEW T, NEW ts, Len(ts) \in Nat, NEW f, NEW h, NEW s, NEW e, NEW k, NEW q, NEW r,
         Fit(T, ts, f, s, e, q), Fit(T, ts, h, e, k, r),
         InstrOf(r).do = "return", InstrOf(q).do = "call", Answers(InstrOf(q), f, h)
  PROVE  /\ Span(ts, s, k, q.nest) /\ s \in Nat \ {0} /\ e \in Nat \ {0} /\ k \in Nat \ {0} /\ s <= e /\ e <= k
         /\ \A x \in {f.n, f.r, h.n} : Good(T, ts, x, s, k, f.fn \in Tight)
         /\ \A x \in {f.n, f.r} : Ended(T, ts, x, e) => Ended(T, ts, x, k)
         /\ InstrOf(q).name \notin Loose => Ended(T, ts, h.n, k)
         /\ Ended(T, ts, f.n, e) => Separate(T, ts, f.n, h.n)
         /\ h.fn \in Tight => \A a \in Ops(T, h.n) : Deep(ts, T[a].at) > Nest(ts, s)
         /\ f.fn = "level" => \A a \in Ops(T, h.n) :
               e <= T[a].at /\ (Deep(ts, T[a].at) = Nest(ts, s) => Rank(ts, T[a].at) > f.level)
<1>1. /\ Span(ts, s, e, q.nest) /\ Span(ts, e, k, r.nest)
      /\ q \in Places /\ r \in Places /\ q.fn = f.fn /\ r.fn = h.fn
      /\ Nested(q) /\ Nested(r) /\ q.nest \in Nat
  BY PlaceTyped DEF Fit
<1>2. s \in Nat \ {0} /\ e \in Nat \ {0} /\ k \in Nat \ {0} /\ s <= e /\ e <= k /\ s <= k
  BY <1>1 DEF Span
<1>3. Nest(ts, k) = Nest(ts, e) /\ Nest(ts, e) = Nest(ts, s) + q.nest /\ Nest(ts, s) \in Int /\ Nest(ts, e) \in Int
  <2>1. Nest(ts, s) \in Int /\ Nest(ts, e) \in Int
    BY <1>2, TextSteps DEF Steps
  <2>2. r.nest = 0
    BY <1>1 DEF Nested
  <2>3. Nest(ts, k) = Nest(ts, e) + 0 /\ Nest(ts, e) = Nest(ts, s) + q.nest
    BY <1>1, <2>2 DEF Span
  <2> QED BY <2>1, <2>3
<1>4. Span(ts, s, k, q.nest)
  BY <1>1, <1>2, <1>3 DEF Span
<1>5. PICK loose, tight : loose = (f.fn \in Tight) /\ tight = (h.fn \in Tight)
  OBVIOUS
<1>6. Good(T, ts, f.n, s, e, loose) /\ Good(T, ts, f.r, s, e, loose) /\ Good(T, ts, h.n, e, k, tight)
  <2> HIDE DEF Tight
  <2> QED BY <1>5 DEF Fit
<1>7. loose => q.nest > 0 \/ tight
  <2>1. f.fn \in Tight => q.nest > 0 \/ InstrOf(q).name \in Tight
    BY <1>1 DEF Nested
  <2>2. InstrOf(q).name \in Tight => h.fn \in Tight
    BY DEF Answers
  <2> HIDE DEF Tight
  <2> QED BY <1>5, <2>1, <2>2
<1>8. Good(T, ts, h.n, s, k, loose)
  BY <1>2, <1>1, <1>3, <1>6, <1>7, GoodFrom
<1>9. ASSUME NEW x \in {f.n, f.r}
      PROVE  Good(T, ts, x, s, k, loose) /\ (Ended(T, ts, x, e) => Ended(T, ts, x, k))
  <2>1. Good(T, ts, x, s, e, loose)
    BY <1>6
  <2> QED BY <1>2, <1>3, <2>1, GoodOver
<1>10. \A x \in {f.n, f.r, h.n} : Good(T, ts, x, s, k, f.fn \in Tight)
  <2> HIDE DEF Tight
  <2> QED BY <1>5, <1>8, <1>9
<1>11. InstrOf(q).name \notin Loose => Ended(T, ts, h.n, k)
  <2>1. InstrOf(q).name \notin Loose => r.fn \notin Loose
    BY <1>1 DEF Answers
  <2>2. r.fn \notin Loose => "n" \in r.shut
    BY <1>1 DEF Nested
  <2> QED BY <2>1, <2>2 DEF Fit
<1>12. \A a \in Ops(T, h.n) : /\ T[a].at \in e..(k - 1) /\ Deep(ts, T[a].at) \in Int
                              /\ tight => Deep(ts, T[a].at) > Nest(ts, e)
  <2>1. ASSUME NEW a \in Ops(T, h.n)
        PROVE  /\ T[a].at \in e..(k - 1) /\ Deep(ts, T[a].at) \in Int
               /\ tight => Deep(ts, T[a].at) > Nest(ts, e)
    <3>1. T[a].at \in e..(k - 1) /\ (tight => Deep(ts, T[a].at) > Nest(ts, e))
      BY <1>6 DEF Good, Lies
    <3>2. T[a].at \in Nat \ {0}
      BY <1>2, <3>1
    <3> QED BY <3>1, <3>2, TextSteps DEF Steps
  <2> QED BY <2>1
<1>13. ASSUME Ended(T, ts, f.n, e)
       PROVE  Separate(T, ts, f.n, h.n)
  <2>1. ASSUME NEW a \in Ops(T, f.n), NEW b \in Ops(T, h.n)
        PROVE  T[a].at < T[b].at /\ ~One(ts, T[a].at, T[b].at)
    <3>1. T[a].at \in s..(e - 1)
      BY <1>6 DEF Good, Lies
    <3>2. T[b].at \in e..(k - 1)
      BY <1>12
    <3>3. Shut(ts, T[a].at, e)
      BY <1>13 DEF Ended
    <3>4. T[a].at \in Nat \ {0} /\ T[b].at \in Nat /\ e <= T[b].at /\ T[a].at < T[b].at
      BY <1>2, <3>1, <3>2
    <3> QED BY <1>2, <3>3, <3>4, ShutApart
  <2> QED BY <2>1 DEF Separate
<1>14. h.fn \in Tight => \A a \in Ops(T, h.n) : Deep(ts, T[a].at) > Nest(ts, s)
  <2>1. tight => \A a \in Ops(T, h.n) : Deep(ts, T[a].at) > Nest(ts, s)
    BY <1>1, <1>3, <1>12
  <2> HIDE DEF Tight
  <2> QED BY <1>5, <2>1
<1>15. ASSUME f.fn = "level", NEW a \in Ops(T, h.n)
       PROVE  e <= T[a].at /\ (Deep(ts, T[a].at) = Nest(ts, s) => Rank(ts, T[a].at) > f.level)
  <2>1. q.nest = 0 /\ InstrOf(q).name = "operand"
    BY <1>1, <1>15 DEF Nested
  <2>2. Nest(ts, e) = Nest(ts, s)
    BY <1>3, <2>1
  <2>3. e <= T[a].at
    BY <1>2, <1>12
  <2>4. f.level \in Nat
    <3>1. f.level \in DOMAIN Levels
      BY <1>15 DEF Fit, LevelFit
    <3>2. DOMAIN Levels \subseteq Nat
      BY LevelsTyped
    <3> QED BY <3>1, <3>2
  <2>5. CASE h.fn = "unary"
    <3>1. Deep(ts, T[a].at) > Nest(ts, s)
      BY <1>14, <2>5 DEF Tight
    <3> QED BY <1>3, <1>12, <2>3, <3>1
  <2>6. CASE h.fn = "level" /\ h.level = f.level + 1
    <3>1. AtLeast(T, ts, h.n, e, f.level + 1)
      BY <2>6 DEF Fit, LevelFit
    <3>2. Deep(ts, T[a].at) = Nest(ts, s) => Rank(ts, T[a].at) >= f.level + 1
      BY <2>2, <3>1 DEF AtLeast
    <3>3. Rank(ts, T[a].at) \in Nat
      <4>1. ts[T[a].at] \in Signs
        BY <1>6 DEF Good, Lies
      <4> QED BY <4>1, RankTyped
    <3> QED BY <2>3, <2>4, <3>2, <3>3
  <2> QED BY <2>1, <2>5, <2>6 DEF Answers
<1> QED BY <1>2, <1>4, <1>9, <1>10, <1>11, <1>13, <1>14, <1>15

\* The innermost activation has ended.
LEMMA LeftReads ==
  ASSUME ParserInv, ~failed, NEW g, NEW p, Parsed(g, p), NEW d \in Nat, d > 0, Size = d + 1, Size' = d,
         tokens' = tokens, pos' = pos, \A k \in 1..(d - 1) : stack'[k] = stack[k],
         stack'[d].fn = stack[d].fn, stack'[d].level = stack[d].level,
         \A k \in 1..(d - 1) : Alike(nodes, nodes', stack[k].n) /\ Alike(nodes, nodes', stack[k].r),
         NEW q, q.see = <<>>, Fit(nodes', tokens, stack'[d], g[d], pos, q)
  PROVE  Reading'
<1>1. PICK e : e = pos'
  OBVIOUS
<1>2. PICK g2 : g2 = [k \in 1..(d + 1) |-> IF k = d + 1 THEN e ELSE g[k]]
  OBVIOUS
<1>3. PICK p2 : p2 = [k \in 1..d |-> IF k = d THEN q ELSE p[k]]
  OBVIOUS
<1>4. g2[d + 1] = e /\ g2[d] = g[d] /\ p2[d] = q
  BY <1>2, <1>3
<1>5. \A k \in 1..(d - 1) : g2[k] = g[k] /\ g2[k + 1] = g[k + 1] /\ p2[k] = p[k]
  BY <1>2, <1>3
<1>6. Whole(nodes)
  <2>1. Forest(Held, nodes)
    BY DEF ParserInv, Tree, Forest
  <2> QED BY <2>1, ForestWhole
<1>7. ASSUME NEW k \in 1..d
      PROVE  Fit(nodes', tokens', stack'[k], g2[k], g2[k + 1], p2[k])
  <2>1. CASE k = d
    BY <1>1, <1>4, <2>1
  <2>2. CASE k # d
    <3>1. k \in 1..(d - 1) /\ k \in 1..(d + 1)
      BY <2>2
    <3>2. Fit(nodes, tokens, stack[k], g[k], g[k + 1], p[k])
      BY <3>1 DEF Parsed
    <3>3. Fit(nodes', tokens, stack[k], g[k], g[k + 1], p[k])
      BY <1>6, <3>1, <3>2, FitSame
    <3> QED BY <1>5, <3>1, <3>3
  <2> QED BY <2>1, <2>2
<1>8. ASSUME NEW k \in 1..(d - 1)
      PROVE  Answers(InstrOf(p2[k]), stack'[k], stack'[k + 1])
  <2>1. k \in 1..((d + 1) - 1)
    OBVIOUS
  <2>2. Answers(InstrOf(p[k]), stack[k], stack[k + 1])
    BY <2>1 DEF Parsed
  <2>3. stack'[k + 1].fn = stack[k + 1].fn /\ stack'[k + 1].level = stack[k + 1].level
    <3>1. CASE k + 1 = d
      BY <3>1
    <3>2. CASE k + 1 # d
      <4>1. k + 1 \in 1..(d - 1)
        BY <3>2
      <4> QED BY <4>1
    <3> QED BY <3>1, <3>2
  <2>4. Answers(InstrOf(p[k]), stack[k], stack'[k + 1])
    BY <2>2, <2>3 DEF Answers
  <2> QED BY <1>5, <2>4
<1>9. Sees(tokens', pos', p2[d].see)
  BY <1>4 DEF Sees
<1>10. Parsed(g2, p2)'
  BY <1>1, <1>4, <1>7, <1>8, <1>9 DEF Parsed
<1> QED BY <1>10 DEF Reading

\* What the caller is known to hold when a call has ended.
AfterCall(q, e, i, x) ==
    /\ e \in Places /\ e.fn = q.fn /\ e.pc = q.pc + 1 /\ e.nest = q.nest /\ e.see = <<>>
    /\ e.type = IF x = "n" THEN "unknown" ELSE q.type
    /\ e.shut = IF x = "kid" THEN (IF i.name \in Loose THEN q.shut \ {"n"} ELSE q.shut)
                ELSE IF i.name \in Loose THEN q.shut \ {x} ELSE q.shut \cup {x}
    /\ x = "kid" => /\ q.shut = NR /\ q.type \notin {"unknown", "binop"} /\ q.fn # "level"
                    /\ q.type = "unop" => i.name = "unary"
    /\ x = "r" => q.fn = "level" \/ "n" \in q.shut
    /\ q.fn = "level" => (q.pc = 1 /\ e.pc = 2 /\ x = "n") \/ (q.pc = 5 /\ e.pc = 6 /\ x = "r")
    /\ q.fn = "unary" => e.pc > 3

LEMMA ResumedPlace ==
  ASSUME NEW q \in Places, NEW i, i = InstrOf(q), i.do = "call", NEW e, e = Resumed(q), NEW x, x = Register(i)
  PROVE  AfterCall(q, e, i, x)
<1>1. Nested(q) /\ Leads(q) \subseteq Places /\ DOMAIN q = {"fn", "pc", "nest", "shut", "type", "see"} /\ q.pc \in Nat
  BY PlaceTyped
<1>2. e \in Places
  BY <1>1 DEF Leads
<1>3. /\ e.fn = q.fn /\ e.pc = q.pc + 1 /\ e.nest = q.nest /\ e.see = <<>>
      /\ e.type = IF x = "n" THEN "unknown" ELSE q.type
      /\ e.shut = IF x = "kid" THEN (IF i.name \in Loose THEN q.shut \ {"n"} ELSE q.shut)
                  ELSE IF i.name \in Loose THEN q.shut \ {x} ELSE q.shut \cup {x}
  BY <1>1 DEF Resumed
<1>4. /\ x = "kid" => /\ q.shut = NR /\ q.type \notin {"unknown", "binop"}
                      /\ q.type = "unop" => i.name = "unary"
      /\ x = "r" => q.fn = "level" \/ "n" \in q.shut
      /\ q.fn = "unary" => q.pc > 3
  BY <1>1 DEF Nested
<1>5. q.fn = "level" => (q.pc = 1 /\ x = "n") \/ (q.pc = 5 /\ x = "r")
  BY LevelPlace
<1>6. q.fn = "level" => (q.pc = 1 /\ e.pc = 2 /\ x = "n") \/ (q.pc = 5 /\ e.pc = 6 /\ x = "r")
  <2>1. (q.pc = 1 => e.pc = 2) /\ (q.pc = 5 => e.pc = 6)
    BY <1>3, Sums
  <2> QED BY <1>5, <2>1
<1>7. q.fn = "unary" => e.pc > 3
  <2>1. q.pc > 3 => e.pc > 3
    BY <1>1, <1>3, Sums
  <2> QED BY <1>4, <2>1
<1> QED BY <1>2, <1>3, <1>4, <1>5, <1>6, <1>7 DEF AfterCall

\* What was returned goes into n.
LEMMA FitN ==
  ASSUME NEW T, NEW ts, Len(ts) \in Nat, 0 \notin DOMAIN T, NEW f, NEW h, NEW s, NEW e, NEW k, NEW q, NEW r,
         Fit(T, ts, f, s, e, q), Fit(T, ts, h, e, k, r),
         InstrOf(r).do = "return", InstrOf(q).do = "call", Answers(InstrOf(q), f, h),
         Register(InstrOf(q)) = "n",
         NEW g, g.fn = f.fn, g.pc = f.pc + 1, g.level = f.level, g.n = h.n, g.r = 0
  PROVE  Fit(T, ts, g, s, k, Resumed(q))
<1>1. PICK i, j : i = InstrOf(q) /\ j = Resumed(q)
  OBVIOUS
<1>2. q \in Places /\ q.fn = f.fn /\ q.pc = f.pc
  BY DEF Fit
<1>3. /\ j \in Places /\ j.fn = q.fn /\ j.pc = q.pc + 1 /\ j.nest = q.nest /\ j.type = "unknown"
      /\ j.shut = IF i.name \in Loose THEN q.shut \ {"n"} ELSE q.shut \cup {"n"}
      /\ q.fn = "level" => j.pc = 2
      /\ q.fn = "unary" => j.pc > 3
  <2>1. PICK x : x = Register(i) /\ x = "n"
    BY <1>1
  <2>2. q \in Places /\ i = InstrOf(q) /\ i.do = "call" /\ j = Resumed(q) /\ x = Register(i)
    BY <1>1, <1>2, <2>1
  <2>3. AfterCall(q, j, i, x)
    BY <2>2, ResumedPlace
  <2> QED BY <2>1, <2>3 DEF AfterCall
<1>4. /\ Span(ts, s, k, q.nest)
      /\ Good(T, ts, h.n, s, k, f.fn \in Tight)
      /\ i.name \notin Loose => Ended(T, ts, h.n, k)
      /\ f.fn = "level" => \A a \in Ops(T, h.n) :
            e <= T[a].at /\ (Deep(ts, T[a].at) = Nest(ts, s) => Rank(ts, T[a].at) > f.level)
  BY <1>1, Handed
<1>5. Part(T, 0) = {} /\ Ops(T, 0) = {}
  BY OpsNone
<1>6. Good(T, ts, 0, s, k, f.fn \in Tight) /\ Ended(T, ts, 0, k)
  <2>1. \A tight \in BOOLEAN : Good(T, ts, 0, s, k, tight) /\ Ended(T, ts, 0, k)
    BY <1>5, GoodNone
  <2>2. (f.fn \in Tight) \in BOOLEAN
    OBVIOUS
  <2> HIDE DEF Tight
  <2> QED BY <2>1, <2>2
<1>7. Separate(T, ts, g.n, g.r) /\ NodeFit(T, ts, g, s, j)
  BY <1>3, <1>5 DEF Separate, NodeFit
<1>8. g.pc = j.pc
  BY <1>2, <1>3
<1>9. LevelFit(T, ts, g, s, k)
  <2> SUFFICES ASSUME f.fn = "level"
               PROVE  LevelFit(T, ts, g, s, k)
    BY DEF LevelFit
  <2>1. f.level \in DOMAIN Levels /\ f.level \in Nat
    <3>1. f.level \in DOMAIN Levels
      BY DEF Fit, LevelFit
    <3>2. DOMAIN Levels \subseteq Nat
      BY LevelsTyped
    <3> QED BY <3>1, <3>2
  <2>2. ASSUME NEW a \in Ops(T, h.n), Deep(ts, T[a].at) = Nest(ts, s)
        PROVE  Rank(ts, T[a].at) >= f.level
    <3>1. Rank(ts, T[a].at) > f.level
      BY <1>4, <2>2
    <3>2. Rank(ts, T[a].at) \in Nat
      <4>1. ts[T[a].at] \in Signs
        BY <1>4 DEF Good, Lies
      <4> QED BY <4>1, RankTyped
    <3> QED BY <2>1, <3>1, <3>2
  <2>3. AtLeast(T, ts, g.n, s, g.level)
    BY <2>2 DEF AtLeast
  <2>4. g.pc = 2
    BY <1>2, <1>3, <1>8
  <2> QED BY <2>1, <2>3, <2>4 DEF LevelFit
<1>10. UnaryFit(ts, g, s, k)
  <2>1. f.fn = "unary" => g.pc > 3 /\ g.pc \in Nat
    <3>1. j.pc \in Nat
      BY <1>3, PlaceTyped
    <3> QED BY <1>2, <1>3, <1>8, <3>1
  <2>2. g.pc > 3 /\ g.pc \in Nat => ~(g.pc <= 2) /\ g.pc # 3
    OBVIOUS
  <2> QED BY <2>1, <2>2 DEF UnaryFit
<1>11. /\ Good(T, ts, g.n, s, k, g.fn \in Tight) /\ Good(T, ts, g.r, s, k, g.fn \in Tight)
       /\ "n" \in j.shut => Ended(T, ts, g.n, k)
       /\ "r" \in j.shut => Ended(T, ts, g.r, k)
  BY <1>3, <1>4, <1>6
<1>12. j \in Places /\ j.fn = g.fn /\ Span(ts, s, k, j.nest)
  BY <1>2, <1>3, <1>4
<1>13. Fit(T, ts, g, s, k, j)
  BY <1>7, <1>8, <1>9, <1>10, <1>11, <1>12 DEF Fit
<1> QED BY <1>1, <1>13

\* It goes into r.
LEMMA FitR ==
  ASSUME NEW T, NEW ts, Len(ts) \in Nat, 0 \notin DOMAIN T, NEW f, NEW h, NEW s, NEW e, NEW k, NEW q, NEW r,
         Fit(T, ts, f, s, e, q), Fit(T, ts, h, e, k, r),
         InstrOf(r).do = "return", InstrOf(q).do = "call", Answers(InstrOf(q), f, h),
         Register(InstrOf(q)) = "r",
         NEW g, g.fn = f.fn, g.pc = f.pc + 1, g.level = f.level, g.op = f.op, g.n = f.n, g.r = h.n
  PROVE  Fit(T, ts, g, s, k, Resumed(q))
<1>1. PICK i, j : i = InstrOf(q) /\ j = Resumed(q)
  OBVIOUS
<1>2. q \in Places /\ q.fn = f.fn /\ q.pc = f.pc
  BY DEF Fit
<1>3. /\ j \in Places /\ j.fn = q.fn /\ j.pc = q.pc + 1 /\ j.nest = q.nest /\ j.type = q.type
      /\ j.shut = IF i.name \in Loose THEN q.shut \ {"r"} ELSE q.shut \cup {"r"}
      /\ q.fn = "level" \/ "n" \in q.shut
      /\ q.fn = "level" => q.pc = 5 /\ j.pc = 6
      /\ q.fn = "unary" => j.pc > 3
  <2>1. PICK x : x = Register(i) /\ x = "r"
    BY <1>1
  <2>2. q \in Places /\ i = InstrOf(q) /\ i.do = "call" /\ j = Resumed(q) /\ x = Register(i)
    BY <1>1, <1>2, <2>1
  <2>3. AfterCall(q, j, i, x)
    BY <2>2, ResumedPlace
  <2> QED BY <2>1, <2>3 DEF AfterCall
<1>4. /\ Span(ts, s, k, q.nest) /\ s \in Nat \ {0} /\ e \in Nat \ {0} /\ k \in Nat \ {0} /\ s <= e /\ e <= k
      /\ Good(T, ts, f.n, s, k, f.fn \in Tight) /\ Good(T, ts, h.n, s, k, f.fn \in Tight)
      /\ Ended(T, ts, f.n, e) => Ended(T, ts, f.n, k)
      /\ i.name \notin Loose => Ended(T, ts, h.n, k)
      /\ Ended(T, ts, f.n, e) => Separate(T, ts, f.n, h.n)
      /\ f.fn = "level" => \A a \in Ops(T, h.n) :
            e <= T[a].at /\ (Deep(ts, T[a].at) = Nest(ts, s) => Rank(ts, T[a].at) > f.level)
  BY <1>1, Handed
<1>5. "n" \in q.shut => Ended(T, ts, f.n, e)
  BY DEF Fit
<1>6. f.fn # "level" => Separate(T, ts, g.n, g.r)
  BY <1>2, <1>3, <1>4, <1>5
<1>7. NodeFit(T, ts, g, s, j)
  BY <1>3 DEF Fit, NodeFit
<1>8. g.pc = j.pc
  BY <1>2, <1>3
<1>9. LevelFit(T, ts, g, s, k)
  <2> SUFFICES ASSUME f.fn = "level"
               PROVE  LevelFit(T, ts, g, s, k)
    BY DEF LevelFit
  <2>1. f.pc = 5 /\ g.pc = 6
    BY <1>2, <1>3, <1>8
  <2>2. f.level \in DOMAIN Levels /\ AtLeast(T, ts, f.n, s, f.level) /\ Hinge(T, ts, f.n, f.r, s, e, f.op, f.level)
    BY <2>1 DEF Fit, LevelFit
  <2>3. f.op \in s..(e - 1) /\ f.op \in s..(k - 1) /\ f.op < e
    BY <1>4, <2>2 DEF Hinge
  <2>4. ASSUME NEW a \in Ops(T, h.n)
        PROVE  f.op < T[a].at
    <3>1. e <= T[a].at
      BY <1>4
    <3>2. T[a].at \in s..(k - 1)
      BY <1>4 DEF Good, Lies
    <3> QED BY <1>4, <2>3, <3>1, <3>2
  <2>5. Hinge(T, ts, g.n, g.r, s, k, g.op, g.level)
    BY <1>4, <2>2, <2>3, <2>4 DEF Hinge
  <2> QED BY <2>1, <2>2, <2>5 DEF LevelFit
<1>10. UnaryFit(ts, g, s, k)
  <2>1. f.fn = "unary" => g.pc > 3 /\ g.pc \in Nat
    <3>1. j.pc \in Nat
      BY <1>3, PlaceTyped
    <3> QED BY <1>2, <1>3, <1>8, <3>1
  <2>2. g.pc > 3 /\ g.pc \in Nat => ~(g.pc <= 2) /\ g.pc # 3
    OBVIOUS
  <2> QED BY <2>1, <2>2 DEF UnaryFit
<1>11. /\ Good(T, ts, g.n, s, k, g.fn \in Tight) /\ Good(T, ts, g.r, s, k, g.fn \in Tight)
       /\ "n" \in j.shut => Ended(T, ts, g.n, k)
       /\ "r" \in j.shut => Ended(T, ts, g.r, k)
  BY <1>3, <1>4, <1>5
<1>12. j \in Places /\ j.fn = g.fn /\ Span(ts, s, k, j.nest)
  BY <1>2, <1>3, <1>4
<1>13. Fit(T, ts, g, s, k, j)
  BY <1>6, <1>7, <1>8, <1>9, <1>10, <1>11, <1>12 DEF Fit
<1> QED BY <1>1, <1>13

\* U is T with c, and what hangs below it, put below p.
Below(T, U, p, c) ==
    /\ p \in DOMAIN T /\ p \notin Part(T, c) /\ U[p].type = T[p].type /\ U[p].at = T[p].at
    /\ Part(U, p) = Part(T, p) \cup Part(T, c)
    /\ \A y \in DOMAIN T \ {p} : Alike(T, U, y)

\* It becomes a child of n.
LEMMA FitKid ==
  ASSUME NEW T, NEW U, NEW ts, Len(ts) \in Nat, 0 \notin DOMAIN T, 0 \notin DOMAIN U, Whole(T), Whole(U),
         NEW f, NEW h, NEW s, NEW e, NEW k, NEW q, NEW r,
         Fit(T, ts, f, s, e, q), Fit(T, ts, h, e, k, r),
         InstrOf(r).do = "return", InstrOf(q).do = "call", Answers(InstrOf(q), f, h),
         Register(InstrOf(q)) = "kid",
         Below(T, U, f.n, h.n),
         NEW g, g.fn = f.fn, g.pc = f.pc + 1, g.level = f.level, g.n = f.n, g.r = 0
  PROVE  Fit(U, ts, g, s, k, Resumed(q))
<1>1. PICK i, j, x : i = InstrOf(q) /\ j = Resumed(q) /\ x = Register(i) /\ x = "kid"
  OBVIOUS
<1>2. q \in Places /\ q.fn = f.fn /\ q.pc = f.pc
  BY DEF Fit
<1>3. /\ j \in Places /\ j.fn = q.fn /\ j.pc = q.pc + 1 /\ j.nest = q.nest /\ j.type = q.type
      /\ j.shut = IF i.name \in Loose THEN q.shut \ {"n"} ELSE q.shut
      /\ q.shut = NR /\ q.type \notin {"unknown", "binop"} /\ q.fn # "level"
      /\ q.type = "unop" => i.name = "unary"
      /\ q.fn = "unary" => j.pc > 3
  <2>1. q \in Places /\ i = InstrOf(q) /\ i.do = "call" /\ j = Resumed(q) /\ x = Register(i)
    BY <1>1, <1>2
  <2>2. AfterCall(q, j, i, x)
    BY <2>1, ResumedPlace
  <2> QED BY <1>1, <2>2 DEF AfterCall
<1>4. /\ Span(ts, s, k, q.nest) /\ s \in Nat \ {0} /\ k \in Nat \ {0}
      /\ Good(T, ts, f.n, s, k, f.fn \in Tight) /\ Good(T, ts, h.n, s, k, f.fn \in Tight)
      /\ Ended(T, ts, f.n, e) => Ended(T, ts, f.n, k)
      /\ i.name \notin Loose => Ended(T, ts, h.n, k)
      /\ Ended(T, ts, f.n, e) => Separate(T, ts, f.n, h.n)
      /\ h.fn \in Tight => \A a \in Ops(T, h.n) : Deep(ts, T[a].at) > Nest(ts, s)
  BY <1>1, Handed
<1>5. Ended(T, ts, f.n, e)
  BY <1>3 DEF Fit, NR
<1>6. f.n # 0 /\ T[f.n].type = q.type /\ (q.type = "unop" => Deep(ts, T[f.n].at) = Nest(ts, s))
  <2>1. NodeFit(T, ts, f, s, q)
    BY DEF Fit
  <2>2. q.type # "unknown"
    BY <1>3
  <2> QED BY <2>1, <2>2 DEF NodeFit
<1>7. "n" \in j.shut => i.name \notin Loose
  BY <1>3
<1>8. /\ Good(U, ts, f.n, s, k, f.fn \in Tight)
      /\ i.name \notin Loose => Ended(U, ts, f.n, k)
      /\ U[f.n].type = T[f.n].type /\ U[f.n].at = T[f.n].at
  <2>1. Above(T, U, f.n, f.n, h.n)
    <3>1. U[f.n].type # "binop" /\ T[f.n].type # "binop"
      BY <1>3, <1>6 DEF Below
    <3>2. ASSUME NEW u \in Part(U, f.n), u # f.n
          PROVE  u \in Part(T, f.n) \cup Part(T, h.n) /\ U[u] = T[u] /\ Part(U, u) = Part(T, u)
      <4>1. u \in Part(T, f.n) \cup Part(T, h.n)
        BY DEF Below
      <4>2. u \in DOMAIN T
        BY <4>1 DEF Part
      <4>3. u \in Part(T, u) /\ Alike(T, U, u)
        BY <3>2, <4>2, PartBasics DEF Below
      <4> QED BY <4>1, <4>3 DEF Alike
    <3>3. ASSUME NEW c \in Ops(T, f.n) \cup Ops(T, h.n)
          PROVE  c \in Part(U, f.n) /\ c # f.n
      BY <3>1 DEF Below, Ops
    <3> QED BY <3>1, <3>2, <3>3 DEF Above
  <2>2. ASSUME U[f.n].type = "unop"
        PROVE  U[f.n].at \in s..(k - 1) /\ Prefixed(U, ts, f.n)
    <3>1. T[f.n].type = "unop" /\ U[f.n].at = T[f.n].at /\ q.type = "unop" /\ f.n \in DOMAIN T
      BY <1>6, <2>2 DEF Below
    <3>2. f.n \in Part(T, f.n)
      BY <3>1, PartBasics
    <3>3. T[f.n].at \in s..(k - 1) /\ Prefixed(T, ts, f.n)
      BY <1>4, <3>1, <3>2 DEF Good, BindsIn
    <3>4. \A b \in Ops(T, f.n) : Deep(ts, T[f.n].at) < Deep(ts, T[b].at)
      BY <3>1, <3>3 DEF Prefixed
    <3>5. \A b \in Ops(T, h.n) : Deep(ts, T[f.n].at) < Deep(ts, T[b].at)
      <4>1. i.name \in Tight
        BY <1>3, <3>1 DEF Tight
      <4>2. h.fn \in Tight
        BY <1>1, <4>1 DEF Answers
      <4>3. Deep(ts, T[f.n].at) = Nest(ts, s) /\ Nest(ts, s) \in Int
        BY <1>4, <1>6, <3>1, TextSteps DEF Steps
      <4>4. ASSUME NEW b \in Ops(T, h.n)
            PROVE  Deep(ts, T[f.n].at) < Deep(ts, T[b].at)
        <5>1. Deep(ts, T[b].at) > Nest(ts, s)
          BY <1>4, <4>2
        <5>2. T[b].at \in s..(k - 1)
          BY <1>4 DEF Good, Lies
        <5>3. T[b].at \in Nat \ {0}
          BY <1>4, <5>2
        <5>4. Deep(ts, T[b].at) \in Int
          BY <5>3, TextSteps DEF Steps
        <5> QED BY <4>3, <5>1, <5>4
      <4> QED BY <4>4
    <3>6. \A b \in Ops(U, f.n) : U[b] = T[b] /\ (b \in Ops(T, f.n) \/ b \in Ops(T, h.n))
      BY <2>1, AboveOps
    <3> QED BY <3>1, <3>3, <3>4, <3>5, <3>6 DEF Prefixed
  <2>3. PICK tight : tight = (f.fn \in Tight)
    OBVIOUS
  <2>4. Good(T, ts, f.n, s, k, tight) /\ Good(T, ts, h.n, s, k, tight) /\ Separate(T, ts, f.n, h.n)
    <3> HIDE DEF Tight
    <3> QED BY <1>4, <1>5, <2>3
  <2>5. /\ Good(U, ts, f.n, s, k, tight)
        /\ Ended(T, ts, f.n, k) /\ Ended(T, ts, h.n, k) => Ended(U, ts, f.n, k)
    <3>1. k \in Nat /\ s \in Nat \ {0}
      BY <1>4
    <3> QED BY <2>1, <2>2, <2>4, <3>1, GoodAbove
  <2>6. Good(U, ts, f.n, s, k, f.fn \in Tight)
    <3> HIDE DEF Tight
    <3> QED BY <2>3, <2>5
  <2> QED BY <1>4, <1>5, <2>5, <2>6 DEF Below
<1>9. Part(U, 0) = {} /\ Ops(U, 0) = {}
  BY OpsNone
<1>10. Good(U, ts, 0, s, k, f.fn \in Tight) /\ Ended(U, ts, 0, k)
  <2>1. \A tight \in BOOLEAN : Good(U, ts, 0, s, k, tight) /\ Ended(U, ts, 0, k)
    BY <1>9, GoodNone
  <2>2. (f.fn \in Tight) \in BOOLEAN
    OBVIOUS
  <2> HIDE DEF Tight
  <2> QED BY <2>1, <2>2
<1>11. Separate(U, ts, g.n, g.r) /\ NodeFit(U, ts, g, s, j)
  BY <1>3, <1>6, <1>8, <1>9 DEF Separate, NodeFit
<1>12. g.pc = j.pc /\ LevelFit(U, ts, g, s, k)
  BY <1>2, <1>3 DEF LevelFit
<1>13. UnaryFit(ts, g, s, k)
  <2>1. f.fn = "unary" => g.pc > 3 /\ g.pc \in Nat
    <3>1. j.pc \in Nat
      BY <1>3, PlaceTyped
    <3> QED BY <1>2, <1>3, <1>12, <3>1
  <2>2. g.pc > 3 /\ g.pc \in Nat => ~(g.pc <= 2) /\ g.pc # 3
    OBVIOUS
  <2> QED BY <2>1, <2>2 DEF UnaryFit
<1>14. /\ Good(U, ts, g.n, s, k, g.fn \in Tight) /\ Good(U, ts, g.r, s, k, g.fn \in Tight)
       /\ "n" \in j.shut => Ended(U, ts, g.n, k)
       /\ "r" \in j.shut => Ended(U, ts, g.r, k)
  BY <1>7, <1>8, <1>10
<1>15. j \in Places /\ j.fn = g.fn /\ Span(ts, s, k, j.nest)
  BY <1>2, <1>3, <1>4
<1>16. Fit(U, ts, g, s, k, j)
  BY <1>11, <1>12, <1>13, <1>14, <1>15 DEF Fit
<1> QED BY <1>1, <1>16

LEMMA ReturnReads ==
  ASSUME ParserInv, Reading, DoReturn, ~failed, NEW d \in Nat, d > 0, Size = d + 1
  PROVE  Reading'
<1>1. /\ stack # <<>> /\ Instr.do = "return" /\ Leave(Top.n, nodes)
      /\ tokens' = tokens /\ pos' = pos /\ failed' = failed
  BY DEF DoReturn, At, SameInput
<1>2. PICK g, p : Parsed(g, p)
  BY DEF Reading
<1>3. PICK q, s, e, r : q = p[d] /\ s = g[d] /\ e = g[d + 1] /\ r = p[d + 1]
  OBVIOUS
<1>4. PICK f : f = stack[d]
  OBVIOUS
<1>5. /\ Activations /\ d \in 1..(d + 1) /\ d + 1 \in 1..(d + 1) /\ d \in 1..((d + 1) - 1)
      /\ Top = stack[d + 1] /\ Forest(Held, nodes) /\ Top.n # 0
  <2>1. /\ Top = stack[Size] /\ Instr = InstrOf(ShapeAt(Size)) /\ Careful(ShapeAt(Size))
        /\ ShapeAt(Size).failed = failed /\ ShapeAt(Size).n = (Top.n # 0)
    BY <1>1, TopTyped DEF ParserInv
  <2>2. Top.n # 0
    BY <1>1, <2>1 DEF Careful
  <2> QED BY <2>1, <2>2 DEF ParserInv, Tree, Forest
<1>6. /\ Fit(nodes, tokens, f, s, e, q) /\ Answers(InstrOf(q), f, Top)
      /\ \A k \in 1..(d + 1) : Fit(nodes, tokens, stack[k], g[k], g[k + 1], p[k])
  BY <1>2, <1>3, <1>4, <1>5 DEF Parsed
<1>7. /\ Fit(nodes, tokens, Top, e, pos, r) /\ InstrOf(r) = Instr
      /\ Whole(nodes) /\ 0 \notin DOMAIN nodes /\ Len(tokens) \in Nat /\ Top.n \in Nat
  <2>1. r = p[Size] /\ e = g[Size]
    BY <1>3
  <2>2. Top \in Frame
    BY <1>1, <1>2, <2>1, TopReads
  <2>3. Top.n \in Nat
    BY <2>2 DEF Frame
  <2> QED BY <1>1, <1>2, <2>1, <2>3, TopReads
<1>8. InstrOf(q) = InstrAt(d) /\ InstrOf(q).do = "call"
  <2>1. q.fn = f.fn /\ q.pc = f.pc
    BY <1>6 DEF Fit
  <2>2. InstrAt(d).do = "call"
    BY <1>5 DEF Activations
  <2> QED BY <1>4, <2>1, <2>2 DEF InstrOf, InstrAt
<1>9. PICK x : x = Register(InstrAt(d))
  OBVIOUS
<1>10. PICK h : h = stack'[d]
  OBVIOUS
<1>11. /\ Size' = d /\ x \in {"n", "r", "kid"}
       /\ h.fn = f.fn /\ h.pc = f.pc + 1 /\ h.op = f.op /\ h.level = f.level
       /\ h.n = (IF x = "n" THEN Top.n ELSE f.n)
       /\ h.r = (IF x = "r" THEN Top.n ELSE f.r)
       /\ \A k \in 1..(d - 1) : stack'[k] = stack[k]
       /\ x = "n" => f.n = 0 /\ f.r = 0
       /\ x = "r" => f.r = 0
       /\ x = "kid" => f.n # 0 /\ f.r = 0
       /\ nodes' = (IF x = "kid" THEN Attached(nodes, f.n, Top.n) ELSE nodes)
  <2>1. failed' \in BOOLEAN
    BY <1>1 DEF ParserInv, Input
  <2> QED BY <1>1, <1>4, <1>5, <1>7, <1>9, <1>10, <2>1, LeaveEffect
<1>12. Resumed(q).see = <<>>
  <2>1. q \in Places
    BY <1>6 DEF Fit
  <2>2. PICK i, j : i = InstrOf(q) /\ j = Resumed(q)
    OBVIOUS
  <2>3. AfterCall(q, j, i, x)
    BY <1>8, <1>9, <2>1, <2>2, ResumedPlace
  <2> QED BY <2>2, <2>3 DEF AfterCall
<1>13. \A k \in 1..(d + 1) : stack[k].n \in DOMAIN nodes \cup {0} /\ stack[k].r \in DOMAIN nodes \cup {0}
  BY HeldLive
<1>14. CASE nodes' = nodes /\ x # "kid"
  <2>1. \A y \in DOMAIN nodes \cup {0} : Alike(nodes, nodes', y)
    <3>1. Alike(nodes, nodes, 0)
      BY <1>7, AlikeNone
    <3>2. \A y \in DOMAIN nodes : Alike(nodes, nodes, y)
      BY <1>7, PartBasics DEF Alike
    <3> QED BY <1>14, <3>1, <3>2
  <2>2. \A k \in 1..(d - 1) : Alike(nodes, nodes', stack[k].n) /\ Alike(nodes, nodes', stack[k].r)
    BY <1>13, <2>1
  <2>3. Fit(nodes', tokens, h, s, pos, Resumed(q))
    <3>1. CASE x = "n"
      <4>1. h.fn = f.fn /\ h.pc = f.pc + 1 /\ h.level = f.level /\ h.n = Top.n /\ h.r = 0
        BY <1>11, <3>1
      <4>2. Register(InstrOf(q)) = "n" /\ InstrOf(r).do = "return"
        BY <1>1, <1>7, <1>8, <1>9, <3>1
      <4>3. Fit(nodes, tokens, h, s, pos, Resumed(q))
        BY <1>6, <1>7, <1>8, <4>1, <4>2, FitN
      <4> QED BY <1>14, <4>3
    <3>2. CASE x = "r"
      <4>1. /\ h.fn = f.fn /\ h.pc = f.pc + 1 /\ h.level = f.level /\ h.op = f.op
            /\ h.n = f.n /\ h.r = Top.n
        BY <1>11, <3>2
      <4>2. Register(InstrOf(q)) = "r" /\ InstrOf(r).do = "return"
        BY <1>1, <1>7, <1>8, <1>9, <3>2
      <4>3. Fit(nodes, tokens, h, s, pos, Resumed(q))
        BY <1>6, <1>7, <1>8, <4>1, <4>2, FitR
      <4> QED BY <1>14, <4>3
    <3> QED BY <1>11, <1>14, <3>1, <3>2
  <2> QED BY <1>1, <1>2, <1>3, <1>4, <1>10, <1>11, <1>12, <2>2, <2>3, LeftReads
<1>15. CASE x = "kid"
  <2>1. h.fn = f.fn /\ h.pc = f.pc + 1 /\ h.level = f.level /\ h.n = f.n /\ h.r = 0 /\ f.n # 0
    BY <1>11, <1>15
  <2>2. nodes' = Attached(nodes, f.n, Top.n)
    BY <1>11, <1>15
  <2>3. f.n \in Held /\ f.n \in DOMAIN nodes /\ Top.n \in Held /\ Top.n # f.n
    BY <1>4, <1>5, <2>1, HeldLive DEF ParserInv, Apart
  <2>4. Whole(nodes')
    <3>1. ParserInv'
      BY ReturnKeeps
    <3>2. Forest(Held, nodes)'
      BY <1>1, <3>1 DEF ParserInv, Tree, Forest
    <3>3. Forest(Held', nodes')
      BY <3>2
    <3> QED BY <3>3, ForestWhole
  <2>5. Below(nodes, nodes', f.n, Top.n)
    <3>1. nodes' = [nodes EXCEPT ![f.n].kids = Append(@, Top.n)]
      BY <2>2 DEF Attached
    <3>2. nodes[f.n] \in Node
      BY <2>3 DEF ParserInv, Tree
    <3>3. nodes[f.n].kids \in Seq(Nat)
      BY <3>2 DEF Node
    <3>4. Attaches(nodes, nodes', f.n, Top.n) /\ nodes'[f.n].type = nodes[f.n].type /\ nodes'[f.n].at = nodes[f.n].at
      BY <2>3, <3>1, <3>2, <3>3 DEF Attaches, Node
    <3>5. /\ \A y \in DOMAIN nodes \ {f.n} : Alike(nodes, nodes', y)
          /\ Part(nodes', f.n) = Part(nodes, f.n) \cup Part(nodes, Top.n)
      BY <1>5, <1>7, <2>3, <2>4, <3>4, AttachParts
    <3>6. f.n \notin Part(nodes, Top.n)
      BY <1>5, <2>3, RootAlone
    <3> QED BY <2>3, <3>4, <3>5, <3>6 DEF Below
  <2>6. 0 \notin DOMAIN nodes'
    BY <1>7, <2>2, <2>3 DEF Attached
  <2>7. Fit(nodes', tokens, h, s, pos, Resumed(q))
    <3>1. Register(InstrOf(q)) = "kid" /\ InstrOf(r).do = "return"
      BY <1>1, <1>7, <1>8, <1>9, <1>15
    <3> QED BY <1>6, <1>7, <1>8, <2>1, <2>4, <2>5, <2>6, <3>1, FitKid
  <2>8. ASSUME NEW k \in 1..(d - 1)
        PROVE  Alike(nodes, nodes', stack[k].n) /\ Alike(nodes, nodes', stack[k].r)
    <3>1. Alike(nodes, nodes', 0)
      BY <1>7, <2>6, AlikeNone
    <3>2. \A y \in DOMAIN nodes \ {f.n} : Alike(nodes, nodes', y)
      BY <2>5 DEF Below
    <3>3. k \in 1..(d + 1) /\ k # d
      OBVIOUS
    <3>4. stack[k].n # f.n /\ stack[k].r # f.n
      BY <1>4, <1>5, <2>1, <3>3 DEF ParserInv, Apart
    <3> QED BY <1>13, <3>1, <3>2, <3>3, <3>4
  <2> QED BY <1>1, <1>2, <1>3, <1>4, <1>10, <1>11, <1>12, <2>7, <2>8, LeftReads
<1> QED BY <1>11, <1>14, <1>15

\* The whole program has been parsed.
LEMMA ReturnBinds ==
  ASSUME ParserInv, ~failed, Reading, DoReturn, Size = 1
  PROVE  BindsIn(nodes, tokens, root)'
<1>1. /\ stack # <<>> /\ Leave(Top.n, nodes) /\ tokens' = tokens /\ pos' = pos
  BY DEF DoReturn, At, SameInput
<1>2. nodes' = nodes /\ root' = Top.n
  BY <1>1 DEF Leave, Size
<1>3. PICK g, p : Parsed(g, p)
  BY DEF Reading
<1>4. Fit(nodes, tokens, Top, g[Size], pos, p[Size])
  BY <1>1, <1>3, TopReads
<1>5. BindsIn(nodes, tokens, Top.n)
  BY <1>4 DEF Fit, Good
<1>6. BindsIn(nodes', tokens', root')
  BY <1>1, <1>2, <1>5
<1> QED BY <1>6

\* The parser looks at a token more.
LEMMA ScanReads ==
  ASSUME ParserInv, ~failed, Reading, Scan
  PROVE  Reading'
<1>1. PICK t : tokens' = Append(tokens, t)
  BY DEF Scan
<1>2. stack # <<>> /\ UNCHANGED <<pos, failed, stack, nodes>>
  BY DEF Scan
<1>3. PICK g, p : Parsed(g, p)
  BY DEF Reading
<1>4. /\ Whole(nodes) /\ Sees(tokens, pos, p[Size].see)
  BY <1>2, <1>3, TopReads
<1>5. /\ Len(tokens) \in Nat /\ Len(tokens') = Len(tokens) + 1
      /\ \A k \in 1..Len(tokens) : tokens'[k] = tokens[k]
  <2>1. tokens \in Seq(program.kinds \cup {"eof"})
    BY DEF ParserInv, Input
  <2>2. PICK K : K = program.kinds \cup {"eof"} \cup {t}
    OBVIOUS
  <2>3. tokens \in Seq(K) /\ t \in K
    BY <2>1, <2>2
  <2> QED BY <1>1, <2>3
<1>6. Len(tokens') \in Nat /\ Extends(tokens, tokens')
  BY <1>5 DEF Extends
<1>7. ASSUME NEW k \in 1..Size
      PROVE  Fit(nodes, tokens', stack[k], g[k], g[k + 1], p[k])
  <2>1. Fit(nodes, tokens, stack[k], g[k], g[k + 1], p[k])
    BY <1>3 DEF Parsed
  <2>2. stack[k].n # 0 => stack[k].n \in DOMAIN nodes
    BY HeldLive
  <2> QED BY <1>4, <1>5, <1>6, <2>1, <2>2, FitText
<1>8. Sees(tokens', pos, p[Size].see)
  <2>1. \A k \in 1..Len(tokens) : k \in 1..Len(tokens')
    BY <1>5
  <2> QED BY <1>4, <1>5, <2>1 DEF Sees
<1>9. Size' = Size
  BY <1>2 DEF Size
<1>10. \A k \in 1..Size : Fit(nodes', tokens', stack'[k], g[k], g[k + 1], p[k])
  BY <1>2, <1>7
<1>11. Sees(tokens', pos', p[Size].see)
  BY <1>2, <1>8
<1>12. \A k \in 1..(Size - 1) : Answers(InstrOf(p[k]), stack'[k], stack'[k + 1])
  BY <1>2, <1>3 DEF Parsed
<1>13. g[Size + 1] = pos'
  BY <1>2, <1>3 DEF Parsed
<1>14. Parsed(g, p)'
  BY <1>9, <1>10, <1>11, <1>12, <1>13 DEF Parsed
<1> QED BY <1>14 DEF Reading

\* As long as nothing has failed, activations fit what they have read; then the
\* program does.
Bound ==
    /\ ~failed /\ Size > 0 => Reading
    /\ result = "ok" => BindsIn(nodes, tokens, root)

LEMMA BoundStart ==
  ASSUME Init
  PROVE  Bound
<1>1. PICK a : a = Activation("program", 0)
  OBVIOUS
<1>2. a.fn = "program" /\ a.pc = 1 /\ a.n = 0 /\ a.r = 0
  BY <1>1 DEF Activation
<1>3. stack = <<a>> /\ Size = 1 /\ stack[1] = a /\ pos = 1 /\ result = "todo" /\ DOMAIN nodes = {}
  BY <1>1 DEF Init, Size
<1>4. Len(tokens) \in Nat
  <2>1. program \in Programs /\ tokens = program.start
    BY DEF Init
  <2>2. tokens \in Seq(program.kinds)
    BY <2>1, ParserAssumption
  <2> QED BY <2>2
<1>5. Span(tokens, 1, 1, 0)
  <2>1. Nest(tokens, 1) \in Int
    BY TextSteps DEF Steps
  <2> QED BY <1>4, <2>1 DEF Span
<1>6. Entry(a.fn, <<>>) \in Places
  BY <1>2, NestingAssumption
<1>7. Fit(nodes, tokens, a, 1, 1, Entry(a.fn, <<>>))
  BY <1>2, <1>3, <1>5, <1>6, FitFresh
<1>8. PICK g : g = [k \in 1..2 |-> 1]
  OBVIOUS
<1>9. PICK p : p = [k \in 1..1 |-> Entry(a.fn, <<>>)]
  OBVIOUS
<1>10. g[1] = 1 /\ g[2] = 1 /\ p[1] = Entry(a.fn, <<>>)
  BY <1>8, <1>9
<1>11. \A k \in 1..1 : Fit(nodes, tokens, stack[k], g[k], g[k + 1], p[k])
  <2>1. \A k \in 1..1 : k = 1 /\ k + 1 = 2
    OBVIOUS
  <2> QED BY <1>3, <1>7, <1>10, <2>1
<1>12. Sees(tokens, pos, p[1].see)
  <2>1. \A x : Entry(x, <<>>).see = <<>>
    BY DEF Entry
  <2> QED BY <1>10, <2>1 DEF Sees
<1>13. Parsed(g, p)
  <2>1. 1 + 1 = 2 /\ 1..(1 - 1) = {}
    OBVIOUS
  <2> QED BY <1>3, <1>10, <1>11, <1>12, <2>1 DEF Parsed
<1> QED BY <1>3, <1>13 DEF Bound, Reading

LEMMA ReadingStep ==
  ASSUME ParserInv, Bound, Next, ~failed', Size' > 0
  PROVE  Reading'
<1>1. stack # <<>> /\ (failed => failed')
  <2>1. stack # <<>>
    BY DEF Next, Scan, DoAdvance, DoExpect, DoFail, DoUnless, DoJump, DoBranch, DoNew, DoReseat,
           DoCall, DoReturn, DoBail, At
  <2>2. failed' = failed \/ failed' = TRUE
    BY DEF Next, Scan, DoAdvance, DoExpect, DoFail, DoUnless, DoJump, DoBranch, DoNew, DoReseat,
           DoCall, DoReturn, DoBail, SameInput, Eat, ParseFail, Make
  <2> QED BY <2>1, <2>2
<1>2. ~failed
  BY <1>1
<1>3. Size \in Nat /\ Size > 0
  BY <1>1, TopTyped DEF ParserInv
<1>4. Reading
  BY <1>2, <1>3 DEF Bound
<1>5. ~DoFail
  BY DEF DoFail, ParseFail
<1>6. CASE DoReturn
  <2>1. Size # 1
    <3>1. ASSUME Size = 1
          PROVE  Size' = 0
      BY <1>6, <3>1 DEF DoReturn, Leave, Size
    <3> QED BY <3>1
  <2>2. PICK d \in Nat : d > 0 /\ Size = d + 1
    <3>1. Size - 1 \in Nat /\ Size - 1 > 0 /\ Size = (Size - 1) + 1
      BY <1>3, <2>1
    <3> QED BY <3>1
  <2> QED BY <1>2, <1>4, <1>6, <2>2, ReturnReads
<1>7. CASE Scan
  BY <1>2, <1>4, <1>7, ScanReads
<1>8. CASE DoAdvance
  BY <1>2, <1>4, <1>8, AdvanceReads
<1>9. CASE DoExpect
  BY <1>2, <1>4, <1>9, ExpectReads
<1>10. CASE DoUnless
  BY <1>2, <1>4, <1>10, UnlessReads
<1>11. CASE DoJump
  BY <1>2, <1>4, <1>11, JumpReads
<1>12. CASE DoBranch
  BY <1>2, <1>4, <1>12, BranchReads
<1>13. CASE DoNew
  BY <1>2, <1>4, <1>13, NewReads
<1>14. CASE DoReseat
  BY <1>2, <1>4, <1>14, ReseatReads
<1>15. CASE DoCall
  BY <1>2, <1>4, <1>15, CallReads
<1>16. CASE DoBail
  BY <1>2, <1>4, <1>16, BailReads
<1> QED BY <1>5, <1>6, <1>7, <1>8, <1>9, <1>10, <1>11, <1>12, <1>13, <1>14, <1>15, <1>16 DEF Next

\* A result is set when the first activation ends.
LEMMA ResultBinds ==
  ASSUME ParserInv, Bound, Next, result' = "ok"
  PROVE  BindsIn(nodes, tokens, root)'
<1>1. stack # <<>>
  BY DEF Next, Scan, DoAdvance, DoExpect, DoFail, DoUnless, DoJump, DoBranch, DoNew, DoReseat,
         DoCall, DoReturn, DoBail, At
<1>2. result = "todo" /\ Size \in Nat /\ Size > 0
  BY <1>1, TopTyped DEF ParserInv, Activations
<1>3. CASE DoReturn
  <2>1. Leave(Top.n, nodes)
    BY <1>3 DEF DoReturn
  <2>2. Size = 1
    BY <1>2, <2>1 DEF Leave, Size
  <2>3. result' = IF failed THEN "failed" ELSE "ok"
    BY <2>1, <2>2 DEF Leave, Size
  <2>4. Reading /\ ~failed
    BY <1>2, <2>3 DEF Bound
  <2> QED BY <1>3, <2>2, <2>4, ReturnBinds
<1>4. CASE DoBail
  <2>1. CASE SameTree
    BY <1>2, <2>1 DEF SameTree
  <2>2. CASE failed /\ ~SameTree
    <3>1. PICK heap : Leave(0, heap)
      BY <1>4, <2>2 DEF DoBail
    <3>2. result' = result \/ result' = "failed"
      BY <2>2, <3>1 DEF Leave
    <3> QED BY <1>2, <3>2
  <2> QED BY <1>4, <2>1, <2>2 DEF DoBail
<1>5. CASE \/ Scan \/ DoAdvance \/ DoExpect \/ DoFail \/ DoUnless \/ DoJump \/ DoBranch
           \/ DoNew \/ DoReseat \/ DoCall
  <2>1. result' = result
    BY <1>5 DEF Scan, DoAdvance, DoExpect, DoFail, DoUnless, DoJump, DoBranch, DoNew, DoReseat,
                DoCall, SameTree, Make
  <2> QED BY <1>2, <2>1
<1> QED BY <1>3, <1>4, <1>5 DEF Next

LEMMA BoundStep ==
  ASSUME ParserInv, Bound, [Next]_vars
  PROVE  Bound'
<1>1. CASE Next
  <2>1. ~failed' /\ Size' > 0 => Reading'
    BY <1>1, ReadingStep
  <2>2. result' = "ok" => BindsIn(nodes, tokens, root)'
    BY <1>1, ResultBinds
  <2> QED BY <2>1, <2>2 DEF Bound
<1>2. CASE UNCHANGED vars
  <2>1. /\ pos' = pos /\ failed' = failed /\ stack' = stack /\ nodes' = nodes /\ tokens' = tokens
        /\ root' = root /\ result' = result
    BY <1>2 DEF vars
  <2>2. Size' = Size
    BY <2>1 DEF Size
  <2>3. ASSUME NEW g, NEW p, Parsed(g, p)
        PROVE  Parsed(g, p)'
    BY <2>1, <2>2, <2>3 DEF Parsed
  <2>4. Reading => Reading'
    BY <2>3 DEF Reading
  <2>5. BindsIn(nodes, tokens, root) => BindsIn(nodes', tokens', root')
    BY <2>1
  <2> QED BY <2>1, <2>2, <2>4, <2>5 DEF Bound
<1> QED BY <1>1, <1>2

LEMMA DeepTyped ==
  ASSUME NEW ts, NEW k \in Nat
  PROVE  Deep(ts, k) \in Int
<1>1. Opens(ts, k) \in Nat
  BY CountStep DEF Opens
<1>2. Closes(ts, k - 1) \in Int
  <2>1. CASE k = 0
    <3>1. {m \in 1..(k - 1) : ts[m] \in Closing} = {}
      BY <2>1
    <3>2. HowMany(Closing, ts, k - 1) = 0
      BY <3>1, FS_EmptySet DEF HowMany
    <3> QED BY <3>2 DEF Closes
  <2>2. CASE k # 0
    <3>1. k - 1 \in Nat
      BY <2>2
    <3>2. Closes(ts, k - 1) \in Nat
      BY <3>1, CountStep DEF Closes
    <3> QED BY <3>2
  <2> QED BY <2>1, <2>2
<1> QED BY <1>1, <1>2 DEF Deep

\* An accepted program hangs below its root.
LEMMA BoundBinds ==
  ASSUME ParserInv, Bound
  PROVE  BindsByLevel
<1> SUFFICES ASSUME result = "ok"
             PROVE  BindsByLevel
  BY DEF BindsByLevel
<1>1. BindsIn(nodes, tokens, root)
  BY DEF Bound
<1>2. Forest(Held, nodes) /\ nodes \in [DOMAIN nodes -> Node] /\ 0 \notin DOMAIN nodes
  BY DEF ParserInv, Activations, Tree, Forest
<1>3. IsFiniteSet(DOMAIN nodes)
  <2>1. fresh - 1 \in Int /\ DOMAIN nodes \subseteq 1..(fresh - 1)
    BY DEF ParserInv, Tree
  <2> QED BY <2>1, FS_Interval, FS_Subset
<1>4. Held = {root} \ {0}
  <2>1. stack \in Seq(Frame) /\ ~(Size > 0)
    BY DEF ParserInv, Activations
  <2>2. 1..Size = {}
    BY <2>1 DEF Size
  <2> QED BY <2>2 DEF Held
<1>5. Part(nodes, root) = DOMAIN nodes
  <2>1. CASE root = 0
    <3>1. DOMAIN nodes = {}
      BY <1>2, <1>4, <2>1, GroveEmpty DEF Forest
    <3> QED BY <1>2, <2>1, <3>1, PartNone
  <2>2. CASE root # 0
    <3>1. Forest({root}, nodes)
      BY <1>2, <1>4, <2>2
    <3> QED BY <3>1, AllBelow
  <2> QED BY <2>1, <2>2
<1>6. Operators = Ops(nodes, root)
  BY <1>5 DEF Operators, Ops
<1>7. \A b \in DOMAIN nodes : Under({b}) = Part(nodes, b)
  BY <1>2, <1>3, UnderPart
<1>8. \A b \in Operators : b \in DOMAIN nodes
  BY DEF Operators
<1>9. \A a, b : Between(a, b) = Amid(nodes, tokens, Operators, a, b)
  BY SameText DEF Between, Amid
<1>10. ASSUME NEW a \in Operators, NEW b \in Operators,
              nodes[a].at < nodes[b].at, OneExpression(nodes[a].at, nodes[b].at)
       PROVE  /\ a \in Under({b}) <=>
                    \A c \in Between(a, b) \cup {a} : LevelOf(nodes[c].at) >= LevelOf(nodes[b].at)
              /\ b \in Under({a}) <=>
                    \A c \in Between(a, b) \cup {b} : LevelOf(nodes[c].at) > LevelOf(nodes[a].at)
  <2>1. Sound(nodes, tokens, Operators)
    BY <1>1, <1>6 DEF BindsIn
  <2>2. One(tokens, nodes[a].at, nodes[b].at)
    BY <1>10, SameText
  <2>3. /\ a \in Part(nodes, b) <=>
              \A c \in Amid(nodes, tokens, Operators, a, b) \cup {a} :
                 Rank(tokens, nodes[c].at) >= Rank(tokens, nodes[b].at)
        /\ b \in Part(nodes, a) <=>
              \A c \in Amid(nodes, tokens, Operators, a, b) \cup {b} :
                 Rank(tokens, nodes[c].at) > Rank(tokens, nodes[a].at)
    BY <1>10, <2>1, <2>2 DEF Sound
  <2>4. \A k : LevelOf(k) = Rank(tokens, k)
    BY SameText
  <2>5. Under({a}) = Part(nodes, a) /\ Under({b}) = Part(nodes, b)
    BY <1>7, <1>8
  <2> QED BY <1>9, <2>3, <2>4, <2>5
<1>11. ASSUME NEW u \in DOMAIN nodes, NEW b \in Operators \cap Under({u}), nodes[u].type = "unop"
       PROVE  ~OneExpression(nodes[u].at, nodes[b].at)
  <2>1. Prefixed(nodes, tokens, u)
    BY <1>1, <1>5 DEF BindsIn
  <2>2. b \in Ops(nodes, u) /\ b \in DOMAIN nodes
    BY <1>7, <1>8 DEF Operators, Ops
  <2>3. Deep(tokens, nodes[u].at) < Deep(tokens, nodes[b].at)
    BY <1>11, <2>1, <2>2 DEF Prefixed
  <2>4. nodes[u].at \in Nat /\ nodes[b].at \in Nat
    BY <1>2, <2>2 DEF Node
  <2>5. Deep(tokens, nodes[u].at) \in Int /\ Deep(tokens, nodes[b].at) \in Int
    BY <2>4, DeepTyped
  <2>6. ~One(tokens, nodes[u].at, nodes[b].at)
    BY <2>3, <2>5 DEF One
  <2> QED BY <2>6, SameText
<1> QED BY <1>10, <1>11 DEF BindsByLevel

\* Whatever the program and the operators, an accepted program's binary
\* operators are nested by their levels, those of one level from left to
\* right, and prefix operators bind tightest (parse_at_level, parser.c:255).
THEOREM BindsAlways == Spec => []BindsByLevel
<1>1. Init => Bound
  BY BoundStart
<1>2. ParserInv /\ Bound /\ [Next]_vars => Bound'
  BY BoundStep
<1>3. ParserInv /\ Bound => BindsByLevel
  BY BoundBinds
<1> QED BY <1>1, <1>2, <1>3, ParserInvariantHolds, PTL DEF Spec
=============================================================================
