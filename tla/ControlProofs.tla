---------------------------- MODULE ControlProofs ---------------------------
(***************************************************************************)
(* Proofs about Control: whatever the program, if its operands fit, the    *)
(* code the compiler makes is typed (CompilerProofs), and running it keeps *)
(* the stack, the frames and the handlers as the source means them.        *)
(***************************************************************************)
EXTENDS CompilerProofs

LEMMA WholeFacts ==
  ASSUME NEW c, NEW A, Whole(c, A)
  PROVE  /\ c \in Seq(Instr) /\ A \in [Nat -> Shape] /\ Len(c) \in Nat
         /\ \A p \in 1..Len(c) : /\ c[p] \in Instr /\ A[p] \in Shape /\ Works(c, A, p) /\ Lands(c, A, p, Len(c))
                                 /\ Nests(c, A, A[p])
                                 /\ Falls(c[p].op) => p < Len(c)
BY DEF Whole, Sound

LEMMA RunningFacts ==
  ASSUME NEW c, NEW A, NEW m, Running(c, A, m), NEW k \in 0..Tip(m)
  PROVE  /\ Tip(m) \in Nat /\ k \in Nat /\ Len(m.stack) \in Nat /\ Len(m.handlers) \in Nat
         /\ m.stack \in Seq(Value) /\ m.frames \in Seq(Frame) /\ m.handlers \in Seq(Handler)
         /\ Floor(m, k) \in Nat /\ Outside(m, k) \in Nat /\ Height(m, k) \in Nat /\ Reach(m, k) \in Nat
         /\ Place(m, k) \in 1..Len(c) /\ Standing(c, A, m, k, A[Place(m, k)])
<1>1. /\ m.stack \in Seq(Value) /\ m.frames \in Seq(Frame) /\ m.handlers \in Seq(Handler)
      /\ Place(m, k) \in 1..Len(c) /\ Standing(c, A, m, k, A[Place(m, k)])
  BY DEF Running, Sized
<1>2. Tip(m) \in Nat /\ Len(m.stack) \in Nat /\ Len(m.handlers) \in Nat /\ k \in Nat
  BY <1>1 DEF Tip
<1>3. \A j \in 1..Tip(m) : m.frames[j].ret \in Nat /\ m.frames[j].base \in Nat /\ m.frames[j].depth \in Nat
  <2>1. \A j \in 1..Tip(m) : m.frames[j] \in Frame
    BY <1>1 DEF Tip
  <2> QED BY <2>1 DEF Frame
<1>4. Floor(m, k) \in Nat /\ Outside(m, k) \in Nat
  BY <1>2, <1>3 DEF Floor, Outside
<1>5. Height(m, k) \in Nat /\ Reach(m, k) \in Nat
  <2>1. CASE k = Tip(m)
    BY <1>2, <2>1 DEF Height, Reach
  <2>2. CASE k # Tip(m)
    <3>1. k + 1 \in 1..Tip(m)
      BY <1>2, <2>2
    <3>2. m.frames[k + 1].base + 1 \in Nat /\ m.frames[k + 1].depth \in Nat
      BY <1>3, <3>1
    <3> QED BY <2>2, <3>2 DEF Height, Reach
  <2> QED BY <2>1, <2>2
<1> QED BY <1>1, <1>2, <1>4, <1>5

\* What lies below activation k: nothing of a later one.
LEMMA Layers ==
  ASSUME NEW c, NEW A, NEW m, Whole(c, A), Running(c, A, m), NEW k \in 0..Tip(m), NEW j \in 0..Tip(m)
  PROVE  /\ j <= k => Floor(m, j) <= Floor(m, k) /\ Outside(m, j) <= Outside(m, k)
         /\ j < k => /\ Reach(m, j) <= Outside(m, k) /\ Height(m, j) <= Floor(m, k) + 1
                     /\ c[Place(m, j)].op = "CALL"
<1>1. Tip(m) \in Nat /\ m.frames \in Seq(Frame)
  BY RunningFacts
<1>2. \A i \in 1..Tip(m) : m.frames[i].base \in Nat /\ m.frames[i].depth \in Nat
  <2>1. \A i \in 1..Tip(m) : m.frames[i] \in Frame
    BY <1>1 DEF Tip
  <2> QED BY <2>1 DEF Frame
<1>3. \A i, h \in 1..Tip(m) : i <= h => /\ m.frames[i].base <= m.frames[h].base
                                        /\ m.frames[i].depth <= m.frames[h].depth
  BY DEF Running
<1>4. \A h \in 1..Tip(m) : c[m.frames[h].ret - 1].op = "CALL"
  BY DEF Running
<1>5. ASSUME j <= k
      PROVE  Floor(m, j) <= Floor(m, k) /\ Outside(m, j) <= Outside(m, k)
  <2>1. CASE j = 0
    <3>1. Floor(m, j) = 0 /\ Outside(m, j) = 0
      BY <2>1 DEF Floor, Outside
    <3>2. Floor(m, k) \in Nat /\ Outside(m, k) \in Nat
      BY RunningFacts
    <3> QED BY <3>1, <3>2
  <2>2. CASE j # 0
    <3>1. j \in 1..Tip(m) /\ k \in 1..Tip(m) /\ k # 0
      BY <1>1, <1>5, <2>2
    <3> QED BY <1>3, <1>5, <2>2, <3>1 DEF Floor, Outside
  <2> QED BY <2>1, <2>2
<1>6. ASSUME j < k
      PROVE  Reach(m, j) <= Outside(m, k) /\ Height(m, j) <= Floor(m, k) + 1 /\ c[Place(m, j)].op = "CALL"
  <2>1. PICK i \in 1..Tip(m) : i = j + 1
    BY <1>1, <1>6
  <2>2. j # Tip(m) /\ k # 0 /\ k \in 1..Tip(m) /\ i <= k
    BY <1>1, <1>6, <2>1
  <2>3. Reach(m, j) = m.frames[i].depth /\ Height(m, j) = m.frames[i].base + 1 /\ Place(m, j) = m.frames[i].ret - 1
    BY <2>1, <2>2 DEF Reach, Height, Place
  <2>4. Outside(m, k) = m.frames[k].depth /\ Floor(m, k) = m.frames[k].base
    BY <2>2 DEF Outside, Floor
  <2>5. m.frames[i].depth <= m.frames[k].depth /\ m.frames[i].base <= m.frames[k].base
    BY <1>3, <2>1, <2>2
  <2>6. Reach(m, j) <= Outside(m, k)
    BY <2>3, <2>4, <2>5
  <2>7. Height(m, j) <= Floor(m, k) + 1
    BY <1>2, <2>1, <2>2, <2>3, <2>4, <2>5
  <2>8. c[Place(m, j)].op = "CALL"
    BY <1>4, <2>1, <2>3
  <2> QED BY <2>6, <2>7, <2>8
<1> QED BY <1>5, <1>6

\* m2 has gone back to activation k of m, and changed nothing below it.
Cut(m, m2, k) ==
    /\ Sized(m2) /\ m2.frames = SubSeq(m.frames, 1, k)
    /\ \A i \in 1..Floor(m, k) : m2.stack[i] = m.stack[i]
    /\ Outside(m, k) <= Len(m2.handlers) /\ Outside(m, k) <= Len(m.handlers)
    /\ \A i \in 1..Outside(m, k) : m2.handlers[i] = m.handlers[i]
    /\ \A i \in (Outside(m, k) + 1)..Len(m2.handlers) : m2.handlers[i].fp = k

LEMMA CutFrames ==
  ASSUME NEW c, NEW A, NEW m, NEW m2, NEW k \in 0..Tip(m), Running(c, A, m), Cut(m, m2, k)
  PROVE  /\ Tip(m2) = k /\ \A j \in 1..k : m2.frames[j] = m.frames[j]
         /\ \A j \in 0..k : Floor(m2, j) = Floor(m, j) /\ Outside(m2, j) = Outside(m, j)
         /\ \A j \in 0..(k - 1) : /\ Place(m2, j) = Place(m, j) /\ Height(m2, j) = Height(m, j)
                                  /\ Reach(m2, j) = Reach(m, j)
<1>1. Tip(m) \in Nat /\ k \in Nat /\ m.frames \in Seq(Frame) /\ Tip(m) = Len(m.frames)
  BY RunningFacts DEF Tip
<1>2. Len(SubSeq(m.frames, 1, k)) = k /\ \A j \in 1..k : SubSeq(m.frames, 1, k)[j] = m.frames[j]
  <2>1. k \in 0..Len(m.frames)
    BY <1>1
  <2> QED BY <1>1, <2>1, InitialPart
<1>3. Tip(m2) = k /\ \A j \in 1..k : m2.frames[j] = m.frames[j]
  BY <1>2 DEF Cut, Tip
<1>4. ASSUME NEW j \in 0..k
      PROVE  Floor(m2, j) = Floor(m, j) /\ Outside(m2, j) = Outside(m, j)
  <2>1. j # 0 => j \in 1..k
    BY <1>1
  <2> QED BY <1>3, <2>1 DEF Floor, Outside
<1>5. ASSUME NEW j \in 0..(k - 1)
      PROVE  /\ Place(m2, j) = Place(m, j) /\ Height(m2, j) = Height(m, j)
             /\ Reach(m2, j) = Reach(m, j)
  <2>1. j # k /\ j # Tip(m) /\ j + 1 \in 1..k
    BY <1>1
  <2> QED BY <1>3, <2>1 DEF Place, Height, Reach
<1> QED BY <1>3, <1>4, <1>5

LEMMA CutBelow ==
  ASSUME NEW c, NEW A, NEW m, NEW m2, NEW k \in 0..Tip(m), Whole(c, A), Running(c, A, m), Cut(m, m2, k),
         NEW j \in 0..(k - 1)
  PROVE  Place(m2, j) \in 1..Len(c) /\ Standing(c, A, m2, j, A[Place(m2, j)])
<1>1. PICK s, p : p = Place(m, j) /\ s = A[p]
  OBVIOUS
<1>2. Tip(m) \in Nat /\ k \in Nat /\ j \in 0..Tip(m) /\ j < k /\ j \in 0..k
  BY RunningFacts
<1>3. p \in 1..Len(c) /\ Standing(c, A, m, j, s) /\ Floor(m, j) \in Nat /\ Outside(m, j) \in Nat /\ Height(m, j) \in Nat
      /\ Reach(m, j) \in Nat
  BY <1>1, <1>2, RunningFacts
<1>4. Reach(m, j) <= Outside(m, k) /\ Height(m, j) <= Floor(m, k) + 1 /\ c[p].op = "CALL"
  BY <1>1, <1>2, Layers
<1>5. Floor(m, k) \in Nat /\ Outside(m, k) \in Nat
  BY RunningFacts
<1>6. s \in Shape /\ s.temps > 0 /\ s.temps \in Nat /\ Len(s.vars) \in Nat /\ Len(s.tries) \in Nat
  <2>1. A[p] \in Shape /\ Legal(c[p], A[p])
    BY <1>3, WholeFacts DEF Works
  <2> QED BY <1>1, <1>4, <2>1 DEF Legal, Shape
<1>7. /\ Place(m2, j) = p /\ Height(m2, j) = Height(m, j) /\ Reach(m2, j) = Reach(m, j)
      /\ Floor(m2, j) = Floor(m, j) /\ Outside(m2, j) = Outside(m, j)
  BY <1>1, <1>2, CutFrames
<1>8. PICK b, o, h : b = Floor(m, j) /\ o = Outside(m, j) /\ h = Height(m, j)
  OBVIOUS
<1>9. /\ s.func <=> j > 0
      /\ b + Len(s.vars) + s.temps <= h
      /\ j = 0 => h = s.temps
      /\ \A i \in 1..Len(s.vars) : m.stack[b + i] = <<s.vars[i], j>>
      /\ Reach(m, j) = o + Len(s.tries)
      /\ \A i \in 1..Len(s.tries) : Guards(c, A, m.handlers[o + i], j, s.tries[i], b, h - s.temps)
      /\ \A i, q \in 1..Len(s.tries) : i < q => m.handlers[o + i].sp <= m.handlers[o + q].sp
  BY <1>3, <1>8 DEF Standing
<1>10. \A i \in 1..Len(s.vars) : b + i \in 1..Floor(m, k)
  <2>1. PICK n, t, f : n = Len(s.vars) /\ t = s.temps /\ f = Floor(m, k)
    OBVIOUS
  <2>2. n \in Nat /\ t \in Nat /\ f \in Nat /\ b \in Nat /\ h \in Nat /\ t > 0 /\ b + n + t <= h /\ h <= f + 1
    BY <1>3, <1>4, <1>5, <1>6, <1>8, <1>9, <2>1
  <2>3. \A i \in 1..n : b + i \in 1..f
    BY ONLY <2>2
  <2> QED BY <2>1, <2>3
<1>11. \A i \in 1..Len(s.vars) : m2.stack[b + i] = m.stack[b + i]
  BY <1>10 DEF Cut
<1>12. \A i \in 1..Len(s.tries) : o + i \in 1..Outside(m, k)
  <2>1. PICK n, f : n = Len(s.tries) /\ f = Outside(m, k)
    OBVIOUS
  <2>2. n \in Nat /\ f \in Nat /\ o \in Nat /\ o + n <= f
    BY <1>3, <1>4, <1>5, <1>6, <1>8, <1>9, <2>1
  <2>3. \A i \in 1..n : o + i \in 1..f
    BY ONLY <2>2
  <2> QED BY <2>1, <2>3
<1>13. \A i \in 1..Len(s.tries) : m2.handlers[o + i] = m.handlers[o + i]
  BY <1>12 DEF Cut
<1>14. Standing(c, A, m2, j, s)
  BY <1>7, <1>8, <1>9, <1>11, <1>13 DEF Standing
<1> QED BY <1>1, <1>3, <1>7, <1>14

\* Back in activation k, with m2.ip to run next.
Resumes(c, A, m, m2, k) ==
    /\ k \in 0..Tip(m) /\ Cut(m, m2, k) /\ m2.ip \in 1..Len(c) /\ Standing(c, A, m2, k, A[m2.ip]) /\ Passes(A, m2)

LEMMA BackTo ==
  ASSUME NEW c, NEW A, NEW m, NEW m2, NEW k, Whole(c, A), Running(c, A, m), Resumes(c, A, m, m2, k)
  PROVE  Running(c, A, m2)
<1>1. /\ k \in 0..Tip(m) /\ Cut(m, m2, k) /\ m2.ip \in 1..Len(c) /\ Standing(c, A, m2, k, A[m2.ip])
      /\ Passes(A, m2)
  BY DEF Resumes
<1>2. Tip(m) \in Nat /\ k \in Nat /\ Floor(m, k) \in Nat /\ Outside(m, k) \in Nat
  BY <1>1, RunningFacts
<1>3. Tip(m2) = k /\ \A j \in 1..k : m2.frames[j] = m.frames[j]
  BY <1>1, CutFrames
<1>4. Sized(m2)
  BY <1>1 DEF Cut
<1>5. ASSUME NEW j \in 0..k PROVE Place(m2, j) \in 1..Len(c) /\ Standing(c, A, m2, j, A[Place(m2, j)])
  <2>1. CASE j = k
    BY <1>1, <1>3, <2>1 DEF Place
  <2>2. CASE j # k
    <3>1. j \in 0..(k - 1)
      BY <1>2, <2>2
    <3> QED BY <1>1, <3>1, CutBelow
  <2> QED BY <2>1, <2>2
<1>6. \A j \in 1..k : c[m2.frames[j].ret - 1].op = "CALL"
  <2>1. \A j \in 1..k : j \in 1..Tip(m)
    BY <1>1, <1>2
  <2> QED BY <1>3, <2>1 DEF Running
<1>7. \A i, j \in 1..k : i <= j => /\ m2.frames[i].base <= m2.frames[j].base
                                   /\ m2.frames[i].depth <= m2.frames[j].depth
  <2>1. \A j \in 1..k : j \in 1..Tip(m)
    BY <1>1, <1>2
  <2> QED BY <1>3, <2>1 DEF Running
<1>8. ASSUME NEW i \in 1..Len(m2.handlers), NEW j, j = m2.handlers[i].fp
      PROVE  j \in 0..k /\ i \in (Outside(m2, j) + 1)..Reach(m2, j)
  <2>1. Len(m2.handlers) \in Nat
    BY <1>4 DEF Sized
  <2>2. CASE i > Outside(m, k)
    <3>1. i \in (Outside(m, k) + 1)..Len(m2.handlers)
      BY <1>2, <2>1, <2>2
    <3>2. j = k
      BY <1>1, <1>8, <3>1 DEF Cut
    <3>3. Outside(m2, k) = Outside(m, k)
      <4>1. k \in 0..k
        BY <1>2
      <4> QED BY <1>1, <4>1, CutFrames
    <3>4. Reach(m2, k) = Len(m2.handlers)
      BY <1>3 DEF Reach
    <3> QED BY <1>2, <3>1, <3>2, <3>3, <3>4
  <2>3. CASE ~(i > Outside(m, k))
    <3>1. i \in 1..Outside(m, k) /\ i \in 1..Len(m.handlers)
      <4>1. Outside(m, k) <= Len(m.handlers) /\ Len(m.handlers) \in Nat
        BY <1>1, RunningFacts DEF Cut
      <4> QED BY <1>2, <2>1, <2>3, <4>1
    <3>2. j = m.handlers[i].fp
      BY <1>1, <1>8, <3>1 DEF Cut
    <3>3. j \in 0..Tip(m) /\ i \in (Outside(m, j) + 1)..Reach(m, j)
      BY <3>1, <3>2 DEF Running
    <3>4. j < k
      <4>1. Outside(m, j) \in Nat
        BY <3>3, RunningFacts
      <4>2. k <= j => Outside(m, k) <= Outside(m, j)
        BY <1>1, <3>3, Layers
      <4> QED BY <1>2, <3>1, <3>3, <4>1, <4>2
    <3>5. j \in 0..k /\ j \in 0..(k - 1)
      BY <1>2, <3>3, <3>4
    <3>6. Outside(m2, j) = Outside(m, j) /\ Reach(m2, j) = Reach(m, j)
      BY <1>1, <3>5, CutFrames
    <3> QED BY <3>3, <3>5, <3>6
  <2> QED BY <2>2, <2>3
<1> QED BY <1>1, <1>3, <1>4, <1>5, <1>6, <1>7, <1>8 DEF Running

\* The last activation, k, with stack st and handlers ha, is in shape s.
Tops(c, A, st, ha, k, b, o, s) ==
    /\ s.func <=> k > 0
    /\ b + Len(s.vars) + s.temps <= Len(st)
    /\ k = 0 => Len(st) = s.temps
    /\ \A i \in 1..Len(s.vars) : st[b + i] = <<s.vars[i], k>>
    /\ Len(ha) = o + Len(s.tries)
    /\ \A i \in 1..Len(s.tries) : Guards(c, A, ha[o + i], k, s.tries[i], b, Len(st) - s.temps)
    /\ \A i, j \in 1..Len(s.tries) : i < j => ha[o + i].sp <= ha[o + j].sp

LEMMA TipStands ==
  ASSUME NEW c, NEW A, NEW m, Whole(c, A), Running(c, A, m),
         NEW k, k = Tip(m), NEW b, b = Floor(m, k), NEW o, o = Outside(m, k), NEW s, s = A[m.ip]
  PROVE  /\ k \in Nat /\ k \in 0..Tip(m) /\ b \in Nat /\ o \in Nat /\ m.ip \in 1..Len(c) /\ s \in Shape
         /\ m.stack \in Seq(Value) /\ m.handlers \in Seq(Handler) /\ m.frames \in Seq(Frame)
         /\ Tops(c, A, m.stack, m.handlers, k, b, o, s)
         /\ c[m.ip] \in Instr /\ Works(c, A, m.ip) /\ Lands(c, A, m.ip, Len(c)) /\ Nests(c, A, s)
         /\ Legal(c[m.ip], s)
         /\ Falls(c[m.ip].op) => m.ip + 1 \in 1..Len(c) /\ Steps(c[m.ip], m.ip, s, A[m.ip + 1])
<1>1. Tip(m) \in Nat
  <2>1. m.frames \in Seq(Frame)
    BY DEF Running, Sized
  <2> QED BY <2>1 DEF Tip
<1>2. k \in Nat /\ k \in 0..Tip(m)
  BY <1>1
<1>3. /\ b \in Nat /\ o \in Nat /\ m.stack \in Seq(Value) /\ m.handlers \in Seq(Handler) /\ m.frames \in Seq(Frame)
      /\ Place(m, k) \in 1..Len(c) /\ Standing(c, A, m, k, A[Place(m, k)])
  BY <1>2, RunningFacts
<1>4. Place(m, k) = m.ip /\ Height(m, k) = Len(m.stack) /\ Reach(m, k) = Len(m.handlers)
  BY DEF Place, Height, Reach
<1>5. Tops(c, A, m.stack, m.handlers, k, b, o, s)
  BY <1>3, <1>4 DEF Standing, Tops
<1>6. m.ip \in 1..Len(c)
  BY <1>3, <1>4
<1>7. /\ c[m.ip] \in Instr /\ s \in Shape /\ Works(c, A, m.ip) /\ Lands(c, A, m.ip, Len(c)) /\ Nests(c, A, s)
      /\ Falls(c[m.ip].op) => m.ip < Len(c)
  BY <1>6, WholeFacts
<1>8. Len(c) \in Nat
  BY WholeFacts
<1>9. Falls(c[m.ip].op) => m.ip + 1 \in 1..Len(c)
  BY <1>6, <1>7, <1>8
<1> QED BY <1>2, <1>3, <1>5, <1>6, <1>7, <1>9 DEF Works

\* The last activation goes on.
Continues(c, A, m, m2, k, b, o) ==
    /\ k = Tip(m) /\ b = Floor(m, k) /\ o = Outside(m, k)
    /\ Sized(m2) /\ m2.frames = m.frames /\ m2.ip \in 1..Len(c)
    /\ \A i \in 1..b : m2.stack[i] = m.stack[i]
    /\ \A i \in 1..o : m2.handlers[i] = m.handlers[i]
    /\ Tops(c, A, m2.stack, m2.handlers, k, b, o, A[m2.ip])
    /\ Passes(A, m2)

LEMMA TipRuns ==
  ASSUME NEW c, NEW A, NEW m, NEW m2, NEW k, NEW b, NEW o, Whole(c, A), Running(c, A, m),
         Continues(c, A, m, m2, k, b, o)
  PROVE  Running(c, A, m2)
<1>1. /\ k = Tip(m) /\ b = Floor(m, k) /\ o = Outside(m, k)
      /\ Sized(m2) /\ m2.frames = m.frames /\ m2.ip \in 1..Len(c)
      /\ \A i \in 1..b : m2.stack[i] = m.stack[i]
      /\ \A i \in 1..o : m2.handlers[i] = m.handlers[i]
      /\ Tops(c, A, m2.stack, m2.handlers, k, b, o, A[m2.ip])
      /\ Passes(A, m2)
  BY DEF Continues
<1>2. PICK s, d : s = A[m.ip] /\ d = A[m2.ip]
  OBVIOUS
<1>3. /\ k \in Nat /\ k \in 0..Tip(m) /\ b \in Nat /\ o \in Nat
      /\ m.frames \in Seq(Frame) /\ s \in Shape /\ Tops(c, A, m.stack, m.handlers, k, b, o, s)
  BY <1>1, <1>2, TipStands
<1>4. m2.stack \in Seq(Value) /\ m2.handlers \in Seq(Handler) /\ Len(m2.handlers) \in Nat
  BY <1>1 DEF Sized
<1>5. d \in Shape /\ Len(d.tries) \in Nat /\ Len(s.tries) \in Nat
  <2>1. d \in Shape
    BY <1>1, <1>2, WholeFacts
  <2> QED BY <1>3, <2>1 DEF Shape
<1>6. Tip(m2) = k /\ Floor(m2, k) = b /\ Outside(m2, k) = o
  BY <1>1 DEF Tip, Floor, Outside
<1>7. Height(m2, k) = Len(m2.stack) /\ Reach(m2, k) = Len(m2.handlers)
  BY <1>6 DEF Height, Reach
<1>8. Standing(c, A, m2, k, d)
  BY <1>1, <1>2, <1>6, <1>7 DEF Standing, Tops
<1>9. Len(m2.handlers) = o + Len(d.tries) /\ Len(m.handlers) = o + Len(s.tries)
  BY <1>1, <1>2, <1>3 DEF Tops
<1>10. ASSUME NEW i \in (o + 1)..Len(m2.handlers) PROVE m2.handlers[i].fp = k
  <2>1. PICK j \in 1..Len(d.tries) : i = o + j
    <3>1. i - o \in 1..Len(d.tries) /\ i = o + (i - o)
      BY <1>3, <1>4, <1>5, <1>9
    <3> QED BY <3>1
  <2>2. Guards(c, A, m2.handlers[o + j], k, d.tries[j], b, Len(m2.stack) - d.temps)
    BY <1>1, <1>2, <2>1 DEF Tops
  <2> QED BY <2>1, <2>2 DEF Guards
<1>11. m2.frames = SubSeq(m.frames, 1, k)
  <2>1. m.frames = SubSeq(m.frames, 1, Len(m.frames))
    BY <1>3
  <2> QED BY <1>1, <2>1 DEF Tip
<1>12. o <= Len(m2.handlers) /\ o <= Len(m.handlers)
  BY <1>3, <1>5, <1>9
<1>13. Cut(m, m2, k)
  BY <1>1, <1>10, <1>11, <1>12 DEF Cut
<1>14. Resumes(c, A, m, m2, k)
  BY <1>1, <1>2, <1>3, <1>8, <1>13 DEF Resumes
<1> QED BY <1>14, BackTo

\* An instruction that changes the temporaries only.
Moves(c, A, m, m2, k, b, s, d) ==
    /\ k = Tip(m) /\ b = Floor(m, k) /\ s = A[m.ip] /\ d = A[m2.ip]
    /\ Sized(m2) /\ m2.frames = m.frames /\ m2.handlers = m.handlers /\ m2.ip \in 1..Len(c)
    /\ d.func = s.func /\ d.tries = s.tries /\ Prefix(d.vars, s.vars)
    /\ Len(m2.stack) - d.temps = Len(m.stack) - s.temps
    /\ \A i \in 1..(b + Len(s.vars)) : m2.stack[i] = m.stack[i]
    /\ Passes(A, m2)

LEMMA MovesRuns ==
  ASSUME NEW c, NEW A, NEW m, NEW m2, NEW k, NEW b, NEW s, NEW d, Whole(c, A), Running(c, A, m),
         Moves(c, A, m, m2, k, b, s, d)
  PROVE  Running(c, A, m2)
<1>1. /\ k = Tip(m) /\ b = Floor(m, k) /\ s = A[m.ip] /\ d = A[m2.ip]
      /\ Sized(m2) /\ m2.frames = m.frames /\ m2.handlers = m.handlers /\ m2.ip \in 1..Len(c)
      /\ d.func = s.func /\ d.tries = s.tries /\ Prefix(d.vars, s.vars)
      /\ Len(m2.stack) - d.temps = Len(m.stack) - s.temps
      /\ \A i \in 1..(b + Len(s.vars)) : m2.stack[i] = m.stack[i]
      /\ Passes(A, m2)
  BY DEF Moves
<1>2. PICK o, n, n2 : o = Outside(m, k) /\ n = Len(m.stack) /\ n2 = Len(m2.stack)
  OBVIOUS
<1>3. /\ b \in Nat /\ o \in Nat /\ s \in Shape /\ m.stack \in Seq(Value)
      /\ Tops(c, A, m.stack, m.handlers, k, b, o, s)
  BY <1>1, <1>2, TipStands
<1>4. d \in Shape
  BY <1>1, WholeFacts
<1>5. /\ n \in Nat /\ n2 \in Nat /\ Len(s.vars) \in Nat /\ Len(d.vars) \in Nat
      /\ s.temps \in Nat /\ d.temps \in Nat
  <2>1. m2.stack \in Seq(Value)
    BY <1>1 DEF Sized
  <2>2. n \in Nat /\ n2 \in Nat
    BY <1>2, <1>3, <2>1
  <2>3. s.vars \in Seq(Nat) /\ d.vars \in Seq(Nat) /\ s.temps \in Nat /\ d.temps \in Nat
    BY <1>3, <1>4 DEF Shape
  <2> QED BY <2>2, <2>3
<1>6. /\ s.func <=> k > 0
      /\ b + Len(s.vars) + s.temps <= n
      /\ k = 0 => n = s.temps
      /\ \A i \in 1..Len(s.vars) : m.stack[b + i] = <<s.vars[i], k>>
      /\ Len(m.handlers) = o + Len(s.tries)
      /\ \A i \in 1..Len(s.tries) : Guards(c, A, m.handlers[o + i], k, s.tries[i], b, n - s.temps)
      /\ \A i, j \in 1..Len(s.tries) : i < j => m.handlers[o + i].sp <= m.handlers[o + j].sp
  BY <1>2, <1>3 DEF Tops
<1>7. n2 - d.temps = n - s.temps
  BY <1>1, <1>2
<1>8. Len(d.vars) <= Len(s.vars) /\ \A i \in 1..Len(d.vars) : d.vars[i] = s.vars[i]
  BY <1>1 DEF Prefix
<1>9. b + Len(d.vars) + d.temps <= n2 /\ (k = 0 => n2 = d.temps)
  <2>1. PICK x, y, t, u : x = Len(s.vars) /\ y = Len(d.vars) /\ t = s.temps /\ u = d.temps
    OBVIOUS
  <2>2. /\ x \in Nat /\ y \in Nat /\ t \in Nat /\ u \in Nat /\ n \in Nat /\ n2 \in Nat /\ b \in Nat
        /\ b + x + t <= n /\ n2 - u = n - t /\ y <= x
        /\ k = 0 => n = t
    BY <1>3, <1>5, <1>6, <1>7, <1>8, <2>1
  <2>3. b + y + u <= n2
    BY ONLY <2>2
  <2>4. k = 0 => n2 = u
    BY ONLY <2>2
  <2> QED BY <2>1, <2>3, <2>4
<1>10. \A i \in 1..Len(d.vars) : i \in 1..Len(s.vars) /\ b + i \in 1..(b + Len(s.vars))
  BY <1>3, <1>5, <1>8
<1>11. \A i \in 1..Len(d.vars) : m2.stack[b + i] = <<d.vars[i], k>>
  <2>1. ASSUME NEW i \in 1..Len(d.vars) PROVE m2.stack[b + i] = <<d.vars[i], k>>
    <3>1. i \in 1..Len(s.vars) /\ b + i \in 1..(b + Len(s.vars)) /\ d.vars[i] = s.vars[i]
      BY <1>8, <1>10
    <3>2. m2.stack[b + i] = m.stack[b + i] /\ m.stack[b + i] = <<s.vars[i], k>>
      BY <1>1, <1>6, <3>1
    <3> QED BY <3>1, <3>2
  <2> QED BY <2>1
<1>12. Tops(c, A, m2.stack, m2.handlers, k, b, o, d)
  <2>1. \A i \in 1..Len(d.tries) : Guards(c, A, m2.handlers[o + i], k, d.tries[i], b, Len(m2.stack) - d.temps)
    BY <1>1, <1>2, <1>6, <1>7
  <2>2. /\ d.func <=> k > 0
        /\ Len(m2.handlers) = o + Len(d.tries)
        /\ \A i, j \in 1..Len(d.tries) : i < j => m2.handlers[o + i].sp <= m2.handlers[o + j].sp
    BY <1>1, <1>6
  <2>3. b + Len(d.vars) + d.temps <= Len(m2.stack) /\ (k = 0 => Len(m2.stack) = d.temps)
    BY <1>2, <1>9
  <2> QED BY <1>11, <2>1, <2>2, <2>3 DEF Tops
<1>13. \A i \in 1..b : m2.stack[i] = m.stack[i]
  <2>1. \A i \in 1..b : i \in 1..(b + Len(s.vars))
    BY <1>3, <1>5
  <2> QED BY <1>1, <2>1
<1>14. Continues(c, A, m, m2, k, b, o)
  BY <1>1, <1>2, <1>12, <1>13 DEF Continues
<1> QED BY <1>14, TipRuns
-----------------------------------------------------------------------------
\* The instructions.

Stops == /\ phase' \in {"uncaught", "overflow"} /\ stack' = <<>> /\ handlers' = <<>> /\ frames' = frames
Stays(A) == phase' = phase /\ Running(code, A, Machine')
Stepped(A) == Stops \/ Stays(A)

\* The machine about to run instruction i, in shape s.
Ready(A, m, i, s, k, b, o) ==
    /\ m.ip = ip /\ m.stack = stack /\ m.frames = frames /\ m.handlers = handlers
    /\ Whole(code, A) /\ Running(code, A, m) /\ k = Tip(m) /\ b = Floor(m, k) /\ o = Outside(m, k)
    /\ k = Fp /\ b = Base /\ o = Depth /\ i = Op /\ s = A[ip]
    /\ k \in Nat /\ b \in Nat /\ o \in Nat /\ ip \in 1..Len(code) /\ code \in Seq(Instr)
    /\ i \in Instr /\ s \in Shape /\ stack \in Seq(Value) /\ handlers \in Seq(Handler) /\ frames \in Seq(Frame)
    /\ Sized(m)
    /\ Tops(code, A, stack, handlers, k, b, o, s)
    /\ Legal(i, s) /\ Works(code, A, ip) /\ Lands(code, A, ip, Len(code)) /\ Nests(code, A, s)
    /\ Falls(i.op) => ip + 1 \in 1..Len(code) /\ Steps(i, ip, s, A[ip + 1])

LEMMA ReadyNow ==
  ASSUME NEW A, MachineInv(A), NEW m, m = Machine, NEW i, i = Op, NEW s, s = A[ip],
         NEW k, k = Fp, NEW b, b = Base, NEW o, o = Depth
  PROVE  Ready(A, m, i, s, k, b, o)
<1>1. PICK c : c = code
  OBVIOUS
<1>2. Whole(c, A) /\ Running(c, A, m)
  BY <1>1 DEF MachineInv
<1>3. m.ip = ip /\ m.stack = stack /\ m.frames = frames /\ m.handlers = handlers
  BY DEF Machine
<1>4. k = Tip(m)
  BY <1>3 DEF Tip, Fp
<1>5. k \in Nat
  <2>1. m.frames \in Seq(Frame)
    BY <1>2 DEF Running, Sized
  <2> QED BY <1>4, <2>1 DEF Tip
<1>6. b = Floor(m, k) /\ o = Outside(m, k)
  BY <1>3, <1>4, <1>5 DEF Floor, Outside, Base, Depth, Fp
<1>7. /\ b \in Nat /\ o \in Nat /\ m.ip \in 1..Len(c)
      /\ s \in Shape /\ m.stack \in Seq(Value) /\ m.handlers \in Seq(Handler) /\ m.frames \in Seq(Frame)
      /\ Tops(c, A, m.stack, m.handlers, k, b, o, s)
      /\ c[m.ip] \in Instr /\ Works(c, A, m.ip) /\ Lands(c, A, m.ip, Len(c)) /\ Nests(c, A, s)
      /\ Legal(c[m.ip], s)
      /\ Falls(c[m.ip].op) => m.ip + 1 \in 1..Len(c) /\ Steps(c[m.ip], m.ip, s, A[m.ip + 1])
  <2>1. s = A[m.ip]
    BY <1>3
  <2> QED BY <1>2, <1>4, <1>6, <2>1, TipStands
<1>8. c[m.ip] = i
  BY <1>1, <1>3 DEF Op
<1>9. c \in Seq(Instr)
  BY <1>2, WholeFacts
<1>10. Sized(m)
  BY <1>2 DEF Running
<1> QED BY <1>1, <1>2, <1>3, <1>4, <1>5, <1>6, <1>7, <1>8, <1>9, <1>10 DEF Ready

\* A machine with fitting parts.
LEMMA SizedAfter ==
  ASSUME NEW st \in Seq(Value), NEW fr \in Seq(Frame), NEW ha \in Seq(Handler),
         Len(st) <= StackMax, Len(fr) <= FramesMax, Len(ha) <= HandlersMax,
         NEW m, m.stack = st, m.frames = fr, m.handlers = ha
  PROVE  Sized(m)
BY DEF Sized, Tip

LEMMA Room ==
  ASSUME NEW st \in Seq(Value), NEW v \in Value, Len(st) < StackMax, NEW t, t = Append(st, v)
  PROVE  /\ t \in Seq(Value) /\ Len(t) = Len(st) + 1 /\ Len(t) <= StackMax /\ t[Len(t)] = v
         /\ \A i \in 1..Len(st) : t[i] = st[i]
<1>1. t \in Seq(Value) /\ Len(t) = Len(st) + 1 /\ t[Len(st) + 1] = v /\ \A i \in 1..Len(st) : t[i] = st[i]
  BY AppendProperties
<1>2. StackMax \in Nat /\ Len(st) \in Nat
  BY ControlAssumption
<1>3. Len(t) <= StackMax
  BY <1>1, <1>2
<1> QED BY <1>1, <1>3

\* A value v on top of st: the temporaries change, nothing else.
Pushes(A, st, v, s, i) ==
    /\ st \in Seq(Value) /\ v \in Value /\ PushOrFail(st, v, ip + 1)
    /\ i.op \in {"PUSH", "BINARY", "GET_LOCAL"}
    /\ Len(st) + 1 - TempsAfter(i, s) = Sp - s.temps
    /\ \A j \in 1..(Base + Len(s.vars)) : j <= Len(st) /\ st[j] = stack[j]
    /\ i.op = "PUSH" /\ i.var = Param => v = <<Param, Fp + 1>>

LEMMA PushesRuns ==
  ASSUME NEW A, NEW m, NEW i, NEW s, NEW k, NEW b, NEW o, Ready(A, m, i, s, k, b, o), NEW st, NEW v,
         Pushes(A, st, v, s, i)
  PROVE  Stepped(A)
<1>1. /\ st \in Seq(Value) /\ v \in Value /\ PushOrFail(st, v, ip + 1)
      /\ i.op \in {"PUSH", "BINARY", "GET_LOCAL"}
      /\ Len(st) + 1 - TempsAfter(i, s) = Sp - s.temps
      /\ \A j \in 1..(Base + Len(s.vars)) : j <= Len(st) /\ st[j] = stack[j]
      /\ i.op = "PUSH" /\ i.var = Param => v = <<Param, Fp + 1>>
  BY DEF Pushes
<1>2. CASE ~(Len(st) < StackMax)
  BY <1>1, <1>2 DEF PushOrFail, Fail, Stop, Stepped, Stops
<1>3. CASE Len(st) < StackMax
  <2>1. PICK c, m2, t, d : c = code /\ m2 = Machine' /\ t = Append(st, v) /\ d = A[ip + 1]
    OBVIOUS
  <2>2. stack' = t /\ ip' = ip + 1 /\ phase' = phase /\ frames' = frames /\ handlers' = handlers
    BY <1>1, <1>3, <2>1 DEF PushOrFail, Go, OnlyStack
  <2>3. t \in Seq(Value) /\ Len(t) = Len(st) + 1 /\ Len(t) <= StackMax /\ t[Len(t)] = v
        /\ \A j \in 1..Len(st) : t[j] = st[j]
    BY <1>1, <1>3, <2>1, Room
  <2>4. m2.ip = ip + 1 /\ m2.stack = t /\ m2.frames = frames /\ m2.handlers = handlers
    BY <2>1, <2>2 DEF Machine
  <2>5. /\ m.ip = ip /\ m.stack = stack /\ m.frames = frames /\ m.handlers = handlers
        /\ Whole(c, A) /\ Running(c, A, m) /\ k = Tip(m) /\ b = Floor(m, k)
        /\ k = Fp /\ b = Base /\ s = A[ip] /\ s \in Shape /\ Sized(m)
        /\ stack \in Seq(Value) /\ handlers \in Seq(Handler) /\ frames \in Seq(Frame) /\ b \in Nat
    BY <2>1 DEF Ready
  <2>6. ip + 1 \in 1..Len(c) /\ Steps(i, ip, s, d)
    <3>1. Falls(i.op)
      BY <1>1 DEF Falls
    <3> QED BY <2>1, <3>1 DEF Ready
  <2>7. Sized(m2)
    <3>1. Len(frames) <= FramesMax /\ Len(handlers) <= HandlersMax
      BY <2>5 DEF Sized, Tip
    <3> QED BY <2>3, <2>4, <2>5, <3>1, SizedAfter
  <2>8. d.func = s.func /\ d.tries = s.tries /\ Prefix(d.vars, s.vars) /\ d.temps = TempsAfter(i, s)
        /\ (d.arg => i.op = "PUSH" /\ i.var = Param)
    BY <1>1, <2>6 DEF Steps, TriesAfter, VarsAfter
  <2>9. Len(m2.stack) - d.temps = Len(m.stack) - s.temps
    <3>1. Len(m2.stack) = Len(st) + 1 /\ Len(m.stack) = Sp /\ d.temps = TempsAfter(i, s)
      BY <2>3, <2>4, <2>5, <2>8 DEF Sp
    <3>2. Len(st) + 1 - TempsAfter(i, s) = Sp - s.temps
      BY <1>1
    <3>3. d \in Shape
      BY <2>1, <2>5, <2>6, WholeFacts
    <3>4. Len(st) \in Nat /\ Sp \in Nat /\ s.temps \in Nat /\ d.temps \in Nat
      BY <1>1, <2>5, <3>3 DEF Sp, Shape
    <3>5. PICK x, y, t1, t2 : x = Len(st) /\ y = Sp /\ t1 = d.temps /\ t2 = s.temps
      OBVIOUS
    <3>6. x + 1 - t1 = y - t2
      BY <3>1, <3>2, <3>5
    <3>7. PICK z : z = x + 1
      OBVIOUS
    <3>10. x \in Nat /\ y \in Nat /\ t1 \in Nat /\ t2 \in Nat
      BY <3>4, <3>5
    <3>8. z - t1 = y - t2
      BY ONLY <3>6, <3>7, <3>10
    <3>9. Len(m2.stack) = z /\ d.temps = t1 /\ Len(m.stack) = y /\ s.temps = t2
      BY <3>1, <3>5, <3>7
    <3> QED BY ONLY <3>8, <3>9
  <2>10. \A j \in 1..(b + Len(s.vars)) : m2.stack[j] = m.stack[j]
    <3>1. ASSUME NEW j \in 1..(b + Len(s.vars)) PROVE m2.stack[j] = m.stack[j]
      <4>1. j <= Len(st) /\ st[j] = stack[j]
        BY <1>1, <2>5, <3>1
      <4>2. j \in 1..Len(st)
        <5>1. Len(st) \in Nat /\ Len(s.vars) \in Nat
          BY <1>1, <2>5 DEF Shape
        <5> QED BY <2>5, <3>1, <4>1, <5>1
      <4> QED BY <2>3, <2>4, <2>5, <4>1, <4>2
    <3> QED BY <3>1
  <2>11. Passes(A, m2)
    <3>1. ASSUME d.arg PROVE Len(m2.stack) > 0 /\ m2.stack[Len(m2.stack)] = <<Param, Tip(m2) + 1>>
      <4>1. v = <<Param, Fp + 1>>
        BY <1>1, <2>8, <3>1
      <4>2. Tip(m2) = Fp
        BY <2>4 DEF Tip, Fp
      <4>3. Len(t) > 0
        BY <1>1, <2>3
      <4> QED BY <2>3, <2>4, <4>1, <4>2, <4>3
    <3> QED BY <2>1, <2>4, <3>1 DEF Passes
  <2>12. Moves(c, A, m, m2, k, b, s, d)
    BY <2>1, <2>4, <2>5, <2>6, <2>7, <2>8, <2>9, <2>10, <2>11 DEF Moves
  <2>13. Running(c, A, m2)
    BY <2>5, <2>12, MovesRuns
  <2> QED BY <2>1, <2>2, <2>13 DEF Stepped, Stays
<1> QED BY <1>2, <1>3

LEMMA ReadyNums ==
  ASSUME NEW A, NEW m, NEW i, NEW s, NEW k, NEW b, NEW o, Ready(A, m, i, s, k, b, o)
  PROVE  /\ Sp \in Nat /\ Len(s.vars) \in Nat /\ Len(s.tries) \in Nat /\ s.temps \in Nat /\ b \in Nat /\ o \in Nat /\ k \in Nat
         /\ b + Len(s.vars) + s.temps <= Sp
         /\ Base = b /\ Fp = k /\ Depth = o /\ Op = i /\ Len(stack) = Sp /\ stack \in Seq(Value) /\ Sp <= StackMax
         /\ Len(handlers) = o + Len(s.tries) /\ Len(handlers) \in Nat
<1>1. /\ b \in Nat /\ o \in Nat /\ k \in Nat /\ s \in Shape /\ stack \in Seq(Value) /\ handlers \in Seq(Handler)
      /\ Tops(code, A, stack, handlers, k, b, o, s) /\ Base = b /\ Fp = k /\ Depth = o /\ Op = i
      /\ m.stack = stack /\ Sized(m)
  BY DEF Ready
<1>2. Len(stack) \in Nat /\ Len(handlers) \in Nat /\ Len(s.vars) \in Nat /\ Len(s.tries) \in Nat /\ s.temps \in Nat
  BY <1>1 DEF Shape
<1>3. b + Len(s.vars) + s.temps <= Len(stack) /\ Len(handlers) = o + Len(s.tries)
  BY <1>1 DEF Tops
<1>4. Len(stack) <= StackMax
  BY <1>1 DEF Sized
<1> QED BY <1>1, <1>2, <1>3, <1>4 DEF Sp

LEMMA DropFacts ==
  ASSUME stack \in Seq(Value), NEW n \in 0..Sp, NEW t, t = Drop(n)
  PROVE  t \in Seq(Value) /\ Len(t) = Sp - n /\ \A j \in 1..(Sp - n) : t[j] = stack[j]
<1>1. Sp = Len(stack) /\ Len(stack) \in Nat
  BY DEF Sp
<1>2. PICK l \in 0..Len(stack) : l = Sp - n
  BY <1>1
<1>3. t = SubSeq(stack, 1, l)
  BY <1>2 DEF Drop
<1>4. t \in Seq(Value) /\ Len(t) = l /\ \A j \in 1..l : t[j] = stack[j]
  BY <1>3, InitialPart
<1> QED BY <1>2, <1>4

LEMMA PushRuns ==
  ASSUME NEW A, NEW m, NEW i, NEW s, NEW k, NEW b, NEW o, Ready(A, m, i, s, k, b, o), Push
  PROVE  Stepped(A)
<1>1. /\ Sp \in Nat /\ Len(s.vars) \in Nat /\ s.temps \in Nat /\ b \in Nat /\ k \in Nat
      /\ b + Len(s.vars) + s.temps <= Sp
      /\ Base = b /\ Fp = k /\ Op = i /\ Len(stack) = Sp /\ stack \in Seq(Value)
  BY ReadyNums
<1>2. i.op = "PUSH" /\ Legal(i, s)
  BY <1>1 DEF Push, At, Ready
<1>3. i.var \in {None, Param}
  BY <1>2 DEF Legal
<1>4. PICK v : v = IF i.var = None THEN Temp ELSE <<i.var, Fp + 1>>
  OBVIOUS
<1>5. PushOrFail(stack, v, ip + 1)
  BY <1>1, <1>4 DEF Push
<1>6. None # Param
  BY CompilerAssumption DEF Param
<1>7. v \in Value
  <2>1. Temp \in Value
    BY DEF Temp, Value
  <2>2. <<Param, Fp + 1>> \in Value
    BY <1>1 DEF Value, Param
  <2> QED BY <1>3, <1>4, <2>1, <2>2
<1>8. i.var = Param => v = <<Param, Fp + 1>>
  BY <1>4, <1>6
<1>9. Len(stack) + 1 - TempsAfter(i, s) = Sp - s.temps
  BY <1>1, <1>2 DEF TempsAfter
<1>10. \A j \in 1..(Base + Len(s.vars)) : j <= Len(stack) /\ stack[j] = stack[j]
  BY <1>1
<1>11. Pushes(A, stack, v, s, i)
  BY <1>1, <1>2, <1>5, <1>7, <1>8, <1>9, <1>10 DEF Pushes
<1> QED BY <1>11, PushesRuns

LEMMA BinaryRuns ==
  ASSUME NEW A, NEW m, NEW i, NEW s, NEW k, NEW b, NEW o, Ready(A, m, i, s, k, b, o), Binary
  PROVE  Stepped(A)
<1>1. /\ Sp \in Nat /\ Len(s.vars) \in Nat /\ s.temps \in Nat /\ b \in Nat /\ k \in Nat
      /\ b + Len(s.vars) + s.temps <= Sp
      /\ Base = b /\ Fp = k /\ Op = i /\ Len(stack) = Sp /\ stack \in Seq(Value)
  BY ReadyNums
<1>2. i.op = "BINARY" /\ Legal(i, s)
  BY <1>1 DEF Binary, At, Ready
<1>3. s.temps > 1
  BY <1>2 DEF Legal
<1>4. ~(Sp < 2) /\ 2 \in 0..Sp
  BY <1>1, <1>3
<1>5. PICK st : st = Drop(2)
  OBVIOUS
<1>6. st \in Seq(Value) /\ Len(st) = Sp - 2 /\ \A j \in 1..(Sp - 2) : st[j] = stack[j]
  BY <1>1, <1>4, <1>5, DropFacts
<1>7. PushOrFail(st, Temp, ip + 1)
  BY <1>4, <1>5 DEF Binary
<1>8. Temp \in Value
  BY DEF Temp, Value
<1>9. Len(st) + 1 - TempsAfter(i, s) = Sp - s.temps
  BY <1>1, <1>2, <1>6 DEF TempsAfter
<1>10. \A j \in 1..(Base + Len(s.vars)) : j <= Len(st) /\ st[j] = stack[j]
  <2>1. \A j \in 1..(Base + Len(s.vars)) : j \in 1..(Sp - 2)
    BY <1>1, <1>3
  <2>2. \A j \in 1..(Sp - 2) : j <= Sp - 2
    BY <1>1
  <2> QED BY <1>6, <2>1, <2>2
<1>11. Pushes(A, st, Temp, s, i)
  BY <1>2, <1>6, <1>7, <1>8, <1>9, <1>10 DEF Pushes
<1> QED BY <1>11, PushesRuns

LEMMA GetLocalRuns ==
  ASSUME NEW A, NEW m, NEW i, NEW s, NEW k, NEW b, NEW o, Ready(A, m, i, s, k, b, o), GetLocal
  PROVE  Stepped(A)
<1>1. /\ Sp \in Nat /\ Len(s.vars) \in Nat /\ s.temps \in Nat /\ b \in Nat /\ k \in Nat
      /\ b + Len(s.vars) + s.temps <= Sp
      /\ Base = b /\ Fp = k /\ Op = i /\ Len(stack) = Sp /\ stack \in Seq(Value)
  BY ReadyNums
<1>2. i.op = "GET_LOCAL" /\ Legal(i, s) /\ i \in Instr
  BY <1>1 DEF GetLocal, At, Ready
<1>3. i.n + 1 \in 1..Len(s.vars) /\ i.n \in Int
  BY <1>2 DEF Legal, Instr
<1>4. PICK v : v = stack[b + i.n + 1]
  OBVIOUS
<1>5. PushOrFail(stack, v, ip + 1)
  BY <1>1, <1>4 DEF GetLocal
<1>6. b + i.n + 1 \in 1..Len(stack)
  <2>1. PICK x, t, n : x = Len(s.vars) /\ t = s.temps /\ n = i.n
    OBVIOUS
  <2>2. x \in Nat /\ t \in Nat /\ n \in Int /\ b \in Nat /\ Sp \in Nat /\ b + x + t <= Sp /\ n + 1 \in 1..x
    BY <1>1, <1>3, <2>1
  <2>3. b + n + 1 \in 1..Sp
    BY ONLY <2>2
  <2> QED BY <1>1, <2>1, <2>3
<1>7. v \in Value
  BY <1>1, <1>4, <1>6
<1>8. Len(stack) + 1 - TempsAfter(i, s) = Sp - s.temps
  BY <1>1, <1>2 DEF TempsAfter
<1>9. \A j \in 1..(Base + Len(s.vars)) : j <= Len(stack) /\ stack[j] = stack[j]
  BY <1>1
<1>10. Pushes(A, stack, v, s, i)
  BY <1>1, <1>2, <1>5, <1>7, <1>8, <1>9 DEF Pushes
<1> QED BY <1>10, PushesRuns

\* An instruction that leaves t on the stack and goes to q, in shape d.
Leaves(A, m, s, d, t, q) ==
    /\ stack' = t /\ ip' = q /\ phase' = phase /\ frames' = frames /\ handlers' = handlers
    /\ t \in Seq(Value) /\ Len(t) <= Sp /\ q \in 1..Len(code) /\ d = A[q]
    /\ d.func = s.func /\ d.tries = s.tries /\ Prefix(d.vars, s.vars) /\ ~d.arg
    /\ Len(t) - d.temps = Sp - s.temps
    /\ \A j \in 1..(Base + Len(s.vars)) : t[j] = stack[j]

LEMMA LeavesRuns ==
  ASSUME NEW A, NEW m, NEW i, NEW s, NEW k, NEW b, NEW o, Ready(A, m, i, s, k, b, o), NEW d, NEW t, NEW q,
         Leaves(A, m, s, d, t, q)
  PROVE  Stepped(A)
<1>1. PICK c, m2 : c = code /\ m2 = Machine'
  OBVIOUS
<1>2. /\ stack' = t /\ ip' = q /\ phase' = phase /\ frames' = frames /\ handlers' = handlers
      /\ t \in Seq(Value) /\ Len(t) <= Sp /\ q \in 1..Len(c) /\ d = A[q]
      /\ d.func = s.func /\ d.tries = s.tries /\ Prefix(d.vars, s.vars) /\ ~d.arg
      /\ Len(t) - d.temps = Sp - s.temps
      /\ \A j \in 1..(Base + Len(s.vars)) : t[j] = stack[j]
  BY <1>1 DEF Leaves
<1>3. m2.ip = q /\ m2.stack = t /\ m2.frames = frames /\ m2.handlers = handlers
  BY <1>1, <1>2 DEF Machine
<1>4. /\ m.ip = ip /\ m.stack = stack /\ m.frames = frames /\ m.handlers = handlers
      /\ Whole(c, A) /\ Running(c, A, m) /\ k = Tip(m) /\ b = Floor(m, k)
      /\ b = Base /\ s = A[ip] /\ Sized(m)
      /\ stack \in Seq(Value) /\ handlers \in Seq(Handler) /\ frames \in Seq(Frame)
  BY <1>1 DEF Ready
<1>5. Sized(m2)
  <2>1. Len(frames) <= FramesMax /\ Len(handlers) <= HandlersMax
    BY <1>4 DEF Sized, Tip
  <2>2. Len(t) \in Nat /\ Sp \in Nat /\ Sp <= StackMax /\ StackMax \in Nat
    BY <1>2, <1>4, ReadyNums, ControlAssumption
  <2>3. Len(t) <= StackMax
    BY <1>2, <2>2
  <2> QED BY <1>2, <1>3, <1>4, <2>1, <2>3, SizedAfter
<1>6. Len(m2.stack) - d.temps = Len(m.stack) - s.temps
  BY <1>2, <1>3, <1>4 DEF Sp
<1>7. \A j \in 1..(b + Len(s.vars)) : m2.stack[j] = m.stack[j]
  BY <1>2, <1>3, <1>4
<1>8. Passes(A, m2)
  BY <1>2, <1>3 DEF Passes
<1>9. Moves(c, A, m, m2, k, b, s, d)
  BY <1>2, <1>3, <1>4, <1>5, <1>6, <1>7, <1>8 DEF Moves
<1>10. Running(c, A, m2)
  BY <1>4, <1>9, MovesRuns
<1> QED BY <1>1, <1>2, <1>10 DEF Stepped, Stays

\* The next place, when the instruction is none of those that branch.
LEMMA NextShape ==
  ASSUME NEW A, NEW m, NEW i, NEW s, NEW k, NEW b, NEW o, Ready(A, m, i, s, k, b, o), Falls(i.op),
         NEW q, q = ip + 1, NEW d, d = A[q]
  PROVE  q \in 1..Len(code) /\ Steps(i, ip, s, d) /\ d \in Shape /\ s \in Shape
<1>1. q \in 1..Len(code) /\ Steps(i, ip, s, d) /\ Whole(code, A) /\ s \in Shape
  BY DEF Ready
<1> QED BY <1>1, WholeFacts

LEMMA PopRuns ==
  ASSUME NEW A, NEW m, NEW i, NEW s, NEW k, NEW b, NEW o, Ready(A, m, i, s, k, b, o), Pop
  PROVE  Stepped(A)
<1>1. /\ Sp \in Nat /\ Len(s.vars) \in Nat /\ s.temps \in Nat /\ b \in Nat
      /\ b + Len(s.vars) + s.temps <= Sp
      /\ Base = b /\ Op = i /\ Len(stack) = Sp /\ stack \in Seq(Value)
  BY ReadyNums
<1>2. i.op \in {"POP", "DEFINE_GLOBAL"} /\ Legal(i, s)
  BY <1>1 DEF Pop, At, Ready
<1>3. s.temps > 0
  BY <1>2 DEF Legal
<1>4. Sp # 0 /\ 1 \in 0..Sp
  BY <1>1, <1>3
<1>5. PICK t, q, d : t = Drop(1) /\ q = ip + 1 /\ d = A[q]
  OBVIOUS
<1>6. q \in 1..Len(code) /\ Steps(i, ip, s, d) /\ d \in Shape
  <2>1. Falls(i.op)
    BY <1>2 DEF Falls
  <2> QED BY <1>5, <2>1, NextShape
<1>7. stack' = t /\ ip' = q /\ phase' = phase /\ frames' = frames /\ handlers' = handlers
  BY <1>4, <1>5 DEF Pop, Go, OnlyStack
<1>8. t \in Seq(Value) /\ Len(t) = Sp - 1 /\ \A j \in 1..(Sp - 1) : t[j] = stack[j]
  BY <1>1, <1>4, <1>5, DropFacts
<1>9. d.func = s.func /\ d.tries = s.tries /\ Prefix(d.vars, s.vars) /\ ~d.arg /\ d.temps = s.temps - 1
  BY <1>2, <1>6 DEF Steps, TriesAfter, VarsAfter, TempsAfter
<1>10. Len(t) - d.temps = Sp - s.temps /\ Len(t) <= Sp
  BY <1>1, <1>8, <1>9
<1>11. \A j \in 1..(Base + Len(s.vars)) : t[j] = stack[j]
  <2>1. \A j \in 1..(Base + Len(s.vars)) : j \in 1..(Sp - 1)
    BY <1>1, <1>3
  <2> QED BY <1>8, <2>1
<1>12. Leaves(A, m, s, d, t, q)
  BY <1>5, <1>6, <1>7, <1>8, <1>9, <1>10, <1>11 DEF Leaves
<1> QED BY <1>12, LeavesRuns

\* What OP_SET_LOCAL stores was there already: the value on top is that of
\* the variable itself.
LEMMA SetLocalRuns ==
  ASSUME NEW A, NEW m, NEW i, NEW s, NEW k, NEW b, NEW o, Ready(A, m, i, s, k, b, o), SetLocal
  PROVE  Stepped(A)
<1>1. /\ Sp \in Nat /\ Len(s.vars) \in Nat /\ s.temps \in Nat /\ b \in Nat /\ k \in Nat
      /\ b + Len(s.vars) + s.temps <= Sp
      /\ Base = b /\ Fp = k /\ Op = i /\ Len(stack) = Sp /\ stack \in Seq(Value)
  BY ReadyNums
<1>2. i.op = "SET_LOCAL" /\ Legal(i, s) /\ i \in Instr
  BY <1>1 DEF SetLocal, At, Ready
<1>3. i.n + 1 \in 1..Len(s.vars) /\ i.n \in Int /\ i.var = s.vars[i.n + 1]
  BY <1>2 DEF Legal, Instr
<1>4. PICK x, v, q, d : x = b + i.n + 1 /\ v = <<i.var, k>> /\ q = ip + 1 /\ d = A[q]
  OBVIOUS
<1>5. x \in 1..Len(stack) /\ stack[x] = v
  <2>1. \A j \in 1..Len(s.vars) : stack[b + j] = <<s.vars[j], k>>
    BY DEF Ready, Tops
  <2>2. PICK y \in 1..Len(s.vars) : y = i.n + 1
    BY <1>3
  <2>3. stack[b + y] = v
    BY <1>3, <1>4, <2>1, <2>2
  <2>4. x = b + y /\ x \in 1..Len(stack)
    <3>1. PICK z, n, w : z = i.n /\ n = Len(s.vars) /\ w = s.temps
      OBVIOUS
    <3>2. /\ z \in Int /\ n \in Nat /\ w \in Nat /\ b \in Nat /\ Sp \in Nat /\ Len(stack) = Sp
          /\ b + n + w <= Sp /\ y \in 1..n /\ y = z + 1 /\ x = b + z + 1
      BY <1>1, <1>3, <1>4, <2>2, <3>1
    <3> QED BY ONLY <3>2
  <2> QED BY <2>3, <2>4
<1>6. PICK t : t = [stack EXCEPT ![x] = v]
  OBVIOUS
<1>7. stack' = t /\ ip' = q /\ phase' = phase /\ frames' = frames /\ handlers' = handlers
  BY <1>1, <1>4, <1>6 DEF SetLocal, Go, OnlyStack
<1>8. t = stack
  BY <1>1, <1>5, <1>6
<1>9. q \in 1..Len(code) /\ Steps(i, ip, s, d) /\ d \in Shape
  <2>1. Falls(i.op)
    BY <1>2 DEF Falls
  <2> QED BY <1>4, <2>1, NextShape
<1>10. d.func = s.func /\ d.tries = s.tries /\ Prefix(d.vars, s.vars) /\ ~d.arg /\ d.temps = s.temps
  BY <1>2, <1>9 DEF Steps, TriesAfter, VarsAfter, TempsAfter
<1>11. Leaves(A, m, s, d, t, q)
  BY <1>1, <1>4, <1>7, <1>8, <1>9, <1>10 DEF Leaves
<1> QED BY <1>11, LeavesRuns

LEMMA JumpingRuns ==
  ASSUME NEW A, NEW m, NEW i, NEW s, NEW k, NEW b, NEW o, Ready(A, m, i, s, k, b, o), Jumping \/ JumpIfFalse
  PROVE  Stepped(A)
<1>1. /\ Sp \in Nat /\ Len(stack) = Sp /\ stack \in Seq(Value) /\ Op = i
  BY ReadyNums
<1>2. i.op \in {"JUMP", "JUMP_IF_FALSE"} /\ Lands(code, A, ip, Len(code)) /\ i = code[ip]
  BY <1>1 DEF Jumping, JumpIfFalse, At, Ready, Op
<1>3. PICK t : t = stack
  OBVIOUS
<1>4. stack' = t /\ phase' = phase /\ frames' = frames /\ handlers' = handlers
  BY <1>3 DEF Jumping, JumpIfFalse, Go
<1>5. ASSUME NEW q, NEW d, d = A[q], ip' = q, q \in 1..Len(code),
             d.func = s.func /\ d.tries = s.tries /\ Prefix(d.vars, s.vars) /\ ~d.arg /\ d.temps = s.temps
      PROVE  Stepped(A)
  <2>1. Leaves(A, m, s, d, t, q)
    BY <1>1, <1>3, <1>4, <1>5 DEF Leaves
  <2> QED BY <2>1, LeavesRuns
<1>6. PICK q, d : q = ip + 1 + i.n /\ d = A[q]
  OBVIOUS
<1>7. q \in 1..Len(code) /\ Taken(i.op, s, d)
  <2>1. s = A[ip]
    BY DEF Ready
  <2> QED BY <1>2, <1>6, <2>1 DEF Lands, Branching
<1>8. CASE ip' = q
  <2>1. d.func = s.func /\ d.tries = s.tries /\ Prefix(d.vars, s.vars) /\ ~d.arg /\ d.temps = s.temps
    BY <1>2, <1>7 DEF Taken
  <2> QED BY <1>5, <1>6, <1>7, <1>8, <2>1
<1>9. CASE i.op = "JUMP_IF_FALSE" /\ ip' = ip + 1
  <2>1. PICK r, e : r = ip + 1 /\ e = A[r]
    OBVIOUS
  <2>2. r \in 1..Len(code) /\ Steps(i, ip, s, e)
    <3>1. Falls(i.op)
      BY <1>9 DEF Falls
    <3> QED BY <2>1, <3>1, NextShape
  <2>3. e.func = s.func /\ e.tries = s.tries /\ Prefix(e.vars, s.vars) /\ ~e.arg /\ e.temps = s.temps
    BY <1>9, <2>2 DEF Steps, TriesAfter, VarsAfter, TempsAfter
  <2>4. ip' = r
    BY <1>9, <2>1
  <2> QED BY <1>5, <2>1, <2>2, <2>3, <2>4
<1>10. ip' = q \/ (i.op = "JUMP_IF_FALSE" /\ ip' = ip + 1)
  <2>1. CASE Jumping
    BY <1>1, <1>6, <2>1 DEF Jumping, Go
  <2>2. CASE JumpIfFalse
    BY <1>1, <1>6, <2>2 DEF JumpIfFalse, At, Go
  <2> QED BY <2>1, <2>2
<1> QED BY <1>8, <1>9, <1>10

\* The last activation goes on at q, in shape d, with stack st and handlers ha.
Goes(A, k, b, o, st, ha, q, d) ==
    /\ stack' = st /\ handlers' = ha /\ ip' = q /\ phase' = phase /\ frames' = frames
    /\ st \in Seq(Value) /\ ha \in Seq(Handler) /\ Len(st) <= StackMax /\ Len(ha) <= HandlersMax
    /\ q \in 1..Len(code) /\ d = A[q] /\ ~d.arg
    /\ \A j \in 1..b : st[j] = stack[j]
    /\ \A j \in 1..o : ha[j] = handlers[j]
    /\ Tops(code, A, st, ha, k, b, o, d)

LEMMA GoesRuns ==
  ASSUME NEW A, NEW m, NEW i, NEW s, NEW k, NEW b, NEW o, Ready(A, m, i, s, k, b, o), NEW st, NEW ha, NEW q, NEW d,
         Goes(A, k, b, o, st, ha, q, d)
  PROVE  Stepped(A)
<1>1. PICK c, m2 : c = code /\ m2 = Machine'
  OBVIOUS
<1>2. /\ stack' = st /\ handlers' = ha /\ ip' = q /\ phase' = phase /\ frames' = frames
      /\ st \in Seq(Value) /\ ha \in Seq(Handler) /\ Len(st) <= StackMax /\ Len(ha) <= HandlersMax
      /\ q \in 1..Len(c) /\ d = A[q] /\ ~d.arg
      /\ \A j \in 1..b : st[j] = stack[j]
      /\ \A j \in 1..o : ha[j] = handlers[j]
      /\ Tops(c, A, st, ha, k, b, o, d)
  BY <1>1 DEF Goes
<1>3. m2.ip = q /\ m2.stack = st /\ m2.frames = frames /\ m2.handlers = ha
  BY <1>1, <1>2 DEF Machine
<1>4. /\ m.stack = stack /\ m.frames = frames /\ m.handlers = handlers
      /\ Whole(c, A) /\ Running(c, A, m) /\ k = Tip(m) /\ b = Floor(m, k) /\ o = Outside(m, k)
      /\ Sized(m) /\ frames \in Seq(Frame)
  BY <1>1 DEF Ready
<1>5. Sized(m2)
  <2>1. Len(frames) <= FramesMax
    BY <1>4 DEF Sized, Tip
  <2> QED BY <1>2, <1>3, <1>4, <2>1, SizedAfter
<1>6. Passes(A, m2)
  BY <1>2, <1>3 DEF Passes
<1>7. Continues(c, A, m, m2, k, b, o)
  BY <1>2, <1>3, <1>4, <1>5, <1>6 DEF Continues
<1>8. Running(c, A, m2)
  BY <1>4, <1>7, TipRuns
<1> QED BY <1>1, <1>2, <1>8 DEF Stepped, Stays

\* t is st with its topmost value, v now, moved to slot x, and the values
\* between forgotten.
Padded(st, x, v, l, pad, t) ==
    /\ st \in Seq(Value) /\ x \in 1..Len(st) /\ v \in Value
    /\ l = (IF x > Len(st) - 1 THEN x ELSE Len(st) - 1)
    /\ pad = [j \in 1..l |-> IF j < Len(st) THEN st[j] ELSE Temp]
    /\ t = [pad EXCEPT ![x] = v]

LEMMA PadFacts ==
  ASSUME NEW st, NEW x, NEW v, NEW l, NEW pad, NEW t, Padded(st, x, v, l, pad, t)
  PROVE  /\ Len(pad) = l /\ t \in Seq(Value) /\ Len(t) = l /\ l \in Nat
         /\ x <= l /\ l <= Len(st) /\ Len(st) - 1 <= l
         /\ t[x] = v /\ \A j \in 1..(x - 1) : t[j] = st[j]
<1> USE DEF Padded
<1>1. Len(st) \in Nat /\ x \in Nat /\ l \in Nat /\ x <= l /\ l <= Len(st) /\ Len(st) - 1 <= l
  BY DEF Value
<1>2. x \in 1..l
  BY <1>1
<1>3. Temp \in Value
  BY DEF Temp, Value
<1>4. \A j \in 1..l : j < Len(st) => j \in 1..Len(st)
  BY <1>1
<1>5. \A j \in 1..l : pad[j] \in Value
  BY <1>3, <1>4
<1>6. pad \in [1..l -> Value]
  BY <1>5
<1>7. t \in [1..l -> Value] /\ t[x] = v /\ \A j \in 1..l : j # x => t[j] = pad[j]
  BY <1>2, <1>6
<1>8. pad \in Seq(Value) /\ t \in Seq(Value) /\ Len(pad) = l /\ Len(t) = l
  BY <1>1, <1>6, <1>7, SeqDef, LenProperties
<1>9. \A j \in 1..(x - 1) : j \in 1..l /\ j # x /\ j < Len(st)
  BY <1>1
<1>10. \A j \in 1..(x - 1) : t[j] = st[j]
  BY <1>7, <1>9
<1> QED BY <1>1, <1>7, <1>8, <1>10

LEMMA DefineLocalRuns ==
  ASSUME NEW A, NEW m, NEW i, NEW s, NEW k, NEW b, NEW o, Ready(A, m, i, s, k, b, o), DefineLocal
  PROVE  Stepped(A)
<1>1. /\ Sp \in Nat /\ Len(s.vars) \in Nat /\ Len(s.tries) \in Nat /\ s.temps \in Nat /\ b \in Nat /\ o \in Nat /\ k \in Nat
      /\ b + Len(s.vars) + s.temps <= Sp
      /\ Base = b /\ Fp = k /\ Op = i /\ Len(stack) = Sp /\ stack \in Seq(Value) /\ Sp <= StackMax
  BY ReadyNums
<1>2. i.op = "DEFINE_LOCAL" /\ Legal(i, s) /\ i \in Instr /\ s \in Shape
  BY <1>1 DEF DefineLocal, At, Ready
<1>3. s.func /\ s.temps = 1 /\ i.n = Len(s.vars) /\ i.var \in Nat
  BY <1>2 DEF Legal
<1>4. PICK n, x, v, q, d, l, pad, t :
         /\ n = Len(s.vars) /\ x = b + n + 1 /\ v = <<i.var, k>> /\ q = ip + 1 /\ d = A[q]
         /\ l = (IF x > Sp - 1 THEN x ELSE Sp - 1)
         /\ pad = [j \in 1..l |-> IF j < Sp THEN stack[j] ELSE Temp]
         /\ t = [pad EXCEPT ![x] = v]
  OBVIOUS
<1>5. n \in Nat /\ x \in 1..Sp /\ x - 1 = b + n
  <2>1. n \in Nat /\ b \in Nat /\ Sp \in Nat /\ b + n + 1 <= Sp /\ x = b + n + 1
    BY <1>1, <1>3, <1>4
  <2> QED BY ONLY <2>1
<1>6. v \in Value
  BY <1>1, <1>3, <1>4 DEF Value
<1>7. /\ Len(pad) = l /\ t \in Seq(Value) /\ Len(t) = l /\ l \in Nat
      /\ x <= l /\ l <= Sp /\ Sp - 1 <= l
      /\ t[x] = v /\ \A j \in 1..(x - 1) : t[j] = stack[j]
  <2>1. Padded(stack, x, v, l, pad, t)
    BY <1>1, <1>4, <1>5, <1>6 DEF Padded
  <2> QED BY <1>1, <2>1, PadFacts
<1>8. Sp # 0 /\ ~(l > StackMax) /\ l <= StackMax
  <2>1. StackMax \in Nat
    BY ControlAssumption
  <2> QED BY <1>1, <1>5, <1>7, <2>1
<1>9. stack' = t /\ handlers' = handlers /\ ip' = q /\ phase' = phase /\ frames' = frames
  <2>1. i.n = n /\ Base + Op.n + 1 = x
    BY <1>1, <1>3, <1>4
  <2>2. [j \in 1..(IF x > Sp - 1 THEN x ELSE Sp - 1) |-> IF j < Sp THEN stack[j] ELSE Temp] = pad
    BY <1>4
  <2>3. stack' = t /\ Go(ip + 1) /\ OnlyStack
    BY <1>1, <1>4, <1>7, <1>8, <2>1, <2>2 DEF DefineLocal
  <2> QED BY <1>4, <2>3 DEF Go, OnlyStack
<1>10. q \in 1..Len(code) /\ Steps(i, ip, s, d) /\ d \in Shape
  <2>1. Falls(i.op)
    BY <1>2 DEF Falls
  <2> QED BY <1>4, <2>1, NextShape
<1>11. d.func /\ d.tries = s.tries /\ Prefix(d.vars, Append(s.vars, i.var)) /\ ~d.arg /\ d.temps = 0
  BY <1>2, <1>3, <1>10 DEF Steps, TriesAfter, VarsAfter, TempsAfter
<1>12. Tops(code, A, stack, handlers, k, b, o, s)
  BY DEF Ready
<1>13. /\ Len(d.vars) \in Nat /\ Len(d.vars) <= n + 1
       /\ \A j \in 1..Len(d.vars) : d.vars[j] = IF j = n + 1 THEN i.var ELSE s.vars[j]
  <2>1. s.vars \in Seq(Nat) /\ d.vars \in Seq(Nat)
    BY <1>2, <1>10 DEF Shape
  <2>2. /\ Len(Append(s.vars, i.var)) = n + 1 /\ Append(s.vars, i.var)[n + 1] = i.var
        /\ \A j \in 1..n : Append(s.vars, i.var)[j] = s.vars[j]
    BY <1>3, <1>4, <2>1, AppendProperties
  <2>3. Len(d.vars) \in Nat /\ Len(d.vars) <= n + 1 /\ \A j \in 1..Len(d.vars) : d.vars[j] = Append(s.vars, i.var)[j]
    BY <1>11, <2>1, <2>2 DEF Prefix
  <2>4. \A j \in 1..Len(d.vars) : j # n + 1 => j \in 1..n
    BY <1>5, <2>3
  <2> QED BY <2>2, <2>3, <2>4
<1>14. \A j \in 1..Len(d.vars) : t[b + j] = <<d.vars[j], k>>
  <2>1. ASSUME NEW j \in 1..Len(d.vars) PROVE t[b + j] = <<d.vars[j], k>>
    <3>1. CASE j = n + 1
      <4>1. b + j = x
        BY <1>1, <1>4, <1>5, <3>1
      <4> QED BY <1>4, <1>7, <1>13, <3>1, <4>1
    <3>2. CASE j # n + 1
      <4>1. j \in 1..n /\ b + j \in 1..(x - 1)
        <5>1. PICK y : y = Len(d.vars)
          OBVIOUS
        <5>2. y \in Nat /\ y <= n + 1 /\ j \in 1..y /\ j # n + 1 /\ n \in Nat /\ b \in Nat /\ x - 1 = b + n
          BY <1>1, <1>5, <1>13, <3>2, <5>1
        <5> QED BY ONLY <5>2
      <4>2. stack[b + j] = <<s.vars[j], k>>
        BY <1>4, <1>12, <4>1 DEF Tops
      <4> QED BY <1>7, <1>13, <3>2, <4>1, <4>2
    <3> QED BY <3>1, <3>2
  <2> QED BY <2>1
<1>15. b + Len(d.vars) + d.temps <= Len(t)
  <2>1. PICK y, w : y = Len(d.vars) /\ w = Len(t)
    OBVIOUS
  <2>2. y \in Nat /\ w \in Nat /\ n \in Nat /\ b \in Nat /\ y <= n + 1 /\ b + n + 1 <= w
    BY <1>1, <1>4, <1>5, <1>7, <1>13, <2>1
  <2>3. b + y + 0 <= w
    BY ONLY <2>2
  <2> QED BY <1>11, <2>1, <2>3
<1>16. \A j \in 1..Len(d.tries) : Guards(code, A, handlers[o + j], k, d.tries[j], b, Len(t) - d.temps)
  <2>1. ASSUME NEW j \in 1..Len(d.tries) PROVE Guards(code, A, handlers[o + j], k, d.tries[j], b, Len(t) - d.temps)
    <3>1. Guards(code, A, handlers[o + j], k, d.tries[j], b, Sp - 1)
      BY <1>1, <1>3, <1>11, <1>12 DEF Tops
    <3>2. handlers[o + j].sp \in Nat
      <4>1. o + j \in 1..Len(handlers)
        <5>1. Len(handlers) = o + Len(s.tries)
          BY ReadyNums
        <5> QED BY <1>1, <1>11, <5>1
      <4>2. \A h \in Handler : h.sp \in Nat
        BY DEF Handler
      <4>3. handlers \in Seq(Handler)
        BY DEF Ready
      <4> QED BY <4>1, <4>2, <4>3
    <3>3. handlers[o + j].sp <= Sp - 1 => handlers[o + j].sp <= Len(t) - d.temps
      BY <1>1, <1>7, <1>11, <3>2
    <3> QED BY <3>1, <3>3 DEF Guards
  <2> QED BY <2>1
<1>17. k > 0
  BY <1>3, <1>12 DEF Tops
<1>18. Tops(code, A, t, handlers, k, b, o, d)
  <2>1. ~(k = 0)
    BY <1>1, <1>17
  <2> QED BY <1>11, <1>12, <1>14, <1>15, <1>16, <1>17, <2>1 DEF Tops
<1>19. \A j \in 1..b : t[j] = stack[j]
  <2>1. \A j \in 1..b : j \in 1..(x - 1)
    BY <1>1, <1>5
  <2> QED BY <1>7, <2>1
<1>20. handlers \in Seq(Handler) /\ Len(handlers) <= HandlersMax
  BY DEF Ready, Sized
<1>21. Goes(A, k, b, o, t, handlers, q, d)
  BY <1>4, <1>7, <1>8, <1>9, <1>10, <1>11, <1>18, <1>19, <1>20 DEF Goes
<1> QED BY <1>21, GoesRuns

LEMMA TryBeginRuns ==
  ASSUME NEW A, NEW m, NEW i, NEW s, NEW k, NEW b, NEW o, Ready(A, m, i, s, k, b, o), TryBegin
  PROVE  Stepped(A)
<1>1. /\ Sp \in Nat /\ Len(s.vars) \in Nat /\ Len(s.tries) \in Nat /\ s.temps \in Nat /\ b \in Nat /\ o \in Nat /\ k \in Nat
      /\ b + Len(s.vars) + s.temps <= Sp
      /\ Base = b /\ Fp = k /\ Op = i /\ Len(stack) = Sp /\ stack \in Seq(Value) /\ Sp <= StackMax
      /\ Len(handlers) = o + Len(s.tries) /\ Len(handlers) \in Nat
  BY ReadyNums
<1>2. i.op = "TRY_BEGIN" /\ Legal(i, s) /\ s \in Shape /\ handlers \in Seq(Handler) /\ s = A[ip] /\ i = code[ip]
  BY <1>1 DEF TryBegin, At, Ready, Op
<1>3. s.temps = 0
  BY <1>2 DEF Legal
<1>4. CASE Len(handlers) >= HandlersMax
  BY <1>4 DEF TryBegin, Fail, Stop, Stepped, Stops
<1>5. CASE ~(Len(handlers) >= HandlersMax)
  <2>1. PICK n, h, ha, q, d : /\ n = Len(s.tries) /\ h = [catch |-> ip + 1 + i.n, sp |-> Sp, fp |-> k]
                              /\ ha = Append(handlers, h) /\ q = ip + 1 /\ d = A[q]
    OBVIOUS
  <2>2. stack' = stack /\ handlers' = ha /\ ip' = q /\ phase' = phase /\ frames' = frames
    BY <1>1, <1>5, <2>1 DEF TryBegin, Go
  <2>3. h \in Handler
    <3>1. ip + 1 + i.n \in 1..Len(code)
      BY <1>2 DEF Ready, Lands, Branching
    <3> QED BY <1>1, <2>1, <3>1 DEF Handler
  <2>4. ha \in Seq(Handler) /\ Len(ha) = Len(handlers) + 1 /\ ha[Len(handlers) + 1] = h
        /\ \A j \in 1..Len(handlers) : ha[j] = handlers[j]
    BY <1>2, <2>1, <2>3, AppendProperties
  <2>5. Len(ha) <= HandlersMax
    <3>1. HandlersMax \in Nat
      BY ControlAssumption
    <3> QED BY <1>1, <1>5, <2>4, <3>1
  <2>6. q \in 1..Len(code) /\ Steps(i, ip, s, d) /\ d \in Shape
    <3>1. Falls(i.op)
      BY <1>2 DEF Falls
    <3> QED BY <2>1, <3>1, NextShape
  <2>7. d.func = s.func /\ d.tries = Append(s.tries, ip) /\ Prefix(d.vars, s.vars) /\ ~d.arg /\ d.temps = 0
    BY <1>2, <1>3, <2>6 DEF Steps, TriesAfter, VarsAfter, TempsAfter
  <2>8. n \in Nat /\ Len(d.tries) = n + 1 /\ d.tries[n + 1] = ip /\ \A j \in 1..n : d.tries[j] = s.tries[j]
    <3>1. s.tries \in Seq(Nat) /\ ip \in Nat
      BY <1>2 DEF Ready, Shape
    <3> QED BY <1>1, <2>1, <2>7, <3>1, AppendProperties
  <2>9. Tops(code, A, stack, handlers, k, b, o, s)
    BY DEF Ready
  <2>10. Len(d.vars) \in Nat /\ Len(d.vars) <= Len(s.vars) /\ \A j \in 1..Len(d.vars) : d.vars[j] = s.vars[j]
    BY <2>6, <2>7 DEF Shape, Prefix
  <2>11. ASSUME NEW j \in 1..(n + 1)
         PROVE  /\ Guards(code, A, ha[o + j], k, d.tries[j], b, Sp)
                /\ ha[o + j].sp \in Nat /\ ha[o + j].sp <= Sp
    <3>1. CASE j = n + 1
      <4>1. o + j = Len(handlers) + 1
        BY <1>1, <2>1, <2>8, <3>1
      <4>2. ha[o + j] = h /\ d.tries[j] = ip
        BY <2>4, <2>8, <3>1, <4>1
      <4>3. h.catch = ip + 1 + code[ip].n /\ h.fp = k /\ h.sp = Sp
        BY <1>2, <2>1
      <4>4. b + Len(A[ip].vars) <= Sp
        <5>1. PICK x, y : x = Len(s.vars) /\ y = Sp
          OBVIOUS
        <5>2. x \in Nat /\ y \in Nat /\ b \in Nat /\ b + x + 0 <= y
          BY <1>1, <1>3, <5>1
        <5>3. b + x <= y
          BY ONLY <5>2
        <5> QED BY <1>2, <5>1, <5>3
      <4> QED BY <1>1, <4>2, <4>3, <4>4 DEF Guards
    <3>2. CASE j # n + 1
      <4>1. j \in 1..n
        BY <2>8, <3>2
      <4>2. o + j \in 1..Len(handlers)
        BY <1>1, <2>1, <4>1
      <4>3. ha[o + j] = handlers[o + j] /\ d.tries[j] = s.tries[j]
        BY <2>4, <2>8, <4>1, <4>2
      <4>4. Guards(code, A, handlers[o + j], k, s.tries[j], b, Len(stack) - s.temps)
        BY <2>1, <2>9, <4>1 DEF Tops
      <4>5. Len(stack) - s.temps = Sp
        BY <1>1, <1>3
      <4>6. handlers[o + j] \in Handler
        BY <1>2, <4>2
      <4> QED BY <4>3, <4>4, <4>5, <4>6 DEF Guards, Handler
    <3> QED BY <3>1, <3>2
  <2>12. \A x, y \in 1..(n + 1) : x < y => ha[o + x].sp <= ha[o + y].sp
    <3>1. ASSUME NEW x \in 1..(n + 1), NEW y \in 1..(n + 1), x < y PROVE ha[o + x].sp <= ha[o + y].sp
      <4>1. CASE y = n + 1
        <5>1. o + y = Len(handlers) + 1
          BY <1>1, <2>1, <2>8, <4>1
        <5>2. ha[o + y].sp = Sp
          BY <2>1, <2>4, <5>1
        <5> QED BY <2>11, <5>2
      <4>2. CASE y # n + 1
        <5>1. x \in 1..n /\ y \in 1..n
          BY <2>8, <3>1, <4>2
        <5>2. o + x \in 1..Len(handlers) /\ o + y \in 1..Len(handlers)
          BY SMTT(20), <1>1, <2>1, <5>1
        <5>3. handlers[o + x].sp <= handlers[o + y].sp
          BY <2>1, <2>9, <3>1, <5>1 DEF Tops
        <5> QED BY <2>4, <5>2, <5>3
      <4> QED BY <4>1, <4>2
    <3> QED BY <3>1
  <2>13. b + Len(d.vars) + d.temps <= Len(stack)
    <3>1. PICK x, y, w : x = Len(s.vars) /\ y = Len(d.vars) /\ w = Len(stack)
      OBVIOUS
    <3>2. x \in Nat /\ y \in Nat /\ w \in Nat /\ b \in Nat /\ b + x + 0 <= w /\ y <= x
      BY <1>1, <1>3, <2>10, <3>1
    <3>3. b + y + 0 <= w
      BY ONLY <3>2
    <3> QED BY <2>7, <3>1, <3>3
  <2>14. \A j \in 1..Len(d.vars) : stack[b + j] = <<d.vars[j], k>>
    <3>1. \A j \in 1..Len(d.vars) : j \in 1..Len(s.vars)
      BY <1>1, <2>10
    <3> QED BY <2>9, <2>10, <3>1 DEF Tops
  <2>15. Len(ha) = o + Len(d.tries)
    BY <1>1, <2>1, <2>4, <2>8
  <2>16. Len(stack) - d.temps = Sp
    BY <1>1, <2>7
  <2>17. (d.func <=> k > 0) /\ (k = 0 => Len(stack) = d.temps)
    BY <1>3, <2>7, <2>9 DEF Tops
  <2>18. Tops(code, A, stack, ha, k, b, o, d)
    BY <2>8, <2>11, <2>12, <2>13, <2>14, <2>15, <2>16, <2>17 DEF Tops
  <2>19. \A j \in 1..o : ha[j] = handlers[j]
    <3>1. \A j \in 1..o : j \in 1..Len(handlers)
      BY <1>1
    <3> QED BY <2>4, <3>1
  <2>20. Goes(A, k, b, o, stack, ha, q, d)
    BY <1>1, <2>1, <2>2, <2>4, <2>5, <2>6, <2>7, <2>18, <2>19 DEF Goes
  <2> QED BY <2>20, GoesRuns
<1> QED BY <1>4, <1>5

LEMMA PopHandlersRuns ==
  ASSUME NEW A, NEW m, NEW i, NEW s, NEW k, NEW b, NEW o, Ready(A, m, i, s, k, b, o),
         NEW n, n \in 0..Len(s.tries), PopHandlers(n), NEW d, d = A[ip + 1],
         i.op \in {"TRY_END", "POP_HANDLERS"}, d.tries = SubSeq(s.tries, 1, Len(s.tries) - n)
  PROVE  Stepped(A)
<1>1. /\ Sp \in Nat /\ Len(s.vars) \in Nat /\ Len(s.tries) \in Nat /\ s.temps \in Nat /\ b \in Nat /\ o \in Nat /\ k \in Nat
      /\ b + Len(s.vars) + s.temps <= Sp
      /\ Base = b /\ Fp = k /\ Op = i /\ Len(stack) = Sp /\ stack \in Seq(Value) /\ Sp <= StackMax
      /\ Len(handlers) = o + Len(s.tries) /\ Len(handlers) \in Nat
  BY ReadyNums
<1>2. PICK l, e, ha, q : l = Len(s.tries) - n /\ e = Len(handlers) - n /\ ha = SubSeq(handlers, 1, e) /\ q = ip + 1
  OBVIOUS
<1>3. l \in 0..Len(s.tries) /\ e \in 0..Len(handlers) /\ e = o + l /\ ~(n > Len(handlers))
  <2>1. PICK x, y : x = Len(s.tries) /\ y = Len(handlers)
    OBVIOUS
  <2>2. x \in Nat /\ y \in Nat /\ o \in Nat /\ y = o + x /\ n \in 0..x /\ l = x - n /\ e = y - n
    BY <1>1, <1>2, <2>1
  <2>3. l \in 0..x /\ e \in 0..y /\ e = o + l /\ ~(n > y)
    BY ONLY <2>2
  <2> QED BY <2>1, <2>3
<1>4. stack' = stack /\ handlers' = ha /\ ip' = q /\ phase' = phase /\ frames' = frames
  BY <1>2, <1>3 DEF PopHandlers, Go
<1>5. handlers \in Seq(Handler) /\ s \in Shape /\ Len(handlers) <= HandlersMax
  BY DEF Ready, Sized
<1>6. ha \in Seq(Handler) /\ Len(ha) = e /\ \A j \in 1..e : ha[j] = handlers[j]
  BY <1>2, <1>3, <1>5, InitialPart
<1>7. d.tries \in Seq(Nat) /\ Len(d.tries) = l /\ \A j \in 1..l : d.tries[j] = s.tries[j]
  <2>1. PICK ts, dt : ts = s.tries /\ dt = d.tries
    OBVIOUS
  <2>2. ts \in Seq(Nat)
    BY <1>5, <2>1 DEF Shape
  <2>3. l \in 0..Len(ts) /\ dt = SubSeq(ts, 1, l)
    BY <1>2, <1>3, <2>1
  <2>4. dt \in Seq(Nat) /\ Len(dt) = l /\ \A j \in 1..l : dt[j] = ts[j]
    BY <2>2, <2>3, InitialPart
  <2> QED BY <2>1, <2>4
<1>8. q \in 1..Len(code) /\ Steps(i, ip, s, d) /\ d \in Shape
  <2>1. Falls(i.op)
    BY DEF Falls
  <2> QED BY <1>2, <2>1, NextShape
<1>9. d.func = s.func /\ Prefix(d.vars, s.vars) /\ ~d.arg /\ d.temps = s.temps
  BY <1>8 DEF Steps, VarsAfter, TempsAfter
<1>10. Tops(code, A, stack, handlers, k, b, o, s)
  BY DEF Ready
<1>11. Len(d.vars) \in Nat /\ Len(d.vars) <= Len(s.vars) /\ \A j \in 1..Len(d.vars) : d.vars[j] = s.vars[j]
  BY <1>8, <1>9 DEF Shape, Prefix
<1>12. b + Len(d.vars) + d.temps <= Len(stack)
  <2>1. PICK x, y, w, t : x = Len(s.vars) /\ y = Len(d.vars) /\ w = Len(stack) /\ t = s.temps
    OBVIOUS
  <2>2. x \in Nat /\ y \in Nat /\ w \in Nat /\ b \in Nat /\ t \in Nat /\ b + x + t <= w /\ y <= x
    BY <1>1, <1>11, <2>1
  <2>3. b + y + t <= w
    BY ONLY <2>2
  <2> QED BY <1>9, <2>1, <2>3
<1>13. \A j \in 1..Len(d.vars) : stack[b + j] = <<d.vars[j], k>>
  <2>1. \A j \in 1..Len(d.vars) : j \in 1..Len(s.vars)
    BY <1>1, <1>11
  <2> QED BY <1>10, <1>11, <2>1 DEF Tops
<1>14. \A j \in 1..l : j \in 1..Len(s.tries) /\ o + j \in 1..e
  BY <1>1, <1>3
<1>15. \A j \in 1..l : Guards(code, A, ha[o + j], k, d.tries[j], b, Len(stack) - d.temps)
  BY <1>6, <1>7, <1>9, <1>10, <1>14 DEF Tops
<1>16. \A x, y \in 1..l : x < y => ha[o + x].sp <= ha[o + y].sp
  BY <1>6, <1>10, <1>14 DEF Tops
<1>17. (d.func <=> k > 0) /\ (k = 0 => Len(stack) = d.temps)
  BY <1>9, <1>10 DEF Tops
<1>18. Tops(code, A, stack, ha, k, b, o, d)
  BY <1>3, <1>6, <1>7, <1>12, <1>13, <1>15, <1>16, <1>17 DEF Tops
<1>19. \A j \in 1..o : ha[j] = handlers[j]
  <2>1. \A j \in 1..o : j \in 1..e
    BY <1>1, <1>3
  <2> QED BY <1>6, <2>1
<1>20. Len(ha) <= HandlersMax
  <2>1. HandlersMax \in Nat
    BY ControlAssumption
  <2> QED BY <1>1, <1>3, <1>5, <1>6, <2>1
<1>21. Goes(A, k, b, o, stack, ha, q, d)
  BY <1>1, <1>2, <1>4, <1>6, <1>8, <1>9, <1>18, <1>19, <1>20 DEF Goes
<1> QED BY <1>21, GoesRuns

LEMMA LeavingRuns ==
  ASSUME NEW A, NEW m, NEW i, NEW s, NEW k, NEW b, NEW o, Ready(A, m, i, s, k, b, o), TryEnd \/ Leaving
  PROVE  Stepped(A)
<1>1. Op = i /\ Len(s.tries) \in Nat /\ s \in Shape
  BY ReadyNums DEF Ready
<1>2. i.op \in {"TRY_END", "POP_HANDLERS"} /\ Legal(i, s)
  BY <1>1 DEF TryEnd, Leaving, At, Ready
<1>3. PICK q, d, n : q = ip + 1 /\ d = A[q] /\ n = IF i.op = "TRY_END" THEN 1 ELSE i.n
  OBVIOUS
<1>4. Steps(i, ip, s, d)
  <2>1. Falls(i.op)
    BY <1>2 DEF Falls
  <2> QED BY <1>3, <2>1, NextShape
<1>5. n \in 0..Len(s.tries)
  <2>1. CASE i.op = "TRY_END"
    <3>1. s.tries # <<>> /\ s.tries \in Seq(Nat)
      BY <1>1, <1>2, <2>1 DEF Legal, Shape
    <3>2. Len(s.tries) > 0
      BY <3>1
    <3> QED BY <1>1, <1>3, <2>1, <3>2
  <2>2. CASE i.op = "POP_HANDLERS"
    BY <1>2, <1>3, <2>2 DEF Legal
  <2> QED BY <1>2, <2>1, <2>2
<1>6. d.tries = SubSeq(s.tries, 1, Len(s.tries) - n)
  BY <1>2, <1>3, <1>4 DEF Steps, TriesAfter
<1>7. PopHandlers(n)
  <2>1. CASE TryEnd
    BY <1>1, <1>3, <2>1 DEF TryEnd, At
  <2>2. CASE Leaving
    BY <1>1, <1>3, <2>2 DEF Leaving, At
  <2> QED BY <2>1, <2>2
<1>8. d = A[ip + 1]
  BY <1>3
<1> QED BY <1>2, <1>5, <1>6, <1>7, <1>8, PopHandlersRuns

\* Activation j is the last one again, and goes on at q, in shape d, with
\* stack st and handlers ha.
Backs(A, m, j, b, o, st, ha, q, d) ==
    /\ j \in 0..Tip(m) /\ b = Floor(m, j) /\ o = Outside(m, j) /\ o <= Len(handlers)
    /\ stack' = st /\ handlers' = ha /\ ip' = q /\ phase' = phase /\ frames' = SubSeq(frames, 1, j)
    /\ st \in Seq(Value) /\ ha \in Seq(Handler) /\ Len(st) <= StackMax /\ Len(ha) <= HandlersMax
    /\ q \in 1..Len(code) /\ d = A[q] /\ ~d.arg
    /\ \A x \in 1..b : st[x] = stack[x]
    /\ \A x \in 1..o : ha[x] = handlers[x]
    /\ Tops(code, A, st, ha, j, b, o, d)

LEMMA BacksRuns ==
  ASSUME NEW A, NEW m, NEW i, NEW s, NEW k, NEW b0, NEW o0, Ready(A, m, i, s, k, b0, o0),
         NEW j, NEW b, NEW o, NEW st, NEW ha, NEW q, NEW d, Backs(A, m, j, b, o, st, ha, q, d)
  PROVE  Stepped(A)
<1>1. PICK c, m2, fr : c = code /\ m2 = Machine' /\ fr = SubSeq(frames, 1, j)
  OBVIOUS
<1>2. /\ j \in 0..Tip(m) /\ b = Floor(m, j) /\ o = Outside(m, j) /\ o <= Len(handlers)
      /\ stack' = st /\ handlers' = ha /\ ip' = q /\ phase' = phase /\ frames' = fr
      /\ st \in Seq(Value) /\ ha \in Seq(Handler) /\ Len(st) <= StackMax /\ Len(ha) <= HandlersMax
      /\ q \in 1..Len(c) /\ d = A[q] /\ ~d.arg
      /\ \A x \in 1..b : st[x] = stack[x]
      /\ \A x \in 1..o : ha[x] = handlers[x]
      /\ Tops(c, A, st, ha, j, b, o, d)
  BY <1>1 DEF Backs
<1>3. m2.ip = q /\ m2.stack = st /\ m2.frames = fr /\ m2.handlers = ha
  BY <1>1, <1>2 DEF Machine
<1>4. /\ m.stack = stack /\ m.frames = frames /\ m.handlers = handlers
      /\ Whole(c, A) /\ Running(c, A, m) /\ Sized(m) /\ frames \in Seq(Frame) /\ Tip(m) = Len(frames)
  BY <1>1 DEF Ready, Tip
<1>5. fr \in Seq(Frame) /\ Len(fr) = j /\ Tip(m) \in Nat /\ b \in Nat /\ o \in Nat /\ j \in Nat
  <2>1. j \in 0..Len(frames)
    BY <1>2, <1>4
  <2>2. fr \in Seq(Frame) /\ Len(fr) = j
    BY <1>1, <1>4, <2>1, InitialPart
  <2> QED BY <1>2, <1>4, <2>2, RunningFacts
<1>6. Sized(m2)
  <2>1. Tip(m) <= FramesMax /\ FramesMax \in Nat
    BY <1>4, ControlAssumption DEF Sized
  <2>2. Len(fr) <= FramesMax
    BY <1>2, <1>5, <2>1
  <2> QED BY <1>2, <1>3, <1>5, <2>2, SizedAfter
<1>7. Passes(A, m2)
  BY <1>2, <1>3 DEF Passes
<1>8. Len(ha) = o + Len(d.tries) /\ Len(d.tries) \in Nat
  <2>1. d \in Shape
    BY <1>2, <1>4, WholeFacts
  <2> QED BY <1>2, <2>1 DEF Tops, Shape
<1>9. \A x \in (o + 1)..Len(ha) : ha[x].fp = j
  <2>1. ASSUME NEW x \in (o + 1)..Len(ha) PROVE ha[x].fp = j
    <3>1. PICK y \in 1..Len(d.tries) : x = o + y
      <4>1. PICK l : l = Len(d.tries)
        OBVIOUS
      <4>2. l \in Nat /\ o \in Nat /\ x \in (o + 1)..(o + l)
        BY <1>5, <1>8, <2>1, <4>1
      <4>3. x - o \in 1..l /\ x = o + (x - o)
        BY ONLY <4>2
      <4> QED BY <4>1, <4>3
    <3>2. Guards(c, A, ha[o + y], j, d.tries[y], b, Len(st) - d.temps)
      BY <1>2, <3>1 DEF Tops
    <3> QED BY <3>1, <3>2 DEF Guards
  <2> QED BY <2>1
<1>10. Cut(m, m2, j)
  <2>1. o <= Len(ha)
    BY <1>5, <1>8
  <2> QED BY <1>1, <1>2, <1>3, <1>4, <1>6, <1>9, <2>1 DEF Cut
<1>11. Tip(m2) = j /\ Floor(m2, j) = b /\ Outside(m2, j) = o
  <2>1. j \in 0..j
    BY <1>5
  <2> QED BY <1>2, <1>4, <1>10, <2>1, CutFrames
<1>12. Height(m2, j) = Len(st) /\ Reach(m2, j) = Len(ha)
  BY <1>3, <1>11 DEF Height, Reach
<1>13. Standing(c, A, m2, j, d)
  BY <1>2, <1>3, <1>11, <1>12 DEF Standing, Tops
<1>14. Resumes(c, A, m, m2, j)
  BY <1>2, <1>3, <1>7, <1>10, <1>13 DEF Resumes
<1>15. Running(c, A, m2)
  BY <1>4, <1>14, BackTo
<1> QED BY <1>1, <1>2, <1>15 DEF Stepped, Stays

\* What Standing says, for an activation j with its own numbers.
Stood(c, A, m, j, s, b, o, h, r) ==
    /\ b = Floor(m, j) /\ o = Outside(m, j) /\ h = Height(m, j) /\ r = Reach(m, j)
    /\ b \in Nat /\ o \in Nat /\ h \in Nat /\ r \in Nat /\ j \in Nat
    /\ s \in Shape /\ Len(s.vars) \in Nat /\ Len(s.tries) \in Nat /\ s.temps \in Nat
    /\ Nests(c, A, s)
    /\ s.func <=> j > 0
    /\ b + Len(s.vars) + s.temps <= h
    /\ j = 0 => h = s.temps
    /\ \A i \in 1..Len(s.vars) : m.stack[b + i] = <<s.vars[i], j>>
    /\ r = o + Len(s.tries)
    /\ \A i \in 1..Len(s.tries) : Guards(c, A, m.handlers[o + i], j, s.tries[i], b, h - s.temps)
    /\ \A i, q \in 1..Len(s.tries) : i < q => m.handlers[o + i].sp <= m.handlers[o + q].sp

LEMMA StoodFacts ==
  ASSUME NEW c, NEW A, NEW m, Whole(c, A), Running(c, A, m), NEW j \in 0..Tip(m),
         NEW p, p = Place(m, j), NEW s, s = A[p], NEW b, b = Floor(m, j), NEW o, o = Outside(m, j),
         NEW h, h = Height(m, j), NEW r, r = Reach(m, j)
  PROVE  Stood(c, A, m, j, s, b, o, h, r) /\ p \in 1..Len(c)
<1>1. p \in 1..Len(c) /\ Standing(c, A, m, j, s) /\ b \in Nat /\ o \in Nat /\ h \in Nat /\ r \in Nat /\ j \in Nat
  BY RunningFacts
<1>2. s \in Shape /\ Nests(c, A, s)
  BY <1>1, WholeFacts
<1>3. Len(s.vars) \in Nat /\ Len(s.tries) \in Nat /\ s.temps \in Nat
  BY <1>2 DEF Shape
<1> QED BY <1>1, <1>2, <1>3 DEF Stood, Standing

LEMMA ReturningRuns ==
  ASSUME NEW A, NEW m, NEW i, NEW s, NEW k, NEW b0, NEW o0, Ready(A, m, i, s, k, b0, o0), Returning
  PROVE  Stepped(A)
<1>1. /\ Sp \in Nat /\ Len(s.vars) \in Nat /\ Len(s.tries) \in Nat /\ s.temps \in Nat /\ b0 \in Nat /\ o0 \in Nat /\ k \in Nat
      /\ b0 + Len(s.vars) + s.temps <= Sp
      /\ Base = b0 /\ Fp = k /\ Depth = o0 /\ Op = i /\ Len(stack) = Sp /\ stack \in Seq(Value) /\ Sp <= StackMax
      /\ Len(handlers) = o0 + Len(s.tries) /\ Len(handlers) \in Nat
  BY ReadyNums
<1>2. i.op = "RETURN" /\ Legal(i, s) /\ Tops(code, A, stack, handlers, k, b0, o0, s)
  BY <1>1 DEF Returning, At, Ready
<1>3. s.func /\ s.temps > 0 /\ k > 0
  BY <1>2 DEF Legal, Tops
<1>4. PICK c, f, j, p, d0 : c = code /\ f = frames[k] /\ j = k - 1 /\ p = f.ret - 1 /\ d0 = A[p]
  OBVIOUS
<1>5. /\ Whole(c, A) /\ Running(c, A, m) /\ m.stack = stack /\ m.frames = frames /\ m.handlers = handlers
      /\ k = Tip(m) /\ k = Len(frames) /\ frames \in Seq(Frame) /\ handlers \in Seq(Handler) /\ Len(handlers) <= HandlersMax
  BY <1>4 DEF Ready, Fp, Sized
<1>6. j \in 0..Tip(m) /\ j # Tip(m) /\ j + 1 = k /\ j \in Nat /\ k \in 1..Len(frames) /\ k # 0
  BY <1>1, <1>3, <1>4, <1>5
<1>7. f.ret \in Nat /\ f.base = b0 /\ f.depth = o0
  <2>1. f \in Frame
    BY <1>4, <1>5, <1>6
  <2> QED BY <1>1, <1>3, <1>4, <2>1 DEF Frame, Base, Depth
<1>8. PICK b, o, h, r : b = Floor(m, j) /\ o = Outside(m, j) /\ h = Height(m, j) /\ r = Reach(m, j)
  OBVIOUS
<1>9. p = Place(m, j) /\ h = b0 + 1 /\ r = o0
  BY <1>4, <1>5, <1>6, <1>7, <1>8 DEF Place, Height, Reach
<1>10. Stood(c, A, m, j, d0, b, o, h, r) /\ p \in 1..Len(c)
  BY ZenonT(30), <1>4, <1>5, <1>6, <1>8, <1>9, StoodFacts
<1>11. c[p].op = "CALL"
  <2>1. k \in 1..Tip(m)
    BY <1>5, <1>6
  <2> QED BY <1>4, <1>5, <2>1 DEF Running
<1>12. PICK q, d, e : q = f.ret /\ d = A[q] /\ e = c[p]
  OBVIOUS
<1>13. q = p + 1 /\ q \in 1..Len(c) /\ Works(c, A, p) /\ d \in Shape
  <2>1. Works(c, A, p) /\ (Falls(c[p].op) => p < Len(c)) /\ Len(c) \in Nat
    BY <1>5, <1>10, WholeFacts
  <2>2. p < Len(c)
    BY <1>11, <2>1 DEF Falls
  <2>3. q = p + 1
    BY <1>4, <1>7, <1>12
  <2>4. q \in 1..Len(c)
    BY <1>10, <2>1, <2>2, <2>3
  <2> QED BY <1>5, <1>12, <2>1, <2>3, <2>4, WholeFacts
<1>14. Legal(e, d0) /\ Steps(e, p, d0, d)
  <2>1. Falls(e.op)
    BY <1>11, <1>12 DEF Falls
  <2> QED BY <1>4, <1>12, <1>13, <2>1 DEF Works
<1>15. d0.temps > 0 /\ d.func = d0.func /\ d.tries = d0.tries /\ Prefix(d.vars, d0.vars) /\ d.temps = d0.temps /\ ~d.arg
  BY <1>11, <1>12, <1>14 DEF Legal, Steps, TriesAfter, VarsAfter, TempsAfter
<1>16. PICK cut, st, ha : cut = SubSeq(stack, 1, b0) /\ st = Append(cut, Temp) /\ ha = SubSeq(handlers, 1, o0)
  OBVIOUS
<1>17. b0 \in 0..Len(stack) /\ o0 \in 0..Len(handlers) /\ b0 + 1 <= Sp
  <2>1. PICK x, y, t : x = Len(s.vars) /\ y = Len(s.tries) /\ t = s.temps
    OBVIOUS
  <2>2. /\ x \in Nat /\ y \in Nat /\ t \in Nat /\ t > 0 /\ b0 \in Nat /\ o0 \in Nat /\ Sp \in Nat
        /\ b0 + x + t <= Sp
    BY <1>1, <1>3, <2>1
  <2>3. b0 \in 0..Sp /\ b0 + 1 <= Sp /\ o0 \in 0..(o0 + y)
    BY ONLY <2>2
  <2> QED BY <1>1, <2>1, <2>3
<1>18. cut \in Seq(Value) /\ Len(cut) = b0 /\ \A x \in 1..b0 : cut[x] = stack[x]
  BY <1>1, <1>16, <1>17, InitialPart
<1>19. ha \in Seq(Handler) /\ Len(ha) = o0 /\ \A x \in 1..o0 : ha[x] = handlers[x]
  BY <1>5, <1>16, <1>17, InitialPart
<1>20. st \in Seq(Value) /\ Len(st) = b0 + 1 /\ \A x \in 1..b0 : st[x] = stack[x]
  <2>1. Temp \in Value
    BY DEF Temp, Value
  <2>2. st \in Seq(Value) /\ Len(st) = Len(cut) + 1 /\ \A x \in 1..Len(cut) : st[x] = cut[x]
    BY <1>16, <1>18, <2>1, AppendProperties
  <2> QED BY <1>18, <2>2
<1>21. stack' = st /\ handlers' = ha /\ ip' = q /\ phase' = phase /\ frames' = SubSeq(frames, 1, j)
  <2>1. ~(Sp = 0 \/ Fp = 0)
    BY <1>1, <1>3, <1>17
  <2>2. Last(frames) = f /\ Front(frames) = SubSeq(frames, 1, j)
    BY <1>4, <1>5 DEF Last, Front
  <2>3. ~(b0 >= StackMax)
    <3>1. StackMax \in Nat
      BY ControlAssumption
    <3> QED BY <1>1, <1>17, <3>1
  <2> QED BY <1>7, <1>12, <1>16, <2>1, <2>2, <2>3 DEF Returning, Go
<1>22. Len(d.vars) \in Nat /\ Len(d.vars) <= Len(d0.vars) /\ \A x \in 1..Len(d.vars) : d.vars[x] = d0.vars[x]
  BY <1>13, <1>15 DEF Shape, Prefix
<1>23. /\ \A x \in 1..Len(d.vars) : x \in 1..Len(d0.vars) /\ b + x \in 1..b0
       /\ b + Len(d.vars) + d.temps <= Len(st)
       /\ \A x \in 1..b : x \in 1..b0
       /\ o <= o0 /\ \A x \in 1..o : x \in 1..o0
       /\ \A x \in 1..Len(d0.tries) : o + x \in 1..o0
  <2>1. PICK x, y, t, z, w : x = Len(d0.vars) /\ y = Len(d.vars) /\ t = d0.temps /\ z = Len(d0.tries) /\ w = Len(st)
    OBVIOUS
  <2>2. /\ x \in Nat /\ y \in Nat /\ t \in Nat /\ t > 0 /\ z \in Nat /\ b \in Nat /\ b0 \in Nat /\ o \in Nat /\ o0 \in Nat
        /\ b + x + t <= h /\ h = b0 + 1 /\ w = b0 + 1 /\ y <= x /\ r = o + z /\ r = o0
    BY <1>1, <1>9, <1>10, <1>15, <1>20, <1>22, <2>1 DEF Stood
  <2>3. /\ \A v \in 1..y : v \in 1..x /\ b + v \in 1..b0
        /\ b + y + t <= w
        /\ \A v \in 1..b : v \in 1..b0
        /\ o <= o0 /\ \A v \in 1..o : v \in 1..o0
        /\ \A v \in 1..z : o + v \in 1..o0
    BY ONLY <2>2
  <2> QED BY <1>15, <2>1, <2>3
<1>24. \A x \in 1..Len(d.vars) : st[b + x] = <<d.vars[x], j>>
  BY <1>5, <1>10, <1>20, <1>22, <1>23 DEF Stood
<1>25. Len(st) = h
  BY <1>9, <1>20
<1>26. Tops(c, A, st, ha, j, b, o, d)
  <2>1. (d.func <=> j > 0) /\ (j = 0 => Len(st) = d.temps) /\ Len(ha) = o + Len(d.tries)
    BY <1>9, <1>10, <1>15, <1>19, <1>25 DEF Stood
  <2>2. \A x \in 1..Len(d.tries) : ha[o + x] = m.handlers[o + x]
    BY <1>5, <1>15, <1>19, <1>23
  <2>3. \A x \in 1..Len(d.tries) : Guards(c, A, ha[o + x], j, d.tries[x], b, Len(st) - d.temps)
    BY <1>10, <1>15, <1>25, <2>2 DEF Stood
  <2>4. \A x, y \in 1..Len(d.tries) : x < y => ha[o + x].sp <= ha[o + y].sp
    BY <1>10, <1>15, <2>2 DEF Stood
  <2> QED BY <1>23, <1>24, <2>1, <2>3, <2>4 DEF Tops
<1>27. Len(st) <= StackMax /\ Len(ha) <= HandlersMax /\ o <= Len(handlers)
  <2>1. StackMax \in Nat /\ HandlersMax \in Nat
    BY ControlAssumption
  <2>2. o \in Nat
    BY SMTT(20), <1>10 DEF Stood
  <2> QED BY SMTT(20), <1>1, <1>5, <1>17, <1>19, <1>20, <1>23, <2>1, <2>2
<1>28. Backs(A, m, j, b, o, st, ha, q, d)
  BY <1>4, <1>6, <1>8, <1>12, <1>13, <1>15, <1>19, <1>20, <1>21, <1>23, <1>26, <1>27 DEF Backs
<1> QED BY <1>28, BacksRuns

Innermost(m, n, g, j) == n = Len(m.handlers) /\ n > 0 /\ g = m.handlers[n] /\ j = g.fp

\* The innermost handler is the last one of the activation it is of.
LEMMA InnermostHandler ==
  ASSUME NEW c, NEW A, NEW m, Whole(c, A), Running(c, A, m), NEW n, NEW g, NEW j, Innermost(m, n, g, j)
  PROVE  j \in 0..Tip(m) /\ Reach(m, j) = n /\ n \in (Outside(m, j) + 1)..n
<1> USE DEF Innermost
<1>1. n \in Nat /\ Tip(m) \in Nat
  <2>1. m.handlers \in Seq(Handler) /\ m.frames \in Seq(Frame)
    BY DEF Running, Sized
  <2> QED BY <2>1 DEF Tip
<1>2. n \in 1..Len(m.handlers)
  BY <1>1
<1>3. j \in 0..Tip(m) /\ n \in (Outside(m, j) + 1)..Reach(m, j)
  BY <1>2 DEF Running
<1>4. Outside(m, j) \in Nat /\ Reach(m, j) \in Nat
  BY <1>3, RunningFacts
<1>5. Reach(m, j) <= n
  <2>1. CASE j = Tip(m)
    BY <1>4, <2>1 DEF Reach
  <2>2. CASE j # Tip(m)
    <3>1. PICK k \in 0..Tip(m) : k = Tip(m)
      BY <1>1
    <3>2. j < k
      BY <1>1, <1>3, <2>2, <3>1
    <3>3. Reach(m, j) <= Outside(m, k)
      BY <1>3, <3>1, <3>2, Layers
    <3>4. PICK s, p, b, o, h, r : /\ p = Place(m, k) /\ s = A[p] /\ b = Floor(m, k) /\ o = Outside(m, k)
                                  /\ h = Height(m, k) /\ r = Reach(m, k)
      OBVIOUS
    <3>5. Stood(c, A, m, k, s, b, o, h, r)
      BY <3>4, StoodFacts
    <3>6. r = n
      BY <3>1, <3>4 DEF Reach
    <3>7. o <= n
      <4>1. PICK x : x = Len(s.tries)
        OBVIOUS
      <4>2. x \in Nat /\ o \in Nat /\ n = o + x
        BY <3>5, <3>6, <4>1 DEF Stood
      <4> QED BY ONLY <4>2
    <3> QED BY <1>1, <1>4, <3>3, <3>4, <3>5, <3>7 DEF Stood
  <2> QED BY <2>1, <2>2
<1> QED BY <1>1, <1>3, <1>4, <1>5

\* What a handler saved of the stack lies below the value thrown.
LEMMA SavedBelow ==
  ASSUME NEW c, NEW A, NEW m, Whole(c, A), Running(c, A, m), NEW j \in 0..Tip(m),
         NEW k, k = Tip(m), A[m.ip].temps > 0,
         NEW s, s = A[Place(m, j)], NEW h, h = Height(m, j), NEW x, x <= h - s.temps, x \in Nat
  PROVE  x + 1 <= Len(m.stack)
<1>1. Tip(m) \in Nat /\ k \in 0..Tip(m)
  BY RunningFacts
<1>2. PICK n, s1, p1, b1, o1, h1, r1 : /\ n = Len(m.stack) /\ p1 = Place(m, k) /\ s1 = A[p1] /\ b1 = Floor(m, k)
                                       /\ o1 = Outside(m, k) /\ h1 = Height(m, k) /\ r1 = Reach(m, k)
  OBVIOUS
<1>3. Stood(c, A, m, k, s1, b1, o1, h1, r1)
  BY <1>1, <1>2, StoodFacts
<1>4. p1 = m.ip /\ h1 = n
  BY <1>2 DEF Place, Height
<1>5. PICK v1, t1 : v1 = Len(s1.vars) /\ t1 = s1.temps
  OBVIOUS
<1>6. v1 \in Nat /\ t1 \in Nat /\ t1 > 0 /\ b1 \in Nat /\ n \in Nat /\ b1 + v1 + t1 <= n
  BY <1>2, <1>3, <1>4, <1>5 DEF Stood
<1>7. CASE j = k
  <2>1. h = n /\ s.temps = t1
    BY <1>2, <1>4, <1>5, <1>7
  <2>2. x <= n - t1
    BY <2>1
  <2>3. x + 1 <= n
    BY ONLY <1>6, <2>2, x \in Nat
  <2> QED BY <1>2, <2>3
<1>8. CASE j # k
  <2>1. j < k
    BY <1>1, <1>8
  <2>2. PICK p, b, o, r : p = Place(m, j) /\ b = Floor(m, j) /\ o = Outside(m, j) /\ r = Reach(m, j)
    OBVIOUS
  <2>3. Stood(c, A, m, j, s, b, o, h, r) /\ p \in 1..Len(c)
    BY <2>2, StoodFacts
  <2>4. h <= b1 + 1 /\ c[p].op = "CALL"
    BY <1>1, <1>2, <2>1, <2>2, Layers
  <2>5. Legal(c[p], s)
    BY <2>2, <2>3, WholeFacts DEF Works
  <2>6. PICK t : t = s.temps
    OBVIOUS
  <2>7. t \in Nat /\ t > 0 /\ h \in Nat /\ x <= h - t
    BY <2>3, <2>4, <2>5, <2>6 DEF Stood, Legal
  <2>8. x + 1 <= n
    BY ONLY <1>6, <2>4, <2>7, x \in Nat
  <2> QED BY <1>2, <2>8
<1> QED BY <1>7, <1>8

\* At the handler h of OP_TRY_BEGIN t, in shape d.
Catches(c, A, s, t, n, h, d) ==
    /\ t \in 1..Len(c) /\ h = t + 1 + c[t].n /\ h \in 1..Len(c) /\ d = A[h] /\ d \in Shape /\ A[t] \in Shape
    /\ d.func = s.func /\ d.tries = SubSeq(s.tries, 1, n - 1) /\ d.temps = 1 /\ ~d.arg
    /\ Prefix(d.vars, A[t].vars) /\ Prefix(A[t].vars, s.vars)

LEMMA CatchShape ==
  ASSUME NEW c, NEW A, Whole(c, A), NEW s, Nests(c, A, s), NEW n \in 1..Len(s.tries),
         NEW t, t = s.tries[n], NEW h, h = t + 1 + c[t].n, NEW d, d = A[h]
  PROVE  Catches(c, A, s, t, n, h, d)
<1>1. PICK i, a, x : i = c[t] /\ a = A[t] /\ x = i.n
  OBVIOUS
<1>2. /\ t \in 1..Len(c) /\ i.op = "TRY_BEGIN" /\ a.tries = SubSeq(s.tries, 1, n - 1)
      /\ Prefix(a.vars, s.vars) /\ a.func = s.func
  BY <1>1 DEF Nests
<1>3. a \in Shape /\ Works(c, A, t) /\ Lands(c, A, t, Len(c))
  BY <1>1, <1>2, WholeFacts
<1>4. Legal(i, a)
  BY ONLY <1>1, <1>3 DEF Works
<1>5. a.temps = 0
  BY ONLY <1>2, <1>4 DEF Legal
<1>6. h = t + 1 + x
  BY <1>1
<1>7. h \in 1..Len(c) /\ Taken("TRY_BEGIN", a, A[h])
  BY ONLY <1>1, <1>2, <1>3, <1>6 DEF Lands, Branching
<1>8. \A q \in 1..Len(c) : A[q] \in Shape
  BY WholeFacts
<1>9. d = A[h]
  OBVIOUS
<1>10. d \in Shape /\ Taken("TRY_BEGIN", a, d)
  BY ONLY <1>7, <1>8, <1>9
<1>11. d.func = a.func /\ d.tries = a.tries /\ Prefix(d.vars, a.vars) /\ d.temps = a.temps + 1 /\ ~d.arg
  BY ONLY <1>10 DEF Taken
<1>12. d.func = s.func /\ d.tries = SubSeq(s.tries, 1, n - 1) /\ d.temps = 1
  BY ONLY <1>2, <1>5, <1>11
<1> QED BY ONLY <1>1, <1>2, <1>3, <1>6, <1>7, <1>9, <1>10, <1>11, <1>12 DEF Catches

LEMMA ThrowingRuns ==
  ASSUME NEW A, NEW m, NEW i, NEW s0, NEW k, NEW b0, NEW o0, Ready(A, m, i, s0, k, b0, o0), Throwing
  PROVE  Stepped(A)
<1>1. /\ Sp \in Nat /\ Len(s0.vars) \in Nat /\ s0.temps \in Nat /\ b0 \in Nat /\ k \in Nat
      /\ b0 + Len(s0.vars) + s0.temps <= Sp
      /\ Op = i /\ Len(stack) = Sp /\ stack \in Seq(Value) /\ Sp <= StackMax /\ Len(handlers) \in Nat
  BY ReadyNums
<1>2. i.op = "THROW" /\ Legal(i, s0)
  BY <1>1 DEF Throwing, At, Ready
<1>3. s0.temps > 0
  BY <1>2 DEF Legal
<1>4. Sp # 0
  BY <1>1, <1>3
<1>5. CASE handlers = <<>>
  BY <1>4, <1>5 DEF Throwing, Fail, Stop, Stepped, Stops
<1>6. CASE handlers # <<>>
  <2>1. PICK c, n, g, j, p, s, b, o, h, r :
           /\ c = code /\ n = Len(handlers) /\ g = handlers[n] /\ j = g.fp /\ p = Place(m, j) /\ s = A[p]
           /\ b = Floor(m, j) /\ o = Outside(m, j) /\ h = Height(m, j) /\ r = Reach(m, j)
    OBVIOUS
  <2>2. /\ Whole(c, A) /\ Running(c, A, m) /\ m.stack = stack /\ m.frames = frames /\ m.handlers = handlers
        /\ m.ip = ip /\ s0 = A[ip] /\ k = Tip(m)
        /\ k = Len(frames) /\ frames \in Seq(Frame) /\ handlers \in Seq(Handler) /\ Len(handlers) <= HandlersMax
    BY <2>1 DEF Ready, Fp, Sized
  <2>3. n \in Nat /\ n > 0 /\ n \in 1..Len(handlers)
    <3>1. Len(handlers) # 0
      BY <1>6, <2>2
    <3> QED BY <1>1, <2>1, <3>1
  <2>4. j \in 0..Tip(m) /\ r = n /\ n \in (o + 1)..n
    <3>1. Innermost(m, n, g, j)
      BY <2>1, <2>2, <2>3 DEF Innermost
    <3>2. j \in 0..Tip(m) /\ Reach(m, j) = n /\ n \in (Outside(m, j) + 1)..n
      BY <2>2, <2>3, <3>1, InnermostHandler
    <3> QED BY <2>1, <3>2
  <2>5. Stood(c, A, m, j, s, b, o, h, r)
    BY <2>1, <2>2, <2>4, StoodFacts
  <2>6. PICK l, t : l = Len(s.tries) /\ t = s.tries[l]
    OBVIOUS
  <2>7. l \in 1..Len(s.tries) /\ l \in Nat /\ n = o + l
    <3>1. l \in Nat /\ o \in Nat /\ n \in Nat /\ n = o + l /\ n \in (o + 1)..n
      BY <2>3, <2>4, <2>5, <2>6 DEF Stood
    <3>2. l \in 1..l
      BY ONLY <3>1
    <3> QED BY <2>6, <3>1, <3>2
  <2>8. g \in Handler
    BY <2>1, <2>2, <2>3
  <2>9. PICK q, z, d : q = g.catch /\ z = g.sp /\ d = A[q]
    OBVIOUS
  <2>10. z \in Nat
    BY <2>8, <2>9 DEF Handler
  <2>11. q = t + 1 + c[t].n /\ b + Len(A[t].vars) <= z /\ z <= h - s.temps
    <3>1. Guards(c, A, m.handlers[o + l], j, s.tries[l], b, h - s.temps)
      BY <2>5, <2>7 DEF Stood
    <3>2. m.handlers[o + l] = g
      BY <2>1, <2>2, <2>7
    <3> QED BY <2>6, <2>9, <3>1, <3>2 DEF Guards
  <2>12. Catches(c, A, s, t, l, q, d)
    <3>1. Nests(c, A, s)
      BY <2>5 DEF Stood
    <3> QED BY <2>2, <2>6, <2>7, <2>9, <2>11, <3>1, CatchShape
  <2>13. z + 1 <= Sp
    <3>1. A[m.ip].temps > 0
      BY <1>3, <2>2
    <3>2. s = A[Place(m, j)]
      BY <2>1
    <3> QED BY <1>1, <2>1, <2>2, <2>4, <2>10, <2>11, <3>1, <3>2, SavedBelow
  <2>14. PICK cut, st, ha, e : cut = SubSeq(stack, 1, z) /\ st = Append(cut, Temp) /\ e = n - 1 /\ ha = SubSeq(handlers, 1, e)
    OBVIOUS
  <2>15. z \in 0..Len(stack) /\ e \in 0..Len(handlers) /\ e = o + (l - 1) /\ l - 1 \in Nat /\ o \in Nat
    <3>1. o \in Nat
      BY <2>5 DEF Stood
    <3>2. z \in 0..Len(stack)
      BY <1>1, <2>10, <2>13
    <3>3. e \in 0..n /\ e = o + (l - 1) /\ l - 1 \in Nat
      <4>1. o \in Nat /\ n \in Nat /\ l \in Nat /\ n = o + l /\ e = n - 1 /\ n \in (o + 1)..n
        BY <2>3, <2>4, <2>7, <2>14, <3>1
      <4> QED BY ONLY <4>1
    <3> QED BY <2>1, <3>1, <3>2, <3>3
  <2>16. cut \in Seq(Value) /\ Len(cut) = z /\ \A x \in 1..z : cut[x] = stack[x]
    BY <1>1, <2>14, <2>15, InitialPart
  <2>17. ha \in Seq(Handler) /\ Len(ha) = e /\ \A x \in 1..e : ha[x] = handlers[x]
    BY <2>2, <2>14, <2>15, InitialPart
  <2>18. st \in Seq(Value) /\ Len(st) = z + 1 /\ \A x \in 1..z : st[x] = stack[x]
    <3>1. Temp \in Value
      BY DEF Temp, Value
    <3>2. st \in Seq(Value) /\ Len(st) = Len(cut) + 1 /\ \A x \in 1..Len(cut) : st[x] = cut[x]
      BY <2>14, <2>16, <3>1, AppendProperties
    <3> QED BY <2>16, <3>2
  <2>19. stack' = st /\ handlers' = ha /\ ip' = q /\ phase' = phase /\ frames' = SubSeq(frames, 1, j)
    <3>1. Last(handlers) = g /\ Front(handlers) = ha
      BY <2>1, <2>2, <2>14 DEF Last, Front
    <3>2. ~(z >= StackMax)
      <4>1. StackMax \in Nat
        BY ControlAssumption
      <4> QED BY <1>1, <2>10, <2>13, <4>1
    <3> QED BY <1>4, <1>6, <2>1, <2>9, <2>14, <3>1, <3>2 DEF Throwing, Go
  <2>20. PICK v : v = A[t].vars
    OBVIOUS
  <2>21. /\ Len(d.vars) \in Nat /\ Len(v) \in Nat /\ Len(d.vars) <= Len(v) /\ Len(v) <= Len(s.vars)
         /\ \A x \in 1..Len(d.vars) : d.vars[x] = v[x]
         /\ \A x \in 1..Len(v) : v[x] = s.vars[x]
    BY SMTT(20), <2>12, <2>20 DEF Catches, Shape, Prefix
  <2>22. d.func = s.func /\ d.tries = SubSeq(s.tries, 1, l - 1) /\ d.temps = 1 /\ ~d.arg /\ q \in 1..Len(c)
    BY <2>12 DEF Catches
  <2>23. Len(d.tries) = l - 1 /\ \A x \in 1..(l - 1) : d.tries[x] = s.tries[x]
    <3>1. PICK ts, dt, y : ts = s.tries /\ dt = d.tries /\ y = l - 1
      OBVIOUS
    <3>2. ts \in Seq(Nat) /\ y \in 0..Len(ts) /\ dt = SubSeq(ts, 1, y)
      BY <2>5, <2>7, <2>15, <2>22, <3>1 DEF Stood, Shape
    <3>3. Len(dt) = y /\ \A x \in 1..y : dt[x] = ts[x]
      BY <3>2, InitialPart
    <3> QED BY <3>1, <3>3
  <2>24. /\ \A x \in 1..Len(d.vars) : x \in 1..Len(v) /\ x \in 1..Len(s.vars) /\ b + x \in 1..z
         /\ b + Len(d.vars) + 1 <= z + 1
         /\ \A x \in 1..b : x \in 1..z
         /\ \A x \in 1..o : x \in 1..e
         /\ \A x \in 1..(l - 1) : x \in 1..l /\ o + x \in 1..e /\ x < l
    <3>1. PICK x, y, w : x = Len(s.vars) /\ y = Len(v) /\ w = Len(d.vars)
      OBVIOUS
    <3>2. /\ x \in Nat /\ y \in Nat /\ w \in Nat /\ b \in Nat /\ o \in Nat /\ z \in Nat /\ l \in Nat /\ e \in Nat
          /\ b + y <= z /\ w <= y /\ y <= x /\ e = o + (l - 1) /\ l - 1 \in Nat
      BY <2>5, <2>7, <2>10, <2>11, <2>15, <2>17, <2>20, <2>21, <3>1 DEF Stood
    <3>3. /\ \A u \in 1..w : u \in 1..y /\ u \in 1..x /\ b + u \in 1..z
          /\ b + w + 1 <= z + 1
          /\ \A u \in 1..b : u \in 1..z
          /\ \A u \in 1..o : u \in 1..e
          /\ \A u \in 1..(l - 1) : u \in 1..l /\ o + u \in 1..e /\ u < l
      BY ONLY <3>2
    <3> QED BY <3>1, <3>3
  <2>25. \A x \in 1..Len(d.vars) : st[b + x] = <<d.vars[x], j>>
    <3>1. ASSUME NEW x \in 1..Len(d.vars) PROVE st[b + x] = <<d.vars[x], j>>
      <4>1. x \in 1..Len(v) /\ x \in 1..Len(s.vars) /\ b + x \in 1..z
        BY <2>24
      <4>2. stack[b + x] = <<s.vars[x], j>>
        BY <2>2, <2>5, <4>1 DEF Stood
      <4>3. st[b + x] = stack[b + x]
        BY <2>18, <4>1
      <4>4. d.vars[x] = s.vars[x]
        BY <2>21, <4>1
      <4> QED BY <4>2, <4>3, <4>4
    <3> QED BY <3>1
  <2>26. j = 0 => Len(st) = 1
    <3>1. ASSUME j = 0 PROVE z = 0
      <4>1. h = s.temps /\ h \in Nat
        BY <2>5, <3>1 DEF Stood
      <4> QED BY <2>10, <2>11, <4>1
    <3> QED BY <2>18, <3>1
  <2>27. Len(st) - d.temps = z
    BY <2>10, <2>18, <2>22
  <2>28. \A x \in 1..(l - 1) : ha[o + x] = m.handlers[o + x]
    BY <2>2, <2>17, <2>24
  <2>29. \A x \in 1..(l - 1) : Guards(c, A, ha[o + x], j, d.tries[x], b, z)
    <3>1. ASSUME NEW x \in 1..(l - 1) PROVE Guards(c, A, ha[o + x], j, d.tries[x], b, z)
      <4>1. Guards(c, A, m.handlers[o + x], j, s.tries[x], b, h - s.temps)
        BY <2>5, <2>6, <2>24 DEF Stood
      <4>2. m.handlers[o + x].sp <= m.handlers[o + l].sp
        BY <2>5, <2>6, <2>7, <2>24 DEF Stood
      <4>3. m.handlers[o + l].sp = z
        BY <2>1, <2>2, <2>7, <2>9
      <4> QED BY <2>23, <2>28, <4>1, <4>2, <4>3 DEF Guards
    <3> QED BY <3>1
  <2>30. \A x, y \in 1..(l - 1) : x < y => ha[o + x].sp <= ha[o + y].sp
    BY <2>5, <2>6, <2>24, <2>28 DEF Stood
  <2>31. Tops(c, A, st, ha, j, b, o, d)
    <3>1. (d.func <=> j > 0) /\ (j = 0 => Len(st) = d.temps) /\ Len(ha) = o + Len(d.tries)
      BY <2>5, <2>15, <2>17, <2>22, <2>23, <2>26 DEF Stood
    <3>2. b + Len(d.vars) + d.temps <= Len(st)
      BY <2>18, <2>22, <2>24
    <3> QED BY <2>23, <2>25, <2>27, <2>29, <2>30, <3>1, <3>2 DEF Tops
  <2>32. Len(st) <= StackMax /\ Len(ha) <= HandlersMax /\ o <= Len(handlers)
    <3>1. StackMax \in Nat /\ HandlersMax \in Nat
      BY ControlAssumption
    <3>2. Len(st) = z + 1 /\ z + 1 <= Sp /\ Sp <= StackMax /\ Sp \in Nat /\ z \in Nat
      BY <1>1, <2>10, <2>13, <2>18
    <3>3. /\ Len(ha) = e /\ e \in 0..Len(handlers) /\ e = o + (l - 1) /\ l - 1 \in Nat /\ o \in Nat
          /\ Len(handlers) \in Nat /\ Len(handlers) <= HandlersMax
      BY <1>1, <2>2, <2>15, <2>17
    <3>4. Len(st) <= StackMax
      BY ONLY <3>1, <3>2
    <3>5. Len(ha) <= HandlersMax /\ o <= Len(handlers)
      <4>1. PICK w, y \in Int : w = Len(handlers) /\ y = l - 1
        BY <3>3
      <4> QED BY ONLY <3>1, <3>3, <4>1
    <3> QED BY <3>4, <3>5
  <2>33. \A x \in 1..b : st[x] = stack[x]
    BY <2>18, <2>24
  <2>34. \A x \in 1..o : ha[x] = handlers[x]
    BY <2>17, <2>24
  <2>35. Backs(A, m, j, b, o, st, ha, q, d)
    BY <2>1, <2>4, <2>9, <2>17, <2>18, <2>19, <2>22, <2>31, <2>32, <2>33, <2>34 DEF Backs
  <2> QED BY <2>35, BacksRuns
<1> QED BY <1>5, <1>6

\* m2 has one activation more than m, which runs f.
Enters(A, m, m2, f, k) ==
    /\ k = Tip(m) /\ m2.stack = m.stack /\ m2.handlers = m.handlers /\ m2.frames = Append(m.frames, f)
    /\ f = [ret |-> m.ip + 1, base |-> Len(m.stack) - 1, depth |-> Len(m.handlers)]

LEMMA EnterFrames ==
  ASSUME NEW c, NEW A, NEW m, Whole(c, A), Running(c, A, m), NEW m2, NEW f, NEW k, Enters(A, m, m2, f, k),
         Len(m.stack) > 0
  PROVE  /\ f \in Frame /\ m2.frames \in Seq(Frame) /\ Tip(m2) = k + 1 /\ k \in Nat
         /\ m2.frames[k + 1] = f /\ \A j \in 1..k : m2.frames[j] = m.frames[j]
         /\ \A j \in 0..k : /\ Floor(m2, j) = Floor(m, j) /\ Outside(m2, j) = Outside(m, j)
                            /\ Place(m2, j) = Place(m, j) /\ Height(m2, j) = Height(m, j) /\ Reach(m2, j) = Reach(m, j)
<1>1. /\ k = Tip(m) /\ m2.stack = m.stack /\ m2.handlers = m.handlers /\ m2.frames = Append(m.frames, f)
      /\ f = [ret |-> m.ip + 1, base |-> Len(m.stack) - 1, depth |-> Len(m.handlers)]
  BY DEF Enters
<1>2. /\ k \in Nat /\ m.frames \in Seq(Frame) /\ m.handlers \in Seq(Handler) /\ m.stack \in Seq(Value)
      /\ m.ip \in 1..Len(c) /\ k = Len(m.frames)
  <2>1. m.frames \in Seq(Frame)
    BY DEF Running, Sized
  <2>2. k \in 0..Tip(m)
    BY <1>1, <2>1 DEF Tip
  <2>3. Place(m, k) = m.ip
    BY <1>1 DEF Place
  <2> QED BY <1>1, <2>2, <2>3, RunningFacts DEF Tip
<1>3. f \in Frame
  <2>1. PICK x, y, z : x = Len(m.stack) /\ y = Len(m.handlers) /\ z = m.ip
    OBVIOUS
  <2>2. x \in Nat /\ x > 0 /\ y \in Nat /\ z \in Nat
    BY <1>2, <2>1
  <2>3. x - 1 \in Nat /\ z + 1 \in Nat
    BY ONLY <2>2
  <2> QED BY <1>1, <2>1, <2>2, <2>3 DEF Frame
<1>4. m2.frames \in Seq(Frame) /\ Len(m2.frames) = k + 1 /\ m2.frames[k + 1] = f /\ \A j \in 1..k : m2.frames[j] = m.frames[j]
  BY <1>1, <1>2, <1>3, AppendProperties
<1>5. ASSUME NEW j \in 0..k
      PROVE  /\ Floor(m2, j) = Floor(m, j) /\ Outside(m2, j) = Outside(m, j)
             /\ Place(m2, j) = Place(m, j) /\ Height(m2, j) = Height(m, j) /\ Reach(m2, j) = Reach(m, j)
  <2>1. Floor(m2, j) = Floor(m, j) /\ Outside(m2, j) = Outside(m, j)
    <3>1. j # 0 => j \in 1..k
      BY <1>2
    <3> QED BY <1>4, <3>1 DEF Floor, Outside
  <2>2. j # Tip(m2) /\ Tip(m2) = k + 1
    BY <1>2, <1>4 DEF Tip
  <2>3. CASE j = k
    <3>1. m2.frames[j + 1] = f /\ j = Tip(m)
      BY <1>1, <1>4, <2>3
    <3>2. f.ret = m.ip + 1 /\ f.base = Len(m.stack) - 1 /\ f.depth = Len(m.handlers)
      BY <1>1
    <3>3. Place(m2, j) = f.ret - 1 /\ Height(m2, j) = f.base + 1 /\ Reach(m2, j) = f.depth
      BY <2>2, <3>1 DEF Place, Height, Reach
    <3>4. Place(m, j) = m.ip /\ Height(m, j) = Len(m.stack) /\ Reach(m, j) = Len(m.handlers)
      BY <3>1 DEF Place, Height, Reach
    <3>5. f.ret - 1 = m.ip /\ f.base + 1 = Len(m.stack)
      BY <1>2, <3>2
    <3> QED BY <2>1, <3>2, <3>3, <3>4, <3>5
  <2>4. CASE j # k
    <3>1. j + 1 \in 1..k /\ j # Tip(m)
      BY <1>1, <1>2, <2>4
    <3>2. m2.frames[j + 1] = m.frames[j + 1]
      BY <1>4, <3>1
    <3> QED BY <2>1, <2>2, <3>1, <3>2 DEF Place, Height, Reach
  <2> QED BY <2>3, <2>4
<1> QED BY <1>2, <1>3, <1>4, <1>5 DEF Tip

LEMMA EntersRuns ==
  ASSUME NEW c, NEW A, NEW m, Whole(c, A), Running(c, A, m), NEW m2, NEW f, NEW k, Enters(A, m, m2, f, k),
         k < FramesMax, c[m.ip].op = "CALL", m2.ip = c[m.ip].n
  PROVE  Running(c, A, m2)
<1>1. PICK s, b, o, n : s = A[m.ip] /\ b = Floor(m, k) /\ o = Outside(m, k) /\ n = Len(m.stack)
  OBVIOUS
<1>2. k = Tip(m) /\ m2.stack = m.stack /\ m2.handlers = m.handlers
  BY DEF Enters
<1>3. /\ k \in Nat /\ k \in 0..Tip(m) /\ b \in Nat /\ o \in Nat /\ m.ip \in 1..Len(c) /\ s \in Shape
      /\ m.stack \in Seq(Value) /\ m.handlers \in Seq(Handler)
      /\ Tops(c, A, m.stack, m.handlers, k, b, o, s)
      /\ Lands(c, A, m.ip, Len(c)) /\ Legal(c[m.ip], s)
  BY <1>1, <1>2, TipStands
<1>4. s.arg /\ s.temps > 0
  BY <1>3 DEF Legal
<1>5. n > 0 /\ m.stack[n] = <<Param, k + 1>>
  BY <1>1, <1>2, <1>4 DEF Running, Passes
<1>6. m2.ip \in 1..Len(c) /\ A[m2.ip] = EntryShape
  BY <1>3 DEF Lands
<1>7. /\ f \in Frame /\ m2.frames \in Seq(Frame) /\ Tip(m2) = k + 1
      /\ m2.frames[k + 1] = f /\ \A j \in 1..k : m2.frames[j] = m.frames[j]
      /\ \A j \in 0..k : /\ Floor(m2, j) = Floor(m, j) /\ Outside(m2, j) = Outside(m, j)
                         /\ Place(m2, j) = Place(m, j) /\ Height(m2, j) = Height(m, j) /\ Reach(m2, j) = Reach(m, j)
  BY <1>1, <1>5, EnterFrames
<1>8. f.ret = m.ip + 1 /\ f.base = n - 1 /\ f.depth = Len(m.handlers)
  BY <1>1 DEF Enters
<1>9. n \in Nat /\ Len(m.handlers) \in Nat /\ b <= n - 1 /\ o <= Len(m.handlers)
  <2>1. PICK x, y, t, l : x = Len(s.vars) /\ y = Len(s.tries) /\ t = s.temps /\ l = Len(m.handlers)
    OBVIOUS
  <2>2. /\ x \in Nat /\ y \in Nat /\ t \in Nat /\ t > 0 /\ n \in Nat /\ l \in Nat /\ b \in Nat /\ o \in Nat
        /\ b + x + t <= n /\ l = o + y
    <3>1. x \in Nat /\ y \in Nat /\ t \in Nat /\ n \in Nat /\ l \in Nat
      BY SMTT(20), <1>1, <1>3, <2>1 DEF Shape
    <3>2. b + x + t <= n /\ l = o + y
      BY <1>1, <1>3, <2>1 DEF Tops
    <3> QED BY <1>3, <1>4, <2>1, <3>1, <3>2
  <2>3. b <= n - 1 /\ o <= l
    BY ONLY <2>2
  <2> QED BY <2>1, <2>2, <2>3
<1>10. Sized(m2)
  <2>1. m.stack \in Seq(Value) /\ m.handlers \in Seq(Handler) /\ Len(m.stack) <= StackMax /\ Len(m.handlers) <= HandlersMax
    BY DEF Running, Sized
  <2>2. k + 1 <= FramesMax
    BY <1>3, ControlAssumption
  <2> QED BY <1>2, <1>7, <2>1, <2>2 DEF Sized
<1>11. ASSUME NEW j \in 0..(k + 1)
       PROVE  Place(m2, j) \in 1..Len(c) /\ Standing(c, A, m2, j, A[Place(m2, j)])
  <2>1. CASE j = k + 1
    <3>1. Place(m2, j) = m2.ip /\ Height(m2, j) = n /\ Reach(m2, j) = Len(m.handlers)
      BY <1>1, <1>2, <1>7, <2>1 DEF Place, Height, Reach
    <3>2. j # 0 /\ j > 0
      BY <1>3, <2>1
    <3>3. Floor(m2, j) = n - 1 /\ Outside(m2, j) = Len(m.handlers)
      BY <1>7, <1>8, <2>1, <3>2 DEF Floor, Outside
    <3>4. PICK e : e = EntryShape
      OBVIOUS
    <3>5. e.func = TRUE /\ e.vars = <<Param>> /\ Len(e.vars) = 1 /\ e.vars[1] = Param /\ e.temps = 0 /\ e.tries = <<>> /\ Len(e.tries) = 0
      BY <3>4 DEF EntryShape, Ctx
    <3>6. \A i \in 1..Len(e.vars) : m2.stack[Floor(m2, j) + i] = <<e.vars[i], j>>
      <4>1. ASSUME NEW i \in 1..Len(e.vars) PROVE m2.stack[Floor(m2, j) + i] = <<e.vars[i], j>>
        <5>1. i = 1
          BY <3>5
        <5>2. Floor(m2, j) + i = n
          BY <1>9, <3>3, <5>1
        <5> QED BY <1>2, <1>5, <2>1, <3>5, <5>1, <5>2
      <4> QED BY <4>1
    <3>7. Floor(m2, j) + Len(e.vars) + e.temps <= Height(m2, j) /\ Reach(m2, j) = Outside(m2, j) + Len(e.tries)
      BY <1>9, <3>1, <3>3, <3>5
    <3>8. \A i \in 1..Len(e.tries) : FALSE
      BY <3>5
    <3>9. Standing(c, A, m2, j, e)
      BY <3>2, <3>5, <3>6, <3>7, <3>8 DEF Standing
    <3> QED BY <1>6, <3>1, <3>4, <3>9
  <2>2. CASE j # k + 1
    <3>1. j \in 0..k /\ j \in 0..Tip(m)
      BY <1>2, <1>3, <2>2
    <3>2. PICK p, s1 : p = Place(m, j) /\ s1 = A[p]
      OBVIOUS
    <3>3. p \in 1..Len(c) /\ Standing(c, A, m, j, s1)
      BY <3>1, <3>2, RunningFacts
    <3>4. /\ Floor(m2, j) = Floor(m, j) /\ Outside(m2, j) = Outside(m, j)
          /\ Place(m2, j) = p /\ Height(m2, j) = Height(m, j) /\ Reach(m2, j) = Reach(m, j)
      BY <1>7, <3>1, <3>2
    <3>5. Standing(c, A, m2, j, s1)
      BY <1>2, <3>3, <3>4 DEF Standing
    <3> QED BY <3>2, <3>3, <3>4, <3>5
  <2> QED BY <2>1, <2>2
<1>12. \A j \in 1..(k + 1) : j = k + 1 \/ j \in 1..k
  BY <1>3
<1>13. \A j \in 1..k : j \in 1..Tip(m)
  BY <1>2
<1>14. \A j \in 1..(k + 1) : c[m2.frames[j].ret - 1].op = "CALL"
  <2>1. ASSUME NEW j \in 1..(k + 1) PROVE c[m2.frames[j].ret - 1].op = "CALL"
    <3>1. CASE j = k + 1
      <4>1. f.ret - 1 = m.ip
        BY <1>3, <1>8
      <4> QED BY <1>7, <3>1, <4>1
    <3>2. CASE j \in 1..k
      BY <1>7, <1>13, <3>2 DEF Running
    <3> QED BY <1>12, <3>1, <3>2
  <2> QED BY <2>1
<1>15. ASSUME NEW i \in 1..(k + 1), NEW j \in 1..(k + 1), i <= j
       PROVE  m2.frames[i].base <= m2.frames[j].base /\ m2.frames[i].depth <= m2.frames[j].depth
  <2>1. CASE j \in 1..k
    <3>1. i \in 1..k
      BY <1>3, <1>15, <2>1
    <3>2. m.frames[i].base <= m.frames[j].base /\ m.frames[i].depth <= m.frames[j].depth
      BY <1>13, <1>15, <2>1, <3>1 DEF Running
    <3> QED BY <1>7, <2>1, <3>1, <3>2
  <2>2. CASE j = k + 1 /\ i = k + 1
    BY <1>7, <1>8, <1>9, <2>2
  <2>3. CASE j = k + 1 /\ i \in 1..k
    <3>1. PICK x, y, l : x = Floor(m, i) /\ y = Outside(m, i) /\ l = Len(m.handlers)
      OBVIOUS
    <3>2. i \in 0..Tip(m) /\ i <= k /\ i # 0
      BY <1>2, <1>3, <2>3
    <3>3. x \in Nat /\ y \in Nat /\ x <= b /\ y <= o
      BY <1>1, <1>2, <1>3, <3>1, <3>2, Layers, RunningFacts
    <3>4. x = m.frames[i].base /\ y = m.frames[i].depth
      BY <3>1, <3>2 DEF Floor, Outside
    <3>5. x <= n - 1 /\ y <= l
      BY <1>3, <1>9, <3>1, <3>3
    <3> QED BY <1>7, <1>8, <2>3, <3>1, <3>4, <3>5
  <2> QED BY <1>12, <2>1, <2>2, <2>3
<1>16. ASSUME NEW i \in 1..Len(m2.handlers), NEW j, j = m2.handlers[i].fp
       PROVE  j \in 0..(k + 1) /\ i \in (Outside(m2, j) + 1)..Reach(m2, j)
  <2>1. j \in 0..Tip(m) /\ i \in (Outside(m, j) + 1)..Reach(m, j)
    BY <1>2, <1>16 DEF Running
  <2>2. j \in 0..k /\ j \in 0..(k + 1)
    BY <1>2, <1>3, <2>1
  <2> QED BY <1>7, <2>1, <2>2
<1>17. Passes(A, m2)
  BY <1>6 DEF Passes, EntryShape, Ctx
<1> QED BY <1>7, <1>10, <1>11, <1>14, <1>15, <1>16, <1>17 DEF Running

LEMMA CallingRuns ==
  ASSUME NEW A, NEW m, NEW i, NEW s, NEW k, NEW b, NEW o, Ready(A, m, i, s, k, b, o), Calling
  PROVE  Stepped(A)
<1>1. Op = i /\ Fp = k /\ k \in Nat /\ Sp = Len(stack)
  BY ReadyNums DEF Sp
<1>2. i.op = "CALL"
  BY <1>1 DEF Calling, At
<1>3. CASE Fp >= FramesMax
  BY <1>3 DEF Calling, Fail, Stop, Stepped, Stops
<1>4. CASE ~(Fp >= FramesMax)
  <2>1. PICK c, m2, f : c = code /\ m2 = Machine' /\ f = [ret |-> ip + 1, base |-> Len(stack) - 1, depth |-> Len(handlers)]
    OBVIOUS
  <2>2. frames' = Append(frames, f) /\ ip' = i.n /\ phase' = phase /\ stack' = stack /\ handlers' = handlers
    BY <1>1, <1>4, <2>1 DEF Calling, Go
  <2>3. m2.ip = i.n /\ m2.stack = stack /\ m2.frames = Append(frames, f) /\ m2.handlers = handlers
    BY <2>1, <2>2 DEF Machine
  <2>4. /\ m.ip = ip /\ m.stack = stack /\ m.frames = frames /\ m.handlers = handlers
        /\ Whole(c, A) /\ Running(c, A, m) /\ k = Tip(m) /\ i = c[ip]
    BY <2>1 DEF Ready, Op
  <2>5. Enters(A, m, m2, f, k)
    BY <2>1, <2>3, <2>4 DEF Enters
  <2>6. k < FramesMax
    <3>1. FramesMax \in Nat
      BY ControlAssumption
    <3> QED BY <1>1, <1>4, <3>1
  <2>7. c[m.ip].op = "CALL" /\ m2.ip = c[m.ip].n
    BY <1>2, <2>3, <2>4
  <2>8. Running(c, A, m2)
    BY <2>4, <2>5, <2>6, <2>7, EntersRuns
  <2> QED BY <2>1, <2>2, <2>8 DEF Stepped, Stays
<1> QED BY <1>3, <1>4

\* OP_HALT is reached at top level only, with nothing left.
LEMMA HaltRuns ==
  ASSUME NEW A, NEW m, NEW i, NEW s, NEW k, NEW b, NEW o, Ready(A, m, i, s, k, b, o), Halt
  PROVE  phase' = "halted" /\ stack' = <<>> /\ frames' = <<>> /\ handlers' = <<>>
<1>1. Op = i /\ Fp = k /\ Depth = o /\ k \in Nat /\ o \in Nat /\ Len(handlers) = o + Len(s.tries)
  BY ReadyNums
<1>2. /\ Legal(i, s) /\ Tops(code, A, stack, handlers, k, b, o, s)
      /\ stack \in Seq(Value) /\ frames \in Seq(Frame) /\ handlers \in Seq(Handler)
  BY DEF Ready
<1>3. i.op = "HALT"
  BY <1>1 DEF Halt, At
<1>4. ~s.func /\ s.temps = 0 /\ s.tries = <<>>
  BY <1>2, <1>3 DEF Legal
<1>5. k = 0
  BY <1>1, <1>2, <1>4 DEF Tops
<1>6. Len(stack) = 0 /\ Len(frames) = 0 /\ Len(handlers) = 0
  BY <1>1, <1>2, <1>4, <1>5 DEF Tops, Fp, Depth
<1>7. stack = <<>> /\ frames = <<>> /\ handlers = <<>>
  BY <1>2, <1>6
<1> QED BY <1>7 DEF Halt, vmVars

LEMMA InstructionRuns ==
  ASSUME NEW A, NEW m, NEW i, NEW s, NEW k, NEW b, NEW o, Ready(A, m, i, s, k, b, o), Execute, ~Halt
  PROVE  Stepped(A)
<1>1. CASE Push
  BY <1>1, PushRuns
<1>2. CASE Pop
  BY <1>2, PopRuns
<1>3. CASE Binary
  BY <1>3, BinaryRuns
<1>4. CASE GetLocal
  BY <1>4, GetLocalRuns
<1>5. CASE SetLocal
  BY <1>5, SetLocalRuns
<1>6. CASE DefineLocal
  BY <1>6, DefineLocalRuns
<1>7. CASE TryBegin
  BY <1>7, TryBeginRuns
<1>8. CASE TryEnd \/ Leaving
  BY <1>8, LeavingRuns
<1>9. CASE Throwing
  BY <1>9, ThrowingRuns
<1>10. CASE Jumping \/ JumpIfFalse
  BY <1>10, JumpingRuns
<1>11. CASE Calling
  BY <1>11, CallingRuns
<1>12. CASE Returning
  BY <1>12, ReturningRuns
<1> QED BY <1>1, <1>2, <1>3, <1>4, <1>5, <1>6, <1>7, <1>8, <1>9, <1>10, <1>11, <1>12 DEF Execute

\* An instruction needs the machine to run, and leaves alone what the
\* compiler made.
LEMMA ExecuteRuns ==
  ASSUME Execute
  PROVE  phase = "run" /\ UNCHANGED <<code, open, locals, tryDepth, entry, pending, stmts>>
<1>1. CASE Push \/ Pop \/ Binary \/ GetLocal \/ SetLocal
  BY <1>1 DEF Push, Pop, Binary, GetLocal, SetLocal, At
<1>2. CASE DefineLocal \/ TryBegin \/ TryEnd \/ Leaving \/ Throwing
  BY <1>2 DEF DefineLocal, TryBegin, TryEnd, Leaving, Throwing, At
<1>3. CASE Jumping \/ JumpIfFalse \/ Calling \/ Returning \/ Halt
  BY <1>3 DEF Jumping, JumpIfFalse, Calling, Returning, Halt, At
<1> QED BY <1>1, <1>2, <1>3 DEF Execute

\* The machine's steps keep the invariant.
LEMMA ExecuteKeeps ==
  ASSUME ControlInv, Execute
  PROVE  ControlInv'
<1>1. phase = "run" /\ UNCHANGED <<code, open, locals, tryDepth, entry, pending, stmts>>
  BY ExecuteRuns
<1>2. Kept /\ \E A : MachineInv(A)
  BY <1>1 DEF ControlInv
<1>3. PICK A : MachineInv(A)
  BY <1>2
<1>4. PICK m, i, s, k, b, o : m = Machine /\ i = Op /\ s = A[ip] /\ k = Fp /\ b = Base /\ o = Depth
  OBVIOUS
<1>5. Ready(A, m, i, s, k, b, o)
  BY <1>3, <1>4, ReadyNow
<1>6. /\ tryDepth' \in Nat /\ entry' \in Nat /\ stmts' \in Nat /\ locals' \in Seq(Nat) /\ Len(locals') <= LocalsMax
  BY <1>1, <1>2 DEF Kept
<1>7. StackMax \in Nat /\ FramesMax \in Nat /\ HandlersMax \in Nat /\ 0 <= StackMax /\ 0 <= FramesMax /\ 0 <= HandlersMax
  <2>1. StackMax \in Nat /\ FramesMax \in Nat /\ HandlersMax \in Nat
    BY ControlAssumption
  <2>2. 0 <= StackMax /\ 0 <= FramesMax /\ 0 <= HandlersMax
    BY ONLY <2>1
  <2> QED BY <2>1, <2>2
<1>8. CASE Halt
  <2>1. phase' = "halted" /\ stack' = <<>> /\ frames' = <<>> /\ handlers' = <<>>
    BY <1>5, <1>8, HaltRuns
  <2>2. Sp' <= StackMax /\ Fp' <= FramesMax /\ Len(handlers') <= HandlersMax
    <3>1. Sp' = 0 /\ Fp' = 0 /\ Len(handlers') = 0
      BY <2>1 DEF Sp, Fp
    <3> QED BY <1>7, <3>1
  <2>3. Kept'
    BY <1>6, <2>1 DEF Kept
  <2> QED BY <2>1, <2>2, <2>3 DEF ControlInv, Compiling
<1>9. CASE ~Halt
  <2>1. Stops \/ Stays(A)
    BY <1>5, <1>9, InstructionRuns DEF Stepped
  <2>2. CASE Stops
    <3>1. phase' \in {"uncaught", "overflow"} /\ stack' = <<>> /\ handlers' = <<>> /\ frames' = frames
      BY <2>2 DEF Stops
    <3>2. Fp <= FramesMax
      BY <1>5 DEF Ready, Sized, Fp, Tip
    <3>3. Sp' <= StackMax /\ Fp' <= FramesMax /\ Len(handlers') <= HandlersMax
      <4>1. Sp' = 0 /\ Fp' = Fp /\ Len(handlers') = 0
        BY <3>1 DEF Sp, Fp
      <4> QED BY <1>7, <3>2, <4>1
    <3>4. Kept'
      BY <1>6, <3>1 DEF Kept, Failures
    <3> QED BY <3>1, <3>3, <3>4 DEF ControlInv, Compiling
  <2>3. CASE Stays(A)
    <3>1. phase' = "run"
      BY <1>1, <2>3 DEF Stays
    <3>2. MachineInv(A)'
      <4>1. PICK c, m2 : c = code /\ m2 = Machine'
        OBVIOUS
      <4>2. Whole(c, A) /\ Running(c, A, m2) /\ code' = c
        BY <1>1, <1>3, <2>3, <4>1 DEF MachineInv, Stays
      <4> QED BY <4>1, <4>2 DEF MachineInv
    <3>3. Kept'
      BY <1>6, <3>1 DEF Kept
    <3> QED BY <3>1, <3>2, <3>3 DEF ControlInv, Compiling
  <2> QED BY <2>1, <2>2, <2>3
<1> QED BY <1>8, <1>9

LEMMA SameKeeps ==
  ASSUME ControlInv, UNCHANGED vars
  PROVE  ControlInv'
<1>1. /\ phase' = phase /\ code' = code /\ open' = open /\ locals' = locals /\ tryDepth' = tryDepth
      /\ entry' = entry /\ pending' = pending /\ stmts' = stmts
      /\ ip' = ip /\ stack' = stack /\ frames' = frames /\ handlers' = handlers
  BY DEF vars, compVars, vmVars
<1>2. Kept' /\ (Compiling' => Compiling) /\ Sp' = Sp /\ Fp' = Fp
  <2>1. Kept
    BY DEF ControlInv
  <2>2. Kept'
    BY <1>1, <2>1 DEF Kept
  <2> QED BY <1>1, <2>2 DEF Compiling, Sp, Fp
<1>3. ASSUME NEW A, CompilerInv(A) PROVE CompilerInv(A)'
  BY <1>1, <1>3 DEF CompilerInv, Here, InFunction, vmVars
<1>4. ASSUME NEW A, MachineInv(A) PROVE MachineInv(A)'
  BY <1>1, <1>4 DEF MachineInv, Machine
<1> QED BY <1>1, <1>2, <1>3, <1>4 DEF ControlInv

LEMMA NextKeeps ==
  ASSUME ControlInv, OperandsFit, OperandsFit', "top return" \notin Kinds, [Next]_vars
  PROVE  ControlInv'
<1>1. CASE CompileStep
  BY <1>1, CompileKeeps DEF CompileStep
<1>2. CASE Execute
  BY <1>2, ExecuteKeeps
<1>3. CASE UNCHANGED vars
  BY <1>3, SameKeeps
<1> QED BY <1>1, <1>2, <1>3 DEF Next, Done

LEMMA InitKeeps ==
  ASSUME VmInit
  PROVE  ControlInv
<1>1. /\ phase = "main" /\ code = <<>> /\ open = <<>> /\ locals = <<>>
      /\ tryDepth = 0 /\ entry = 0 /\ pending = {} /\ stmts = MaxMain
      /\ ip = 1 /\ stack = <<>> /\ frames = <<>> /\ handlers = <<>>
  BY DEF VmInit, Init
<1>2. PICK e, A : e = Ctx(<<>>, <<>>, 0, FALSE) /\ A = [p \in Nat |-> e]
  OBVIOUS
<1>3. e \in Shape /\ Len(e.tries) = 0 /\ e.vars = <<>> /\ ~e.func
  BY <1>2 DEF Ctx, Shape
<1>4. A \in [Nat -> Shape] /\ A[1] = e
  BY <1>2, <1>3
<1>5. Len(code) = 0 /\ Here = 1 /\ code \in Seq(Instr) /\ ~InFunction /\ Len(open) = 0
  BY <1>1 DEF Here, InFunction
<1>6. Nests(code, A, e)
  BY <1>3 DEF Nests
<1>7. \A p \in 1..(Len(code) + 1) : A[p] = e
  BY <1>2, <1>5
<1>8. Sound(code, A, HolesIn(open) \cup pending, Here)
  <2>1. PICK h, l : h = HolesIn(open) \cup pending /\ l = Here
    OBVIOUS
  <2>2. \A p \in 1..Len(code) : FALSE
    BY <1>5
  <2>3. Sound(code, A, h, l)
    BY <1>4, <1>5, <1>6, <1>7, <2>2 DEF Sound
  <2> QED BY <2>1, <2>3
<1>9. Stacked(code, A, open, InFunction) /\ Scoped(A, open, locals)
  <2>1. \A p \in 1..Len(open) : FALSE
    BY <1>5
  <2>2. open \in Seq(Constructs)
    BY <1>1
  <2> QED BY <2>1, <2>2 DEF Stacked, Scoped
<1>10. TriesAround(open) = <<>>
  BY <1>1 DEF TriesAround
<1>11. CompilerInv(A)
  <2>1. InFunction = FALSE
    BY <1>1 DEF InFunction
  <2>2. A[Here] = Ctx(TriesAround(open), locals, 0, InFunction)
    BY <1>1, <1>2, <1>4, <1>5, <1>10, <2>1
  <2>3. A[1] = Ctx(<<>>, <<>>, 0, FALSE)
    BY <1>2, <1>4
  <2>4. CallsAt(code, pending)
    BY <1>1 DEF CallsAt
  <2>5. tryDepth = Len(TriesAround(open))
    BY <1>1, <1>10
  <2>6. vmVars = <<1, <<>>, <<>>, <<>>>>
    BY <1>1 DEF vmVars
  <2> QED BY <1>1, <1>8, <1>9, <2>1, <2>2, <2>3, <2>4, <2>5, <2>6 DEF CompilerInv
<1>12. Kept
  <2>1. MaxMain \in Nat /\ LocalsMax \in Nat
    BY CompilerAssumption
  <2>2. 0 <= LocalsMax
    BY ONLY <2>1
  <2>3. Len(locals) = 0 /\ locals \in Seq(Nat)
    BY <1>1
  <2> QED BY <1>1, <2>1, <2>2, <2>3 DEF Kept
<1> QED BY <1>1, <1>11, <1>12 DEF ControlInv

\* The statement about to run, whose context is t, finds the machine in the
\* shape that the compiler gave that context.
LEMMA AtStatement ==
  ASSUME ControlInv, phase = "run"
  PROVE  \E A, s, k, b, o :
            /\ Tops(code, A, stack, handlers, k, b, o, s) /\ s \in Shape
            /\ k = Fp /\ b = Base /\ o = Depth /\ k \in Nat /\ b \in Nat /\ o \in Nat
            /\ handlers \in Seq(Handler) /\ stack \in Seq(Value) /\ frames \in Seq(Frame)
            /\ ip \in 1..Len(code) /\ Legal(Op, s)
            /\ Op.stmt # None => Op.stmt = Marks(s) /\ s.temps = 0
            /\ Op.op = "THROW" => code[ip - 1].stmt = Marks(s)
            /\ Len(stack) <= StackMax /\ Len(frames) <= FramesMax /\ Len(handlers) <= HandlersMax
<1>1. PICK A : MachineInv(A)
  BY DEF ControlInv
<1>2. PICK m, i, s, k, b, o : m = Machine /\ i = Op /\ s = A[ip] /\ k = Fp /\ b = Base /\ o = Depth
  OBVIOUS
<1>3. Ready(A, m, i, s, k, b, o)
  BY <1>1, <1>2, ReadyNow
<1>4. /\ Tops(code, A, stack, handlers, k, b, o, s) /\ s \in Shape
      /\ k = Fp /\ b = Base /\ o = Depth /\ k \in Nat /\ b \in Nat /\ o \in Nat
      /\ handlers \in Seq(Handler) /\ stack \in Seq(Value) /\ frames \in Seq(Frame)
      /\ ip \in 1..Len(code) /\ Legal(Op, s)
  BY <1>3 DEF Ready
<1>5. Works(code, A, ip) /\ Op = code[ip] /\ s = A[ip]
  BY <1>2, <1>3 DEF Ready, Op
<1>6. Op.stmt # None => Op.stmt = Marks(s) /\ s.temps = 0
  BY <1>5 DEF Works
<1>7. Op.op = "THROW" => code[ip - 1].stmt = Marks(s)
  BY <1>5 DEF Works
<1>8. Len(stack) <= StackMax /\ Len(frames) <= FramesMax /\ Len(handlers) <= HandlersMax
  BY <1>3 DEF Ready, Sized, Tip
<1> QED BY <1>4, <1>6, <1>7, <1>8

LEMMA TypeFollows ==
  ASSUME ControlInv
  PROVE  TypeOK
<1>1. Kept
  BY DEF ControlInv
<1>2. phase \in {"main", "func", "run", "halted", "rejected"} \cup Failures
  BY <1>1 DEF Kept
<1>3. phase = "run" => ip \in 1..Len(code)
  BY AtStatement
<1>4. Sp <= StackMax /\ Fp <= FramesMax /\ Len(handlers) <= HandlersMax
  <2>1. CASE phase = "run"
    BY <2>1, AtStatement DEF Sp, Fp
  <2>2. CASE phase \in {"main", "func"}
    <3>1. PICK A : CompilerInv(A)
      BY <2>2 DEF ControlInv, Compiling
    <3>2. Sp = 0 /\ Fp = 0 /\ Len(handlers) = 0
      BY <3>1 DEF CompilerInv, vmVars, Sp, Fp
    <3>3. StackMax \in Nat /\ FramesMax \in Nat /\ HandlersMax \in Nat
      BY ControlAssumption
    <3>4. 0 <= StackMax /\ 0 <= FramesMax /\ 0 <= HandlersMax
      BY ONLY <3>3
    <3> QED BY <3>2, <3>4
  <2>3. CASE phase \notin {"main", "func", "run"}
    BY <2>3 DEF ControlInv
  <2> QED BY <2>1, <2>2, <2>3
<1> QED BY <1>1, <1>2, <1>3, <1>4 DEF TypeOK, Kept

LEMMA HandlersFollow ==
  ASSUME ControlInv
  PROVE  HandlersMatchTries
<1>1. SUFFICES ASSUME phase = "run", Op.stmt # None, NEW t, t = Op.stmt.tries,
                      NEW active, active = SubSeq(handlers, Depth + 1, Len(handlers))
               PROVE  /\ Len(active) = Len(t)
                      /\ \A j \in 1..Len(t) : /\ active[j].catch = t[j] + 1 + code[t[j]].n
                                              /\ active[j].fp = Fp
  BY DEF HandlersMatchTries
<1>2. PICK A, s, k, b, o :
         /\ Tops(code, A, stack, handlers, k, b, o, s) /\ s \in Shape
         /\ k = Fp /\ b = Base /\ o = Depth /\ k \in Nat /\ b \in Nat /\ o \in Nat
         /\ handlers \in Seq(Handler)
         /\ Op.stmt # None => Op.stmt = Marks(s) /\ s.temps = 0
  BY <1>1, AtStatement
<1>3. t = s.tries
  BY <1>1, <1>2 DEF Marks
<1>4. PICK n, l : n = Len(t) /\ l = Len(handlers)
  OBVIOUS
<1>5. n \in Nat /\ l \in Nat /\ l = o + n
  BY <1>2, <1>3, <1>4 DEF Tops, Shape
<1>6. Len(active) = n /\ \A j \in 1..n : active[j] = handlers[o + j]
  <2>1. PICK a : a = o + 1
    OBVIOUS
  <2>2. a \in 1..(l + 1) /\ l - a + 1 = n /\ \A j \in 1..n : j \in 1..(l - a + 1) /\ a + j - 1 = o + j
    BY ONLY <1>2, <1>5, <2>1
  <2>3. active = SubSeq(handlers, a, l)
    BY <1>1, <1>2, <1>4, <2>1
  <2>4. Len(active) = l - a + 1 /\ \A j \in 1..(l - a + 1) : active[j] = handlers[a + j - 1]
    BY <1>2, <1>4, <1>5, <2>2, <2>3
  <2> QED BY <2>2, <2>4
<1>7. \A j \in 1..n : Guards(code, A, handlers[o + j], k, t[j], b, Len(stack) - s.temps)
  BY <1>2, <1>3, <1>4 DEF Tops
<1> QED BY SMTT(20), <1>2, <1>4, <1>6, <1>7 DEF Guards

LEMMA LocalsFollow ==
  ASSUME ControlInv
  PROVE  LocalsHoldTheirValue
<1>1. SUFFICES ASSUME phase = "run", Op.stmt # None, NEW vs, vs = Op.stmt.vars, NEW j \in 1..Len(vs)
               PROVE  Base + j <= Sp /\ stack[Base + j] = <<vs[j], Fp>>
  BY DEF LocalsHoldTheirValue
<1>2. PICK A, s, k, b, o :
         /\ Tops(code, A, stack, handlers, k, b, o, s) /\ s \in Shape
         /\ k = Fp /\ b = Base /\ o = Depth /\ k \in Nat /\ b \in Nat /\ o \in Nat
         /\ stack \in Seq(Value)
         /\ Op.stmt # None => Op.stmt = Marks(s) /\ s.temps = 0
  BY <1>1, AtStatement
<1>3. vs = s.vars /\ s.temps = 0
  BY <1>1, <1>2 DEF Marks
<1>4. stack[b + j] = <<vs[j], k>>
  BY <1>2, <1>3 DEF Tops
<1>5. b + j <= Sp
  <2>1. PICK n, h : n = Len(vs) /\ h = Len(stack)
    OBVIOUS
  <2>2. n \in Nat /\ h \in Nat /\ b + n + 0 <= h
    BY <1>2, <1>3, <2>1 DEF Tops, Shape
  <2>3. b \in Nat /\ j \in 1..n
    BY <1>2, <2>1
  <2>4. b + j <= h
    BY ONLY <2>2, <2>3
  <2> QED BY <2>1, <2>4 DEF Sp
<1> QED BY <1>2, <1>4, <1>5

LEMMA BalanceFollows ==
  ASSUME ControlInv
  PROVE  TopLevelBalanced
<1>1. phase = "halted" => stack = <<>> /\ frames = <<>> /\ handlers = <<>>
  BY DEF ControlInv
<1>2. ASSUME phase = "run", Op.stmt # None, Fp = 0 PROVE stack = <<>>
  <2>1. PICK A, s, k, b, o :
           /\ Tops(code, A, stack, handlers, k, b, o, s)
           /\ k = Fp /\ stack \in Seq(Value)
           /\ Op.stmt # None => Op.stmt = Marks(s) /\ s.temps = 0
    BY <1>2, AtStatement
  <2>2. Len(stack) = 0
    BY <1>2, <2>1 DEF Tops
  <2> QED BY <2>1, <2>2
<1> QED BY <1>1, <1>2 DEF TopLevelBalanced

\* A throw at top level outside every try block.
LEMMA UncaughtFollows ==
  ASSUME ControlInv, Next, phase = "run", Op.op = "THROW", Fp = 0, code[ip - 1].stmt.tries = <<>>
  PROVE  phase' = "uncaught"
<1>1. PICK A, s, k, b, o :
         /\ Tops(code, A, stack, handlers, k, b, o, s) /\ s \in Shape
         /\ k = Fp /\ b = Base /\ o = Depth /\ k \in Nat /\ b \in Nat /\ o \in Nat
         /\ handlers \in Seq(Handler) /\ stack \in Seq(Value) /\ Legal(Op, s)
         /\ Op.op = "THROW" => code[ip - 1].stmt = Marks(s)
  BY AtStatement
<1>2. s.tries = <<>>
  BY <1>1 DEF Marks
<1>3. o = 0
  BY <1>1 DEF Depth
<1>4. handlers = <<>>
  <2>1. Len(handlers) = 0
    BY <1>1, <1>2, <1>3 DEF Tops
  <2> QED BY <1>1, <2>1
<1>5. Sp # 0
  <2>1. PICK n, t, h : n = Len(s.vars) /\ t = s.temps /\ h = Len(stack)
    OBVIOUS
  <2>2. n \in Nat /\ t \in Nat /\ h \in Nat /\ t > 0 /\ b + n + t <= h
    <3>1. n \in Nat /\ t \in Nat /\ h \in Nat
      BY <1>1, <2>1 DEF Shape
    <3>2. t > 0 /\ b + n + t <= h
      BY <1>1, <2>1 DEF Tops, Legal
    <3> QED BY <3>1, <3>2
  <2>3. b \in Nat
    BY <1>1
  <2>4. h # 0
    BY ONLY <2>2, <2>3
  <2> QED BY <2>1, <2>4 DEF Sp
<1>6. Execute
  <2>1. ~CompileStep
    BY StaysOrRejected DEF CompileStep
  <2>2. ~Done
    BY DEF Done, Failures
  <2> QED BY <2>1, <2>2 DEF Next
<1>7. Throwing
  <2>1. ~Push /\ ~Pop /\ ~Binary /\ ~GetLocal /\ ~SetLocal
    BY DEF Push, Pop, Binary, GetLocal, SetLocal, At
  <2>2. ~DefineLocal /\ ~TryBegin /\ ~TryEnd /\ ~Leaving
    BY DEF DefineLocal, TryBegin, TryEnd, Leaving, At
  <2>3. ~Jumping /\ ~JumpIfFalse /\ ~Calling /\ ~Returning /\ ~Halt
    BY DEF Jumping, JumpIfFalse, Calling, Returning, Halt, At
  <2> QED BY <1>6, <2>1, <2>2, <2>3 DEF Execute
<1> QED BY <1>4, <1>5, <1>7 DEF Throwing, Fail, Stop
-----------------------------------------------------------------------------
\* Every state of the compiler and of the machine has a typing.  The operands
\* must be wide enough for the program, and it must have no return outside
\* functions: the code promises nothing about other programs.
THEOREM ControlAlways ==
  ASSUME "top return" \notin Kinds
  PROVE  Spec /\ []OperandsFit => []ControlInv
<1>1. VmInit => ControlInv
  BY InitKeeps
<1>2. ControlInv /\ OperandsFit /\ OperandsFit' /\ [Next]_vars => ControlInv'
  BY NextKeeps
<1> QED BY <1>1, <1>2, PTL DEF Spec

\* The operand stack, the frames and the handlers never pass their limits,
\* and the instruction pointer stays in the code (run_vm).
THEOREM TypeAlways ==
  ASSUME "top return" \notin Kinds
  PROVE  Spec /\ []OperandsFit => []TypeOK
<1>1. ControlInv => TypeOK
  BY TypeFollows
<1> QED BY <1>1, ControlAlways, PTL

\* Whatever way the program came to a statement (break, continue, return,
\* throw, or the end of a block), the handlers of the activation are those of
\* the try blocks around it.
THEOREM HandlersMatchAlways ==
  ASSUME "top return" \notin Kinds
  PROVE  Spec /\ []OperandsFit => []HandlersMatchTries
<1>1. ControlInv => HandlersMatchTries
  BY HandlersFollow
<1> QED BY <1>1, ControlAlways, PTL

\* Wherever a local variable can be named, its slot holds the value last
\* stored for it in this activation.
THEOREM LocalsAlways ==
  ASSUME "top return" \notin Kinds
  PROVE  Spec /\ []OperandsFit => []LocalsHoldTheirValue
<1>1. ControlInv => LocalsHoldTheirValue
  BY LocalsFollow
<1> QED BY <1>1, ControlAlways, PTL

\* Nothing is left on the stack between two statements of the top level, and
\* nothing at all when the program ends.
THEOREM BalancedAlways ==
  ASSUME "top return" \notin Kinds
  PROVE  Spec /\ []OperandsFit => []TopLevelBalanced
<1>1. ControlInv => TopLevelBalanced
  BY BalanceFollows
<1> QED BY <1>1, ControlAlways, PTL

\* No code of the compiler makes the machine report corrupted bytecode.
THEOREM NeverCorruptedAlways ==
  ASSUME "top return" \notin Kinds
  PROVE  Spec /\ []OperandsFit => []NeverCorrupted
<1>1. ControlInv => NeverCorrupted
  <2>1. "corrupted" \notin {"main", "func", "run", "halted", "rejected"} \cup (Failures \ {"corrupted"})
    OBVIOUS
  <2> QED BY <2>1 DEF ControlInv, Kept, NeverCorrupted
<1> QED BY <1>1, ControlAlways, PTL

\* A throw at top level outside every try block ends the run, also when try
\* blocks were left by break or continue before.
THEOREM UncaughtAlways ==
  ASSUME "top return" \notin Kinds
  PROVE  Spec /\ []OperandsFit => UncaughtThrowFails
<1>1. ControlInv /\ [Next]_vars =>
          [phase = "run" /\ Op.op = "THROW" /\ Fp = 0 /\ code[ip - 1].stmt.tries = <<>> => phase' = "uncaught"]_vars
  BY UncaughtFollows
<1> QED BY <1>1, ControlAlways, PTL DEF Spec, UncaughtThrowFails
=============================================================================
