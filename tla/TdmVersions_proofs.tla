------------------------ MODULE TdmVersions_proofs ------------------------
(***************************************************************************)
(* Theorems about the versions of the simplification, for every size of    *)
(* puzzle, every set of instances and every batch: the trials on a device  *)
(* (TdmGpu), the reference version (TdmSlow), with TdmCpu_proofs all       *)
(* versions side by side (TdmVersions), and the baseline's device code     *)
(* (TdmGpuBase), for every width of an int: the searches from pivots find  *)
(* the components of a face whichever threads become pivots, and the       *)
(* number of rounds is bounded.                                            *)
(***************************************************************************)
EXTENDS TdmCpu_proofs, TdmVersions, TdmGpuBase

-----------------------------------------------------------------------------
(* Recursion over an initial segment of the numbers.                       *)

\* g starts with a, and each of its values is made from the one before it.
Iterates(g, n, a, step) ==
  g = [i \in 0 .. n |-> IF i = 0 THEN a ELSE step[<<g[i - 1], i - 1>>]]

LEMMA IteratesFacts ==
  ASSUME NEW n \in Nat, NEW a, NEW step, NEW g, Iterates(g, n, a, step)
  PROVE  /\ g[0] = a
         /\ \A i \in 0 .. n - 1 : g[i + 1] = step[<<g[i], i>>]
<1>1. ASSUME NEW j \in 0 .. n
      PROVE  g[j] = IF j = 0 THEN a ELSE step[<<g[j - 1], j - 1>>]
  <2>1. [i \in 0 .. n |-> IF i = 0 THEN a ELSE step[<<g[i - 1], i - 1>>]][j]
          = IF j = 0 THEN a ELSE step[<<g[j - 1], j - 1>>]
    OBVIOUS
  <2> QED  BY <2>1 DEF Iterates
<1>2. g[0] = a
  <2>1. 0 \in 0 .. n
    OBVIOUS
  <2> QED  BY <2>1, <1>1
<1>3. ASSUME NEW i \in 0 .. n - 1
      PROVE  g[i + 1] = step[<<g[i], i>>]
  <2> DEFINE j == i + 1
  <2>1. j \in 0 .. n /\ j # 0 /\ j - 1 = i
    OBVIOUS
  <2> HIDE DEF j
  <2>2. g[j] = step[<<g[i], i>>]
    BY <2>1, <1>1
  <2> QED  BY <2>2 DEF j
<1> QED  BY <1>2, <1>3

LEMMA IteratesExist ==
  ASSUME NEW n \in Nat, NEW D, NEW a \in D, NEW step \in [D \X Nat -> D]
  PROVE  \E g \in [0 .. n -> D] : Iterates(g, n, a, step)
<1> DEFINE X == {m \in Nat : \E g \in [0 .. m -> D] : Iterates(g, m, a, step)}
<1>1. 0 \in X
  <2> DEFINE g == [i \in 0 .. 0 |-> a]
  <2>1. g \in [0 .. 0 -> D] /\ Iterates(g, 0, a, step)
    BY DEF Iterates
  <2> HIDE DEF g
  <2> QED  BY <2>1
<1>2. ASSUME NEW m \in Nat, m \in X
      PROVE  m + 1 \in X
  <2>1. PICK g \in [0 .. m -> D] : Iterates(g, m, a, step)
    BY <1>2
  <2> DEFINE h == [i \in 0 .. m + 1 |-> IF i \in 0 .. m THEN g[i] ELSE step[<<g[m], m>>]]
  <2>2. h \in [0 .. m + 1 -> D]
    OBVIOUS
  <2>3. /\ \A i \in 0 .. m : h[i] = g[i]
        /\ h[m + 1] = step[<<g[m], m>>]
    OBVIOUS
  <2>4. ASSUME NEW i \in 0 .. m + 1
        PROVE  h[i] = IF i = 0 THEN a ELSE step[<<h[i - 1], i - 1>>]
    <3> HIDE DEF h
    <3>1. CASE i = 0
      BY <3>1, <2>1, <2>3, IteratesFacts
    <3>2. CASE i = m + 1
      <4>1. i # 0 /\ i - 1 = m /\ m \in 0 .. m
        BY <3>2
      <4> QED  BY <3>2, <4>1, <2>3
    <3>3. CASE i # 0 /\ i # m + 1
      <4>1. i \in 0 .. m /\ i - 1 \in 0 .. m /\ i - 1 \in 0 .. m - 1 /\ (i - 1) + 1 = i
        BY <3>3
      <4>2. g[(i - 1) + 1] = step[<<g[i - 1], i - 1>>]
        BY <4>1, <2>1, IteratesFacts
      <4> QED  BY <3>3, <4>1, <4>2, <2>3
    <3> QED  BY <3>1, <3>2, <3>3
  <2>5. Iterates(h, m + 1, a, step)
    <3>1. h = [i \in 0 .. m + 1 |-> h[i]]
      BY <2>2
    <3> HIDE DEF h
    <3> QED  BY <3>1, <2>4 DEF Iterates
  <2> HIDE DEF h
  <2> QED  BY <2>2, <2>5
<1>3. n \in X
  <2> HIDE DEF X
  <2> QED  BY <1>1, <1>2, SetInduction
<1> QED  BY <1>3

\* How far the function goes does not matter to its values.
LEMMA IteratesAgree ==
  ASSUME NEW a, NEW step, NEW m \in Nat, NEW n \in Nat, NEW g, NEW h,
         Iterates(g, m, a, step), Iterates(h, n, a, step),
         NEW i \in Nat, i <= m, i <= n
  PROVE  g[i] = h[i]
<1> DEFINE X == {j \in Nat : j <= m /\ j <= n => g[j] = h[j]}
<1>1. 0 \in X
  BY IteratesFacts
<1>2. ASSUME NEW j \in Nat, j \in X
      PROVE  j + 1 \in X
  <2> SUFFICES ASSUME j + 1 <= m, j + 1 <= n
               PROVE  g[j + 1] = h[j + 1]
    OBVIOUS
  <2>1. j \in 0 .. m - 1 /\ j \in 0 .. n - 1 /\ g[j] = h[j]
    BY <1>2
  <2>2. g[j + 1] = step[<<g[j], j>>] /\ h[j + 1] = step[<<h[j], j>>]
    BY <2>1, IteratesFacts
  <2> QED  BY <2>1, <2>2
<1>3. i \in X
  <2> HIDE DEF X
  <2> QED  BY <1>1, <1>2, SetInduction
<1> QED  BY <1>3

-----------------------------------------------------------------------------
(* The faces in turn.                                                      *)

FaceStep == [x \in (SUBSET Cells) \X Nat |-> Keep(x[1], x[2] % 3)]

LEMMA FaceStepType ==
  /\ FaceStep \in [(SUBSET Cells) \X Nat -> SUBSET Cells]
  /\ \A T \in SUBSET Cells, i \in Nat : FaceStep[<<T, i>>] = Keep(T, i % 3)
BY KeepSubset DEF FaceStep

\* AfterFaces is the last value of the iteration.
LEMMA AfterFacesIterates ==
  ASSUME NEW T \in SUBSET Cells, NEW n \in Nat
  PROVE  \E g \in [0 .. n -> SUBSET Cells] : /\ Iterates(g, n, T, FaceStep)
                                             /\ AfterFaces(T, n) = g[n]
<1> DEFINE Is(g) == g = [i \in 0 .. n |-> IF i = 0 THEN T ELSE Keep(g[i - 1], (i - 1) % 3)]
<1>1. PICK g0 \in [0 .. n -> SUBSET Cells] : Iterates(g0, n, T, FaceStep)
  BY FaceStepType, IteratesExist
<1>2. Is(g0)
  <2>1. ASSUME NEW i \in 0 .. n
        PROVE  (IF i = 0 THEN T ELSE FaceStep[<<g0[i - 1], i - 1>>])
                 = (IF i = 0 THEN T ELSE Keep(g0[i - 1], (i - 1) % 3))
    <3>1. CASE i # 0
      <4>1. i - 1 \in 0 .. n /\ i - 1 \in Nat
        BY <3>1
      <4> QED  BY <3>1, <4>1, FaceStepType
    <3> QED  BY <3>1
  <2> QED  BY <2>1, <1>1 DEF Iterates
<1> DEFINE g == CHOOSE h : Is(h)
<1>3. Is(g)
  BY <1>2
<1>4. AfterFaces(T, n) = g[n]
  BY DEF AfterFaces
<1>5. g = g0
  <2> DEFINE X == {j \in Nat : j <= n => g[j] = g0[j]}
  <2>a. ASSUME NEW f, Is(f), NEW j \in 0 .. n
        PROVE  f[j] = IF j = 0 THEN T ELSE Keep(f[j - 1], (j - 1) % 3)
    <3>1. [i \in 0 .. n |-> IF i = 0 THEN T ELSE Keep(f[i - 1], (i - 1) % 3)][j]
            = IF j = 0 THEN T ELSE Keep(f[j - 1], (j - 1) % 3)
      OBVIOUS
    <3> QED  BY <2>a, <3>1
  <2> HIDE DEF g
  <2>1. 0 \in X
    <3> HIDE DEF Is
    <3> QED  BY <1>2, <1>3, <2>a
  <2>2. ASSUME NEW j \in Nat, j \in X
        PROVE  j + 1 \in X
    <3> SUFFICES ASSUME j + 1 <= n PROVE g[j + 1] = g0[j + 1]
      OBVIOUS
    <3> DEFINE k == j + 1
    <3>1. k \in 0 .. n /\ k # 0 /\ k - 1 = j /\ g[j] = g0[j]
      BY <2>2
    <3> HIDE DEF k, Is
    <3>2. g[k] = g0[k]
      BY <3>1, <1>2, <1>3, <2>a
    <3> QED  BY <3>2 DEF k
  <2>3. Nat \subseteq X
    <3> HIDE DEF X
    <3> QED  BY <2>1, <2>2, SetInduction
  <2>4. DOMAIN g = 0 .. n /\ g = [i \in 0 .. n |-> g[i]]
    BY <1>3
  <2>5. \A i \in 0 .. n : g[i] = g0[i]
    BY <2>3
  <2> HIDE DEF X, Is
  <2> QED  BY <2>4, <2>5
<1> QED  BY <1>1, <1>4, <1>5

LEMMA AfterFacesStep ==
  ASSUME NEW T \in SUBSET Cells, NEW n \in Nat
  PROVE  /\ AfterFaces(T, 0) = T
         /\ AfterFaces(T, n) \in SUBSET Cells
         /\ AfterFaces(T, n + 1) = Keep(AfterFaces(T, n), n % 3)
<1>1. AfterFaces(T, 0) = T
  <2>1. PICK g : Iterates(g, 0, T, FaceStep) /\ AfterFaces(T, 0) = g[0]
    BY AfterFacesIterates
  <2> QED  BY <2>1, IteratesFacts
<1>2. PICK g \in [0 .. n -> SUBSET Cells] : Iterates(g, n, T, FaceStep) /\ AfterFaces(T, n) = g[n]
  BY AfterFacesIterates
<1>3. PICK h \in [0 .. n + 1 -> SUBSET Cells] :
        Iterates(h, n + 1, T, FaceStep) /\ AfterFaces(T, n + 1) = h[n + 1]
  BY AfterFacesIterates
<1>4. g[n] = h[n]
  BY <1>2, <1>3, IteratesAgree
<1>5. h[n + 1] = FaceStep[<<h[n], n>>]
  BY <1>3, IteratesFacts
<1>6. AfterFaces(T, n) \in SUBSET Cells
  <2>1. n \in 0 .. n
    OBVIOUS
  <2> QED  BY <2>1, <1>2
<1>7. AfterFaces(T, n + 1) = Keep(AfterFaces(T, n), n % 3)
  BY <1>2, <1>3, <1>4, <1>5, <1>6, FaceStepType
<1> QED  BY <1>1, <1>6, <1>7

\* Once no face can simplify the instance, further faces change nothing.
LEMMA AfterFacesStable ==
  ASSUME NEW T \in SUBSET Cells, NEW n \in Nat, Stable(AfterFaces(T, n)),
         NEW m \in Nat, n <= m
  PROVE  AfterFaces(T, m) = AfterFaces(T, n)
<1> DEFINE X == {j \in Nat : AfterFaces(T, n + j) = AfterFaces(T, n)}
<1>1. 0 \in X
  OBVIOUS
<1>2. ASSUME NEW j \in Nat, j \in X
      PROVE  j + 1 \in X
  <2>1. n + (j + 1) = (n + j) + 1 /\ n + j \in Nat /\ (n + j) % 3 \in Faces
    BY DEF Faces
  <2>2. AfterFaces(T, (n + j) + 1) = Keep(AfterFaces(T, n + j), (n + j) % 3)
    BY <2>1, AfterFacesStep
  <2> QED  BY <1>2, <2>1, <2>2 DEF Stable
<1>3. m - n \in X
  <2>1. m - n \in Nat
    OBVIOUS
  <2> HIDE DEF X
  <2> QED  BY <2>1, <1>1, <1>2, SetInduction
<1>4. n + (m - n) = m
  OBVIOUS
<1> QED  BY <1>3, <1>4

-----------------------------------------------------------------------------
(* Warshall's closure and the ranges made from it.                         *)

ClosureStep ==
  [x \in (SUBSET (Rows \X Rows)) \X Nat |->
     x[1] \cup {e \in Rows \X Rows : <<e[1], x[2]>> \in x[1] /\ <<x[2], e[2]>> \in x[1]}]

LEMMA ClosureStepType ==
  /\ ClosureStep \in [(SUBSET (Rows \X Rows)) \X Nat -> SUBSET (Rows \X Rows)]
  /\ \A V \in SUBSET (Rows \X Rows), k \in Nat :
       ClosureStep[<<V, k>>]
         = V \cup {e \in Rows \X Rows : <<e[1], k>> \in V /\ <<k, e[2]>> \in V}
BY DEF ClosureStep

Loops(E) == E \cup {<<r, r>> : r \in Rows}

\* The closure after all rows have been intermediate nodes.
LEMMA ClosureIterates ==
  ASSUME NEW E \in SUBSET (Rows \X Rows)
  PROVE  \E g \in [0 .. S -> SUBSET (Rows \X Rows)] :
           Iterates(g, S, Loops(E), ClosureStep) /\ Closure(E) = g[S]
<1> DEFINE More(V, k) == V \cup {e \in Rows \X Rows : <<e[1], k>> \in V /\ <<k, e[2]>> \in V}
           Is(g) == g = [k \in 0 .. S |-> IF k = 0 THEN Loops(E) ELSE More(g[k - 1], k - 1)]
<1>0. Loops(E) \in SUBSET (Rows \X Rows) /\ S \in Nat
  BY SizeAssumption DEF Loops
<1>1. PICK g0 \in [0 .. S -> SUBSET (Rows \X Rows)] : Iterates(g0, S, Loops(E), ClosureStep)
  BY <1>0, ClosureStepType, IteratesExist
<1>s. \A V \in SUBSET (Rows \X Rows), k \in Nat : ClosureStep[<<V, k>>] = More(V, k)
  BY ClosureStepType
<1> HIDE DEF More
<1>2. Is(g0)
  <2>1. ASSUME NEW i \in 0 .. S
        PROVE  (IF i = 0 THEN Loops(E) ELSE ClosureStep[<<g0[i - 1], i - 1>>])
                 = (IF i = 0 THEN Loops(E) ELSE More(g0[i - 1], i - 1))
    <3>1. CASE i # 0
      <4>1. i - 1 \in 0 .. S /\ i - 1 \in Nat
        BY <3>1, <1>0
      <4> QED  BY <3>1, <4>1, <1>s
    <3> QED  BY <3>1
  <2> QED  BY <2>1, <1>1 DEF Iterates
<1> DEFINE g == CHOOSE h : Is(h)
<1>3. Is(g)
  BY <1>2
<1>4. Closure(E) = g[S]
  BY DEF Closure, Warshall, Loops, More
<1>5. g = g0
  <2> DEFINE X == {j \in Nat : j <= S => g[j] = g0[j]}
  <2>a. ASSUME NEW f, Is(f), NEW j \in 0 .. S
        PROVE  f[j] = IF j = 0 THEN Loops(E) ELSE More(f[j - 1], j - 1)
    <3>1. [i \in 0 .. S |-> IF i = 0 THEN Loops(E) ELSE More(f[i - 1], i - 1)][j]
            = IF j = 0 THEN Loops(E) ELSE More(f[j - 1], j - 1)
      OBVIOUS
    <3> QED  BY <2>a, <3>1
  <2> HIDE DEF g
  <2>1. 0 \in X
    <3>1. 0 \in 0 .. S
      BY <1>0
    <3> HIDE DEF Is
    <3> QED  BY <3>1, <1>2, <1>3, <2>a
  <2>2. ASSUME NEW j \in Nat, j \in X
        PROVE  j + 1 \in X
    <3> SUFFICES ASSUME j + 1 <= S PROVE g[j + 1] = g0[j + 1]
      OBVIOUS
    <3> DEFINE k == j + 1
    <3>1. k \in 0 .. S /\ k # 0 /\ k - 1 = j /\ g[j] = g0[j]
      BY <2>2, <1>0
    <3> HIDE DEF k, Is
    <3>2. g[k] = g0[k]
      BY <3>1, <1>2, <1>3, <2>a
    <3> QED  BY <3>2 DEF k
  <2>3. Nat \subseteq X
    <3> HIDE DEF X
    <3> QED  BY <2>1, <2>2, SetInduction
  <2>4. DOMAIN g = 0 .. S /\ g = [i \in 0 .. S |-> g[i]]
    BY <1>3
  <2>5. \A i \in 0 .. S : g[i] = g0[i]
    BY <2>3, <1>0
  <2> HIDE DEF X, Is
  <2> QED  BY <2>4, <2>5, <1>1
<1> QED  BY <1>1, <1>4, <1>5

\* V has the edges E and whatever leads through rows below k, and no more
\* than E reaches.
Closed(E, V, k) ==
  /\ V \in SUBSET (Rows \X Rows)
  /\ Loops(E) \subseteq V
  /\ \A u, v \in Rows : <<u, v>> \in V => Reaches(E, u, v)
  /\ \A u, v, j \in Rows : j < k /\ <<u, j>> \in V /\ <<j, v>> \in V => <<u, v>> \in V

LEMMA ClosedStarts ==
  ASSUME NEW E \in SUBSET (Rows \X Rows)
  PROVE  Closed(E, Loops(E), 0)
<1>1. \A u, v \in Rows : <<u, v>> \in Loops(E) => Reaches(E, u, v)
  BY DEF Loops, Reaches, IsClosed
<1>2. \A j \in Rows : ~(j < 0)
  BY DEF Rows
<1> QED  BY <1>1, <1>2 DEF Closed, Loops

LEMMA ClosedStep ==
  ASSUME NEW E, NEW V, NEW k \in Rows, Closed(E, V, k)
  PROVE  Closed(E, ClosureStep[<<V, k>>], k + 1)
<1>1. PICK W : W = ClosureStep[<<V, k>>]
  OBVIOUS
<1>2. V \in SUBSET (Rows \X Rows) /\ k \in Nat
  BY DEF Closed, Rows
<1>3. W = V \cup {e \in Rows \X Rows : <<e[1], k>> \in V /\ <<k, e[2]>> \in V}
  BY <1>1, <1>2, ClosureStepType
<1>4. \A u, v \in Rows : <<u, v>> \in W <=> <<u, v>> \in V \/ (<<u, k>> \in V /\ <<k, v>> \in V)
  BY <1>3
<1>5. \A u, v \in Rows : <<u, v>> \in W => Reaches(E, u, v)
  <2>1. \A u, v \in Rows : Reaches(E, u, k) /\ Reaches(E, k, v) => Reaches(E, u, v)
    BY DEF Reaches
  <2> QED  BY <1>4, <2>1 DEF Closed
<1>6. ASSUME NEW u \in Rows, NEW v \in Rows, NEW j \in Rows, j < k + 1,
             <<u, j>> \in W, <<j, v>> \in W
      PROVE  <<u, v>> \in W
  <2>v. \A x, y, i \in Rows : i < k /\ <<x, i>> \in V /\ <<i, y>> \in V => <<x, y>> \in V
    BY DEF Closed
  <2>1. CASE j = k
    BY <2>1, <1>4, <1>6
  <2>2. CASE j < k
    BY <2>2, <2>v, <1>4, <1>6
  <2>3. j = k \/ j < k
    BY <1>6 DEF Rows
  <2> QED  BY <2>1, <2>2, <2>3
<1>7. W \in SUBSET (Rows \X Rows) /\ Loops(E) \subseteq W
  BY <1>2, <1>3 DEF Closed
<1>8. Closed(E, W, k + 1)
  BY <1>5, <1>6, <1>7 DEF Closed
<1> QED  BY <1>1, <1>8

\* Warshall's closure is reachability.
LEMMA ClosureIsReach ==
  ASSUME NEW E \in SUBSET (Rows \X Rows), NEW u \in Rows, NEW v \in Rows
  PROVE  <<u, v>> \in Closure(E) <=> Reaches(E, u, v)
<1>1. PICK g \in [0 .. S -> SUBSET (Rows \X Rows)] :
        Iterates(g, S, Loops(E), ClosureStep) /\ Closure(E) = g[S]
  BY ClosureIterates
<1>g. /\ g[0] = Loops(E)
      /\ \A i \in 0 .. S - 1 : g[i + 1] = ClosureStep[<<g[i], i>>]
  BY <1>1, SizeAssumption, IteratesFacts
<1> DEFINE X == {k \in Nat : k <= S => Closed(E, g[k], k)}
<1>2. 0 \in X
  BY <1>g, ClosedStarts
<1>3. ASSUME NEW k \in Nat, k \in X
      PROVE  k + 1 \in X
  <2> SUFFICES ASSUME k + 1 <= S PROVE Closed(E, g[k + 1], k + 1)
    OBVIOUS
  <2>1. k \in Rows /\ k \in 0 .. S - 1 /\ Closed(E, g[k], k)
    BY <1>3, SizeAssumption DEF Rows
  <2>2. Closed(E, ClosureStep[<<g[k], k>>], k + 1)
    BY <2>1, ClosedStep
  <2> QED  BY <2>1, <2>2, <1>g
<1>4. Closed(E, g[S], S)
  <2> HIDE DEF X
  <2>1. S \in X
    BY <1>2, <1>3, SetInduction, SizeAssumption
  <2> QED  BY <2>1, SizeAssumption DEF X
<1>5. PICK C : C = Closure(E)
  OBVIOUS
<1>6. Closed(E, C, S)
  BY <1>1, <1>4, <1>5
<1>7. ASSUME Reaches(E, u, v)
      PROVE  <<u, v>> \in C
  <2> DEFINE R == {w \in Rows : <<u, w>> \in C}
  <2>1. \A x, y, j \in Rows : <<x, j>> \in C /\ <<j, y>> \in C => <<x, y>> \in C
    <3>1. \A j \in Rows : j < S
      BY SizeAssumption DEF Rows
    <3> QED  BY <3>1, <1>6 DEF Closed
  <2>2. IsClosed(E, R)
    <3> SUFFICES ASSUME NEW e \in E, e[1] \in R PROVE e[2] \in R
      BY DEF IsClosed
    <3>1. e[1] \in Rows /\ e[2] \in Rows /\ e = <<e[1], e[2]>> /\ <<u, e[1]>> \in C
      OBVIOUS
    <3>2. <<e[1], e[2]>> \in C
      BY <3>1, <1>6 DEF Closed, Loops
    <3> QED  BY <3>1, <3>2, <2>1
  <2>3. u \in R
    BY <1>6 DEF Closed, Loops
  <2>4. v \in R
    BY <1>7, <2>2, <2>3 DEF Reaches
  <2> QED  BY <2>4
<1>8. ASSUME <<u, v>> \in C
      PROVE  Reaches(E, u, v)
  BY <1>6, <1>8 DEF Closed
<1> QED  BY <1>5, <1>7, <1>8

\* A set of rows has a least one.
LEMMA LeastRow ==
  ASSUME NEW R \in SUBSET Rows, R # {}
  PROVE  Min(R) \in R /\ \A y \in R : Min(R) <= y
BY LeastExists DEF Min

\* Two rows have the same range exactly when they are in one component.
LEMMA RangesAreComponents ==
  ASSUME NEW E \in SUBSET (Rows \X Rows), NEW u \in Rows, NEW v \in Rows
  PROVE  Ranges(E)[u] = Ranges(E)[v] <=> SameScc(E, u, v)
<1>1. ASSUME NEW w \in Rows
      PROVE  Ranges(E)[w] = Min(Component(E, w))
  <2> DEFINE Same == {x \in Rows : <<w, x>> \in Closure(E) /\ <<x, w>> \in Closure(E)}
  <2>1. \A x \in Rows : x \in Same <=> x \in Component(E, w)
    BY ClosureIsReach DEF Component, SameScc
  <2>2. Same = Component(E, w)
    <3>1. Same \subseteq Rows /\ Component(E, w) \subseteq Rows
      BY DEF Component
    <3> HIDE DEF Same
    <3> QED  BY <2>1, <3>1
  <2>3. Ranges(E)[w] = Min(Same)
    BY DEF Ranges
  <2> QED  BY <2>2, <2>3
<1>2. ASSUME NEW w \in Rows
      PROVE  Min(Component(E, w)) \in Rows /\ SameScc(E, w, Min(Component(E, w)))
  <2>1. Component(E, w) \in SUBSET Rows /\ w \in Component(E, w)
    BY SccEquivalence DEF Component
  <2>2. Min(Component(E, w)) \in Component(E, w)
    BY <2>1, LeastRow
  <2> QED  BY <2>2 DEF Component
<1>3. ASSUME SameScc(E, u, v)
      PROVE  Ranges(E)[u] = Ranges(E)[v]
  <2>1. Component(E, u) = Component(E, v)
    BY <1>3, SameComponent
  <2> QED  BY <2>1, <1>1
<1>4. ASSUME Ranges(E)[u] = Ranges(E)[v]
      PROVE  SameScc(E, u, v)
  <2>1. PICK m : m = Ranges(E)[u]
    OBVIOUS
  <2>2. SameScc(E, u, m) /\ SameScc(E, v, m)
    BY <2>1, <1>1, <1>2, <1>4
  <2> QED  BY <2>2, SccEquivalence
<1> QED  BY <1>3, <1>4

-----------------------------------------------------------------------------
(* A trial on the device.                                                  *)

\* T is what n faces have made of the instance a trial was given.  While it is
\* active the last k of them had no effect, and there are more to come.
TrialOK(given, T, n, k) ==
  /\ T = AfterFaces(given, n)
  /\ T \in SUBSET Cells
  /\ k = 3 => Stable(T)
  /\ k < 3 => /\ k <= n
              /\ \A j \in 1 .. k : Keep(T, (n - j) % 3) = T
              /\ Recorded(T, n, k)

LEMMA TrialStarts ==
  ASSUME NEW given \in SUBSET Cells
  PROVE  TrialOK(given, given, 0, 0)
BY AfterFacesStep, RecordStarts DEF TrialOK

\* A settled trial is not touched by further faces.
LEMMA TrialStays ==
  ASSUME NEW given \in SUBSET Cells, NEW T, NEW n \in Nat, TrialOK(given, T, n, 3)
  PROVE  TrialOK(given, T, n + 1, 3)
<1>1. Stable(AfterFaces(given, n))
  BY DEF TrialOK
<1>2. AfterFaces(given, n + 1) = AfterFaces(given, n)
  <2>1. n + 1 \in Nat /\ n <= n + 1
    OBVIOUS
  <2> QED  BY <1>1, <2>1, AfterFacesStable
<1> QED  BY <1>2 DEF TrialOK

\* An active trial is below the cap, and so it is after a face unless it settles.
LEMMA TrialStep ==
  ASSUME NEW given \in SUBSET Cells, NEW T, NEW n \in Nat, NEW k \in 0 .. 2,
         TrialOK(given, T, n, k)
  PROVE  LET U == Keep(T, n % 3)
             l == IF U = T THEN k + 1 ELSE 0
         IN  /\ TrialOK(given, U, n + 1, l)
             /\ l < 3 => n + 1 < 3 * S * S
<1> DEFINE f == n % 3
           U == Keep(T, f)
           l == IF U = T THEN k + 1 ELSE 0
<1>0. /\ f \in Faces /\ l \in 0 .. 3 /\ n + 1 \in Nat
  BY DEF Faces
<1>t. /\ T = AfterFaces(given, n) /\ T \in SUBSET Cells
      /\ k <= n /\ \A j \in 1 .. k : Keep(T, (n - j) % 3) = T
      /\ Recorded(T, n, k)
  BY DEF TrialOK
<1>1. U = AfterFaces(given, n + 1) /\ U \in SUBSET Cells
  BY <1>t, AfterFacesStep, KeepSubset
<1>2. Recorded(U, n + 1, l)
  BY <1>0, <1>t, RecordStep
<1>3. l <= n + 1 /\ \A j \in 1 .. l : Keep(U, ((n + 1) - j) % 3) = U
  <2>1. CASE U # T
    BY <2>1
  <2>2. CASE U = T
    <3>1. l = k + 1 /\ l <= n + 1
      BY <2>2, <1>t
    <3>2. ASSUME NEW j \in 1 .. l
          PROVE  Keep(T, ((n + 1) - j) % 3) = T
      <4>1. CASE j = 1
        <5>1. ((n + 1) - j) % 3 = f
          BY <4>1
        <5> QED  BY <5>1, <2>2
      <4>2. CASE j # 1
        <5>1. j - 1 \in 1 .. k /\ (n + 1) - j = n - (j - 1)
          BY <4>2, <3>1
        <5> QED  BY <5>1, <1>t
      <4> QED  BY <4>1, <4>2
    <3> HIDE DEF U, l
    <3> QED  BY <3>1, <3>2, <2>2
  <2> QED  BY <2>1, <2>2
<1>4. l = 3 => Stable(U)
  <2> SUFFICES ASSUME l = 3, NEW i \in Faces PROVE Keep(U, i) = U
    BY DEF Stable
  <2>1. \E j \in 1 .. 3 : ((n + 1) - j) % 3 = i
    <3>1. i \in 0 .. 2
      BY DEF Faces
    <3>2. ((n + 1) - 1) % 3 = i \/ ((n + 1) - 2) % 3 = i \/ ((n + 1) - 3) % 3 = i
      BY <3>1
    <3> QED  BY <3>2
  <2> HIDE DEF U, l
  <2> QED  BY <2>1, <1>3
<1> HIDE DEF U, l
<1>5. l < 3 => n + 1 < 3 * S * S
  BY <1>0, <1>2, RecordBounded
<1>6. TrialOK(given, U, n + 1, l)
  BY <1>1, <1>2, <1>3, <1>4 DEF TrialOK
<1> QED  BY <1>5, <1>6 DEF U, l, f

-----------------------------------------------------------------------------
(* The batch.  Between two kernels every trial is where the loop would be   *)
(* after the same number of faces.                                         *)

GpuTypes ==
  /\ trials \in 0 .. MaxTrials
  /\ batch \in [1 .. trials -> BatchInputs]
  /\ host \in {"idle", "project", "closure", "modify", "update", "sum", "done"}
  /\ gpuIter \in Nat
  /\ devNoChange \in [Slots -> 0 .. 3]
  /\ devTDM = [t \in Slots |-> devTDM[t]]
  /\ devProjection = [t \in Slots |-> devProjection[t]]
  /\ devRanges = [t \in Slots |-> devRanges[t]]
  /\ devChanged \in [Slots -> BOOLEAN]
  /\ devResult = [t \in Slots |-> devResult[t]]

\* The cap is never reached while a trial is active.
CapInv == /\ host \in {"project", "closure", "modify", "update"} => gpuIter < MaxIter
          /\ host \in {"sum", "done"} => gpuIter <= MaxIter

\* Before the entries of a face are deleted.
BeforeInv ==
  host \in {"project", "closure", "modify"} =>
    \A t \in 1 .. trials : TrialOK(batch[t], devTDM[t], gpuIter, devNoChange[t])

ClearedInv ==
  /\ host \in {"closure", "modify"} => \A t \in 1 .. trials : ~devChanged[t]
  /\ host \in {"closure", "modify", "update"} => devActive = 0

ProjectionInv ==
  host = "closure" => \A t \in Live : devProjection[t] = Projection(devTDM[t], GpuFace)

RangesInv ==
  host = "modify" => \A t \in Live : devRanges[t] = Ranges(Projection(devTDM[t], GpuFace))

\* After they are deleted, and before the trial's count says so.
Simplified(given, T, n, k, changed_) ==
  \E U : /\ TrialOK(given, U, n, k)
         /\ T = IF k < 3 THEN Keep(U, n % 3) ELSE U
         /\ changed_ <=> T # U

AfterInv ==
  host = "update" =>
    \A t \in 1 .. trials :
      Simplified(batch[t], devTDM[t], gpuIter, devNoChange[t], devChanged[t])

SettledInv ==
  host \in {"sum", "done"} =>
    \A t \in 1 .. trials : /\ devNoChange[t] = 3
                           /\ TrialOK(batch[t], devTDM[t], gpuIter, 3)

ResultInv ==
  host = "done" => \A t \in 1 .. trials : devResult[t] = Cardinality(devTDM[t])

GpuInv == GpuTypes /\ CapInv /\ BeforeInv /\ ClearedInv /\ ProjectionInv /\ RangesInv
          /\ AfterInv /\ SettledInv /\ ResultInv

LEMMA WriteFacts ==
  ASSUME NEW places, NEW buffer
  PROVE  /\ Write(places, buffer) = [t \in Slots |-> Write(places, buffer)[t]]
         /\ \A t \in Slots : Write(places, buffer)[t]
              = IF t \in DOMAIN places THEN places[t] ELSE buffer[t]
BY DEF Write

LEMMA TrialsAreSlots == GpuTypes => 1 .. trials \subseteq Slots
BY BatchAssumption DEF GpuTypes, Slots

LEMMA InitGpuInv == GpuInit => GpuInv
<1> SUFFICES ASSUME GpuInit PROVE GpuInv
  OBVIOUS
<1>1. GpuTypes
  BY BatchAssumption DEF GpuInit, GpuTypes
<1>2. CapInv /\ BeforeInv /\ ClearedInv /\ ProjectionInv /\ RangesInv
      /\ AfterInv /\ SettledInv /\ ResultInv
  BY DEF GpuInit, CapInv, BeforeInv, ClearedInv, ProjectionInv, RangesInv, AfterInv,
         SettledInv, ResultInv
<1> QED  BY <1>1, <1>2 DEF GpuInv

LEMMA CapPositive == MaxIter \in Nat /\ 0 < MaxIter
<1>1. S * S \in Nat \ {0}
  <2>1. S \in Nat /\ S >= 1 /\ S * S >= S
    BY SizeAssumption
  <2> QED  BY <2>1
<1> QED  BY <1>1, SizeAssumption DEF MaxIter

LEMMA LaunchStep ==
  ASSUME NEW n \in Slots, NEW given \in [1 .. n -> BatchInputs], GpuInv, Launch(n, given)
  PROVE  GpuInv'
<1>0. GpuTypes /\ 1 .. trials \subseteq Slots
  BY TrialsAreSlots DEF GpuInv
<1>1. /\ batch' = given /\ trials' = n
      /\ devTDM' = Write(given, devTDM)
      /\ devNoChange' = Write([t \in 1 .. n |-> 0], devNoChange)
      /\ host' = "project" /\ gpuIter' = 0
      /\ UNCHANGED <<devProjection, devRanges, devChanged, devActive, devResult>>
  BY DEF Launch
<1>n. n \in 0 .. MaxTrials /\ 1 .. n \subseteq Slots
  BY BatchAssumption DEF Slots
<1>2. /\ devNoChange' \in [Slots -> 0 .. 3]
      /\ \A t \in 1 .. n : devNoChange'[t] = 0
  BY <1>0, <1>1, <1>n DEF Write, GpuTypes
<1>3. /\ devTDM' = [t \in Slots |-> devTDM'[t]]
      /\ \A t \in 1 .. n : devTDM'[t] = given[t]
  BY <1>1, <1>n DEF Write
<1>4. GpuTypes'
  BY <1>0, <1>1, <1>2, <1>3, <1>n DEF GpuTypes
<1>5. BeforeInv'
  <2>1. ASSUME NEW t \in 1 .. n
        PROVE  TrialOK(given[t], devTDM'[t], 0, devNoChange'[t])
    <3>1. given[t] \in SUBSET Cells
      BY BatchAssumption
    <3> QED  BY <3>1, <1>2, <1>3, TrialStarts
  <2> QED  BY <2>1, <1>1 DEF BeforeInv
<1>6. CapInv'
  BY <1>1, CapPositive DEF CapInv
<1>7. ClearedInv' /\ ProjectionInv' /\ RangesInv' /\ AfterInv' /\ SettledInv' /\ ResultInv'
  BY <1>1 DEF ClearedInv, ProjectionInv, RangesInv, AfterInv, SettledInv, ResultInv
<1> QED  BY <1>4, <1>5, <1>6, <1>7 DEF GpuInv

LEMMA CalcProjectionStep == GpuInv /\ CalcProjection => GpuInv'
<1> SUFFICES ASSUME GpuInv, CalcProjection PROVE GpuInv'
  OBVIOUS
<1>0. GpuTypes /\ 1 .. trials \subseteq Slots
  BY TrialsAreSlots DEF GpuInv
<1>1. /\ host = "project" /\ host' = "closure" /\ devActive' = 0
      /\ UNCHANGED <<batch, trials, gpuIter, devTDM, devNoChange, devResult>>
      /\ devProjection' = Write([t \in 1 .. trials |->
                                   IF t \in Live THEN Projection(devTDM[t], GpuFace) ELSE {}],
                                devProjection)
      /\ devRanges' = Write([t \in 1 .. trials |-> [r \in Rows |-> 0]], devRanges)
      /\ devChanged' = Write([t \in 1 .. trials |-> FALSE], devChanged)
  BY DEF CalcProjection
<1>2. /\ devChanged' \in [Slots -> BOOLEAN]
      /\ \A t \in 1 .. trials : ~devChanged'[t]
  BY <1>0, <1>1 DEF Write, GpuTypes
<1>3. /\ devProjection' = [t \in Slots |-> devProjection'[t]]
      /\ \A t \in Live : devProjection'[t] = Projection(devTDM[t], GpuFace)
  <2>1. Live \subseteq 1 .. trials
    BY DEF Live
  <2> QED  BY <2>1, <1>0, <1>1 DEF Write
<1>4. devRanges' = [t \in Slots |-> devRanges'[t]]
  BY <1>1 DEF Write
<1>5. GpuTypes'
  BY <1>0, <1>1, <1>2, <1>3, <1>4 DEF GpuTypes
<1>6. BeforeInv' /\ CapInv'
  BY <1>1 DEF GpuInv, BeforeInv, CapInv, MaxIter
<1>7. ClearedInv'
  BY <1>1, <1>2 DEF ClearedInv
<1>8. ProjectionInv'
  <2>1. Live' = Live /\ GpuFace' = GpuFace
    BY <1>1 DEF Live, GpuFace
  <2> QED  BY <2>1, <1>1, <1>3 DEF ProjectionInv
<1>9. RangesInv' /\ AfterInv' /\ SettledInv' /\ ResultInv'
  BY <1>1 DEF RangesInv, AfterInv, SettledInv, ResultInv
<1> QED  BY <1>5, <1>6, <1>7, <1>8, <1>9 DEF GpuInv

LEMMA TransitiveClosureStep == GpuInv /\ TransitiveClosure => GpuInv'
<1> SUFFICES ASSUME GpuInv, TransitiveClosure PROVE GpuInv'
  OBVIOUS
<1>0. GpuTypes /\ 1 .. trials \subseteq Slots
  BY TrialsAreSlots DEF GpuInv
<1>1. /\ host = "closure" /\ host' = "modify"
      /\ UNCHANGED <<batch, trials, gpuIter, devTDM, devProjection, devChanged, devNoChange,
                     devActive, devResult>>
      /\ devRanges' = Write([t \in Live |-> Ranges(devProjection[t])], devRanges)
  BY DEF TransitiveClosure
<1>2. Live \subseteq 1 .. trials /\ Live' = Live /\ GpuFace' = GpuFace
  BY <1>1 DEF Live, GpuFace
<1>3. /\ devRanges' = [t \in Slots |-> devRanges'[t]]
      /\ \A t \in Live : devRanges'[t] = Ranges(devProjection[t])
  BY <1>0, <1>1, <1>2 DEF Write
<1>4. GpuTypes'
  BY <1>0, <1>1, <1>3 DEF GpuTypes
<1>5. BeforeInv' /\ CapInv' /\ ClearedInv'
  BY <1>1 DEF GpuInv, BeforeInv, CapInv, ClearedInv, MaxIter
<1>6. RangesInv'
  BY <1>1, <1>2, <1>3 DEF GpuInv, ProjectionInv, RangesInv
<1>7. ProjectionInv' /\ AfterInv' /\ SettledInv' /\ ResultInv'
  BY <1>1 DEF ProjectionInv, AfterInv, SettledInv, ResultInv
<1> QED  BY <1>4, <1>5, <1>6, <1>7 DEF GpuInv

\* Deleting by ranges keeps what the loop keeps.
LEMMA DeletedFace ==
  ASSUME NEW T \in SUBSET Cells, NEW f
  PROVE  T \ {c \in T : Ranges(Projection(T, f))[Edge(f, c)[1]]
                          # Ranges(Projection(T, f))[Edge(f, c)[2]]} = Keep(T, f)
<1>1. Projection(T, f) \in SUBSET (Rows \X Rows)
  BY EdgeIsPair DEF Projection
<1> DEFINE E == Projection(T, f)
<1>2. ASSUME NEW c \in T
      PROVE  Ranges(E)[Edge(f, c)[1]] = Ranges(E)[Edge(f, c)[2]]
               <=> SameScc(E, Edge(f, c)[1], Edge(f, c)[2])
  <2>1. Edge(f, c)[1] \in Rows /\ Edge(f, c)[2] \in Rows
    BY EdgeIsPair
  <2> HIDE DEF E
  <2> QED  BY <2>1, <1>1, RangesAreComponents DEF E
<1> QED  BY <1>2 DEF Keep

LEMMA ModifyTDMStep == GpuInv /\ ModifyTDM => GpuInv'
<1> SUFFICES ASSUME GpuInv, ModifyTDM PROVE GpuInv'
  OBVIOUS
<1>0. GpuTypes /\ 1 .. trials \subseteq Slots
  BY TrialsAreSlots DEF GpuInv
<1>1. /\ host = "modify" /\ host' = "update"
      /\ UNCHANGED <<batch, trials, gpuIter, devProjection, devRanges, devNoChange,
                     devActive, devResult>>
      /\ devTDM' = Write([t \in Live |-> devTDM[t] \ Deleted(t)], devTDM)
      /\ devChanged' = Write([t \in Live |-> devChanged[t] \/ Deleted(t) # {}], devChanged)
  BY DEF ModifyTDM
<1>2. Live \subseteq 1 .. trials
  BY DEF Live
<1>3. /\ devTDM' = [t \in Slots |-> devTDM'[t]]
      /\ \A t \in Slots : devTDM'[t] = IF t \in Live THEN devTDM[t] \ Deleted(t) ELSE devTDM[t]
  BY <1>1 DEF Write
<1>4. /\ devChanged' \in [Slots -> BOOLEAN]
      /\ \A t \in 1 .. trials : devChanged'[t] <=> (t \in Live /\ Deleted(t) # {})
  <2>1. \A t \in 1 .. trials : ~devChanged[t]
    BY <1>1 DEF GpuInv, ClearedInv
  <2>2. devChanged \in [Slots -> BOOLEAN]
    BY <1>0 DEF GpuTypes
  <2> QED  BY <2>1, <2>2, <1>0, <1>1, <1>2 DEF Write
<1>5. GpuTypes'
  BY <1>0, <1>1, <1>3, <1>4 DEF GpuTypes
<1>6. CapInv' /\ ClearedInv'
  BY <1>1 DEF GpuInv, CapInv, ClearedInv, MaxIter
<1>7. ASSUME NEW t \in 1 .. trials
      PROVE  Simplified(batch[t], devTDM'[t], gpuIter, devNoChange[t], devChanged'[t])
  <2>1. TrialOK(batch[t], devTDM[t], gpuIter, devNoChange[t]) /\ t \in Slots
    BY <1>0, <1>1 DEF GpuInv, BeforeInv
  <2>2. devTDM[t] \in SUBSET Cells
    BY <2>1 DEF TrialOK
  <2>3. t \in Live <=> devNoChange[t] < 3
    BY DEF Live
  <2>4. CASE t \in Live
    <3>1. devTDM[t] \ Deleted(t) = Keep(devTDM[t], GpuFace)
      <4>1. devRanges[t] = Ranges(Projection(devTDM[t], GpuFace))
        BY <2>4, <1>1 DEF GpuInv, RangesInv
      <4> QED  BY <4>1, <2>2, DeletedFace DEF Deleted
    <3>2. devTDM'[t] = Keep(devTDM[t], GpuFace)
      BY <3>1, <2>1, <2>4, <1>3
    <3>3. Deleted(t) \subseteq devTDM[t]
      BY DEF Deleted
    <3>4. devChanged'[t] <=> devTDM'[t] # devTDM[t]
      BY <3>1, <3>2, <3>3, <2>4, <1>4
    <3> QED  BY <3>2, <3>4, <2>1, <2>3, <2>4 DEF Simplified, GpuFace
  <2>5. CASE t \notin Live
    <3>1. devTDM'[t] = devTDM[t] /\ ~devChanged'[t]
      BY <2>1, <2>5, <1>3, <1>4
    <3> QED  BY <3>1, <2>1, <2>3, <2>5 DEF Simplified
  <2> QED  BY <2>4, <2>5
<1>8. AfterInv'
  BY <1>1, <1>7 DEF AfterInv
<1>9. BeforeInv' /\ ProjectionInv' /\ RangesInv' /\ SettledInv' /\ ResultInv'
  BY <1>1 DEF BeforeInv, ProjectionInv, RangesInv, SettledInv, ResultInv
<1> QED  BY <1>5, <1>6, <1>8, <1>9 DEF GpuInv

LEMMA UpdateNoChangeStep == GpuInv /\ UpdateNoChange => GpuInv'
<1> SUFFICES ASSUME GpuInv, UpdateNoChange PROVE GpuInv'
  OBVIOUS
<1>0. GpuTypes /\ 1 .. trials \subseteq Slots
  BY TrialsAreSlots DEF GpuInv
<1> DEFINE Active == {t \in Live : devNoChange'[t] < 3}
<1>1. /\ host = "update"
      /\ UNCHANGED <<batch, trials, devTDM, devProjection, devRanges, devChanged, devResult>>
      /\ gpuIter' = gpuIter + 1
      /\ devNoChange' = Write([t \in Live |-> IF devChanged[t] THEN 0 ELSE devNoChange[t] + 1],
                              devNoChange)
      /\ devActive' = devActive + Cardinality(Active)
      /\ host' = IF devActive' = 0 \/ gpuIter' = MaxIter THEN "sum" ELSE "project"
  BY DEF UpdateNoChange
<1>2. Live \subseteq 1 .. trials /\ IsFiniteSet(Live)
  <2>1. Live \subseteq 1 .. trials
    BY DEF Live
  <2>2. IsFiniteSet(1 .. trials)
    <3>1. 1 \in Int /\ trials \in Int
      BY <1>0, BatchAssumption DEF GpuTypes
    <3> QED  BY <3>1, FS_Interval
  <2> QED  BY <2>1, <2>2, FS_Subset
<1>3. /\ \A t \in Slots : devNoChange'[t] =
             IF t \in Live THEN IF devChanged[t] THEN 0 ELSE devNoChange[t] + 1
             ELSE devNoChange[t]
      /\ devNoChange' = [t \in Slots |-> devNoChange'[t]]
  BY <1>1 DEF Write
<1>t. \A t \in Live : devNoChange[t] \in 0 .. 2
  BY <1>0 DEF Live, GpuTypes
<1>4. devNoChange' \in [Slots -> 0 .. 3]
  <2>1. \A t \in Slots : devNoChange'[t] \in 0 .. 3
    BY <1>0, <1>3, <1>t DEF GpuTypes
  <2> QED  BY <2>1, <1>3
<1>5. gpuIter \in Nat /\ gpuIter < MaxIter
  BY <1>0, <1>1 DEF GpuTypes, GpuInv, CapInv
<1>6. ASSUME NEW t \in 1 .. trials
      PROVE  /\ TrialOK(batch[t], devTDM[t], gpuIter + 1, devNoChange'[t])
             /\ devNoChange'[t] < 3 => gpuIter + 1 < MaxIter
  <2>1. PICK U : /\ TrialOK(batch[t], U, gpuIter, devNoChange[t])
                 /\ devTDM[t] = IF devNoChange[t] < 3 THEN Keep(U, gpuIter % 3) ELSE U
                 /\ devChanged[t] <=> devTDM[t] # U
    BY <1>1 DEF GpuInv, AfterInv, Simplified
  <2>2. batch[t] \in SUBSET Cells /\ t \in Slots
    BY <1>0, BatchAssumption DEF GpuTypes
  <2>3. CASE t \in Live
    <3>1. devNoChange[t] \in 0 .. 2 /\ devTDM[t] = Keep(U, gpuIter % 3)
      BY <2>1, <2>3, <1>t
    <3>2. devNoChange'[t] = IF Keep(U, gpuIter % 3) = U THEN devNoChange[t] + 1 ELSE 0
      BY <2>1, <2>2, <2>3, <3>1, <1>3
    <3>3. /\ TrialOK(batch[t], Keep(U, gpuIter % 3), gpuIter + 1,
                     IF Keep(U, gpuIter % 3) = U THEN devNoChange[t] + 1 ELSE 0)
          /\ (IF Keep(U, gpuIter % 3) = U THEN devNoChange[t] + 1 ELSE 0) < 3
               => gpuIter + 1 < 3 * S * S
      BY <2>1, <2>2, <3>1, <1>5, TrialStep
    <3> QED  BY <3>1, <3>2, <3>3 DEF MaxIter
  <2>4. CASE t \notin Live
    <3>1. devNoChange[t] = 3 /\ devNoChange'[t] = 3
      BY <2>2, <2>4, <1>0, <1>3 DEF Live, GpuTypes
    <3>2. devTDM[t] = U
      BY <2>1, <3>1
    <3> QED  BY <2>1, <2>2, <3>1, <3>2, <1>5, TrialStays
  <2> QED  BY <2>3, <2>4
<1>7. IsFiniteSet(Active) /\ Cardinality(Active) \in Nat
  BY <1>2, FS_Subset, FS_CardinalityType
<1>8. devActive' = Cardinality(Active) /\ (devActive' = 0 => Active = {})
  <2>1. devActive = 0
    BY <1>1 DEF GpuInv, ClearedInv
  <2> HIDE DEF Active
  <2> QED  BY <2>1, <1>1, <1>7, FS_EmptySet
<1>9. GpuTypes'
  BY <1>0, <1>1, <1>4, <1>5 DEF GpuTypes
<1>10. ASSUME host' = "sum", NEW t \in 1 .. trials
       PROVE  devNoChange'[t] = 3
  <2>0. devNoChange'[t] \in 0 .. 3 /\ (t \notin Live => devNoChange'[t] = 3)
    BY <1>0, <1>3, <1>4 DEF Live, GpuTypes
  <2>1. CASE devActive' = 0
    BY <2>0, <2>1, <1>8
  <2>2. CASE gpuIter' = MaxIter
    BY <2>0, <2>2, <1>1, <1>6, CapPositive
  <2> QED  BY <2>1, <2>2, <1>1, <1>10
<1>11. CapInv'
  BY <1>1, <1>5, CapPositive DEF CapInv, MaxIter
<1>12. BeforeInv'
  BY <1>1, <1>6 DEF BeforeInv
<1>13. SettledInv'
  <2>1. host' = "sum" =>
          \A t \in 1 .. trials : /\ devNoChange'[t] = 3
                                 /\ TrialOK(batch[t], devTDM[t], gpuIter + 1, 3)
    BY <1>6, <1>10
  <2> QED  BY <2>1, <1>1 DEF SettledInv
<1>14. ClearedInv' /\ ProjectionInv' /\ RangesInv' /\ AfterInv' /\ ResultInv'
  BY <1>1 DEF ClearedInv, ProjectionInv, RangesInv, AfterInv, ResultInv
<1> QED  BY <1>9, <1>11, <1>12, <1>13, <1>14 DEF GpuInv

LEMMA SumEntriesStep == GpuInv /\ SumEntries => GpuInv'
<1> SUFFICES ASSUME GpuInv, SumEntries PROVE GpuInv'
  OBVIOUS
<1>0. GpuTypes /\ 1 .. trials \subseteq Slots
  BY TrialsAreSlots DEF GpuInv
<1>1. /\ host = "sum" /\ host' = "done"
      /\ UNCHANGED <<batch, trials, gpuIter, devTDM, devProjection, devRanges, devChanged,
                     devNoChange, devActive>>
      /\ devResult' = Write([t \in 1 .. trials |-> Cardinality(devTDM[t])], devResult)
  BY DEF SumEntries
<1>2. /\ devResult' = [t \in Slots |-> devResult'[t]]
      /\ \A t \in 1 .. trials : devResult'[t] = Cardinality(devTDM[t])
  BY <1>0, <1>1 DEF Write
<1>3. GpuTypes'
  BY <1>0, <1>1, <1>2 DEF GpuTypes
<1>4. CapInv' /\ SettledInv'
  BY <1>1 DEF GpuInv, CapInv, SettledInv, MaxIter
<1>5. ResultInv'
  BY <1>1, <1>2 DEF ResultInv
<1>6. BeforeInv' /\ ClearedInv' /\ ProjectionInv' /\ RangesInv' /\ AfterInv'
  BY <1>1 DEF BeforeInv, ClearedInv, ProjectionInv, RangesInv, AfterInv
<1> QED  BY <1>3, <1>4, <1>5, <1>6 DEF GpuInv

LEMMA NextGpuInv == GpuInv /\ [GpuNext]_gpuVars => GpuInv'
<1>1. GpuInv /\ UNCHANGED gpuVars => GpuInv'
  BY DEF GpuInv, GpuTypes, CapInv, BeforeInv, ClearedInv, ProjectionInv, RangesInv, AfterInv,
         SettledInv, ResultInv, gpuVars, Live, GpuFace, MaxIter
<1> QED  BY <1>1, LaunchStep, CalcProjectionStep, TransitiveClosureStep, ModifyTDMStep,
            UpdateNoChangeStep, SumEntriesStep DEF GpuNext, GpuStep

\* Between two kernels every trial of a batch is where the loop would be, for
\* every size, batch and number of launches on the same buffers.
THEOREM BatchInvariance == GpuSpec => []GpuInv
BY InitGpuInv, NextGpuInv, PTL DEF GpuSpec

\* outer_Kernel_impl simplifies every trial of a batch to what the loop makes
\* of its own instance, which no face can simplify, and returns its size.
THEOREM TrialsAreExact == GpuSpec => []TrialsExact
<1>1. GpuInv => TrialsExact
  <2> SUFFICES ASSUME GpuInv, host = "done", NEW t \in 1 .. trials
               PROVE  /\ Stable(AfterFaces(batch[t], 3 * S * S))
                      /\ devResult[t] = Cardinality(AfterFaces(batch[t], 3 * S * S))
    BY DEF TrialsExact
  <2>1. /\ TrialOK(batch[t], devTDM[t], gpuIter, 3)
        /\ gpuIter \in Nat /\ gpuIter <= MaxIter
        /\ devResult[t] = Cardinality(devTDM[t])
    BY DEF GpuInv, SettledInv, GpuTypes, CapInv, ResultInv
  <2>2. batch[t] \in SUBSET Cells
    BY BatchAssumption DEF GpuInv, GpuTypes
  <2>3. devTDM[t] = AfterFaces(batch[t], gpuIter) /\ Stable(devTDM[t])
    BY <2>1 DEF TrialOK
  <2>4. AfterFaces(batch[t], MaxIter) = AfterFaces(batch[t], gpuIter)
    BY <2>1, <2>2, <2>3, CapPositive, AfterFacesStable
  <2> QED  BY <2>1, <2>3, <2>4 DEF MaxIter
<1> QED  BY <1>1, BatchInvariance, PTL

-----------------------------------------------------------------------------
(* The reference version.  First, what its test of an edge means.          *)

\* The cells of the diagonal are in every instance of a puzzle.
LEMMA ComputeHasDiagonal ==
  ASSUME NEW k \in Nat, NEW p \in Puzzles(k), NEW strong \in BOOLEAN
  PROVE  Diagonal \subseteq Compute(p, strong) /\ Compute(p, strong) \subseteq Cells
<1> SUFFICES ASSUME NEW r \in Rows
             PROVE  ~IsWitness(p, <<r, r, r>>, strong)
  BY DEF Diagonal, Compute, Cells
<1> SUFFICES ASSUME NEW i \in DOMAIN p[0]
             PROVE  Cardinality(Agreeing(p, <<r, r, r>>, i)) < 2
  <2>1. ASSUME NEW i \in DOMAIN p[0], Cardinality(Agreeing(p, <<r, r, r>>, i)) < 2
        PROVE  LET count == Cardinality(Agreeing(p, <<r, r, r>>, i))
               IN  ~(IF strong THEN count = 2 ELSE count >= 2)
    <3>1. IsFiniteSet(Agreeing(p, <<r, r, r>>, i))
      <4>1. Agreeing(p, <<r, r, r>>, i) \subseteq 1 .. 3
        BY DEF Agreeing
      <4>2. IsFiniteSet(1 .. 3)
        <5>1. 1 \in Int /\ 3 \in Int
          OBVIOUS
        <5> QED  BY <5>1, FS_Interval
      <4> QED  BY <4>1, <4>2, FS_Subset
    <3>2. Cardinality(Agreeing(p, <<r, r, r>>, i)) \in Nat
      BY <3>1, FS_CardinalityType
    <3> QED  BY <2>1, <3>2
  <2> QED  BY <2>1 DEF IsWitness
<1> DEFINE A == Agreeing(p, <<r, r, r>>, i)
<1>1. A = {v \in 1 .. 3 : p[r][i] = v}
  <2>1. \A v \in 1 .. 3 : <<r, r, r>>[v] = r
    OBVIOUS
  <2> QED  BY <2>1 DEF Agreeing
<1>2. A = {} \/ A = {p[r][i]}
  BY <1>1
<1> HIDE DEF A
<1>3. Cardinality(A) = 0 \/ Cardinality(A) = 1
  BY <1>2, FS_EmptySet, FS_Singleton
<1> QED  BY <1>3 DEF A

-----------------------------------------------------------------------------
(* The faces of the reference version.                                     *)

\* The number of an edge is its place in the order of the tests.
EdgeNumber(e) == e[1] * S + e[2]

LEMMA EdgeNumbers ==
  ASSUME NEW n \in 0 .. S * S - 1
  PROVE  /\ n \div S \in Rows /\ n % S \in Rows
         /\ EdgeNumber(<<n \div S, n % S>>) = n
         /\ \A a, b \in Rows : EdgeNumber(<<a, b>>) = n => a = n \div S /\ b = n % S
<1>1. S \in Nat /\ S > 0 /\ n \in Nat /\ n < S * S
  BY SizeAssumption
<1>2. PICK q, r : q = n \div S /\ r = n % S
  OBVIOUS
<1>3. q \in Int /\ r \in 0 .. S - 1 /\ n = S * q + r
  BY <1>1, <1>2
<1>4. q >= 0
  <2> SUFFICES ASSUME q <= -1 PROVE FALSE
    BY <1>3
  <2>1. S * q <= S * (-1)
    BY <1>1, <1>3
  <2> QED  BY <2>1, <1>1, <1>3
<1>5. q < S
  <2> SUFFICES ASSUME q >= S PROVE FALSE
    BY <1>1, <1>3
  <2>1. S * q >= S * S
    BY <1>1, <1>3
  <2> QED  BY <2>1, <1>1, <1>3
<1>6. ASSUME NEW a \in Rows, NEW b \in Rows, a * S + b = n
      PROVE  a = q /\ b = r
  <2>1. a \in Int /\ b \in 0 .. S - 1 /\ a * S = S * a
    BY <1>1 DEF Rows
  <2>2. S * (a - q) = r - b
    BY <2>1, <1>1, <1>3, <1>6
  <2>3. ~(a - q >= 1)
    <3> SUFFICES ASSUME a - q >= 1 PROVE FALSE
      OBVIOUS
    <3>1. S * (a - q) >= S * 1
      BY <2>1, <1>1, <1>3
    <3> QED  BY <3>1, <2>1, <2>2, <1>1, <1>3
  <2>4. ~(a - q <= -1)
    <3> SUFFICES ASSUME a - q <= -1 PROVE FALSE
      OBVIOUS
    <3>1. S * (a - q) <= S * (-1)
      BY <2>1, <1>1, <1>3
    <3> QED  BY <3>1, <2>1, <2>2, <1>1, <1>3
  <2>5. a = q
    BY <2>1, <2>3, <2>4, <1>3
  <2> QED  BY <2>1, <2>2, <2>5, <1>1, <1>3
<1>7. q \in Rows /\ r \in Rows /\ q * S + r = n
  BY <1>1, <1>3, <1>4, <1>5 DEF Rows
<1> QED  BY <1>2, <1>6, <1>7 DEF EdgeNumber

LEMMA EdgeNumberBound ==
  ASSUME NEW a \in Rows, NEW b \in Rows
  PROVE  EdgeNumber(<<a, b>>) \in 0 .. S * S - 1
<1>1. S \in Nat /\ S > 0 /\ a \in 0 .. S - 1 /\ b \in 0 .. S - 1
  BY SizeAssumption DEF Rows
<1>2. a * S <= (S - 1) * S /\ a * S >= 0 /\ (S - 1) * S = S * S - S /\ S * S \in Nat
  BY <1>1
<1>3. a * S \in Nat
  BY <1>1
<1>4. a * S + b >= 0 /\ a * S + b <= S * S - 1 /\ a * S + b \in Int
  BY <1>1, <1>2, <1>3
<1> QED  BY <1>2, <1>4 DEF EdgeNumber

\* In the middle of a face the projection is that of what is left of the
\* instance, and the edges already tested are within components of it.
SlowInv ==
  /\ slowTdm \subseteq Cells
  /\ Diagonal \subseteq slowTdm
  /\ slowIter \in Nat
  /\ slowNoChange \in 0 .. 3
  /\ changed \in BOOLEAN
  /\ at \in -1 .. S * S
  /\ at = -1 => ~changed
  /\ at # -1 => /\ slowNoChange < 3
                /\ projection = Projection(slowTdm, SlowFace)
                /\ \A a, b \in Rows : <<a, b>> \in projection /\ EdgeNumber(<<a, b>>) < at
                                        => SameScc(projection, a, b)

LEMMA DiagonalShows ==
  ASSUME NEW T, Diagonal \subseteq T, NEW f \in Faces, NEW r \in Rows
  PROVE  <<r, r>> \in Projection(T, f)
<1>1. <<r, r, r>> \in T
  BY DEF Diagonal
<1>2. Edge(f, <<r, r, r>>) = <<r, r>>
  BY DEF Edge
<1> QED  BY <1>1, <1>2 DEF Projection

LEMMA ProjectionType ==
  ASSUME NEW T \in SUBSET Cells, NEW f
  PROVE  Projection(T, f) \in SUBSET (Rows \X Rows)
BY EdgeIsPair DEF Projection

\* A test removes an edge between components with its cells, or nothing, and
\* leaves what the whole face keeps.
LEMMA TestEdgeEffect ==
  ASSUME SlowInv, TestEdge
  PROVE  LET e == <<at \div S, at % S>>
             removed == e[1] # e[2] /\ e \in projection /\ ~SameScc(projection, e[1], e[2])
         IN  /\ at \in 0 .. S * S - 1 /\ at' = at + 1 /\ slowIter' = slowIter
             /\ slowNoChange' = slowNoChange /\ input' = input
             /\ removed => /\ projection' = projection \ {e}
                           /\ slowTdm' = {c \in slowTdm : Edge(SlowFace, c) # e}
                           /\ changed' = TRUE
             /\ ~removed => UNCHANGED <<projection, slowTdm, changed>>
<1> DEFINE e == <<at \div S, at % S>>
<1>0. at \in 0 .. S * S - 1
  BY DEF TestEdge
<1>1. e[1] \in Rows /\ e[2] \in Rows /\ e = <<e[1], e[2]>>
  BY <1>0, EdgeNumbers
<1>2. SlowFace \in Faces
  BY DEF SlowInv, SlowFace, Faces
<1>3. projection = Projection(slowTdm, SlowFace) /\ Diagonal \subseteq slowTdm
      /\ slowTdm \in SUBSET Cells
  BY <1>0 DEF SlowInv
<1>4. projection \in SUBSET (Rows \X Rows) /\ \A r \in Rows : <<r, r>> \in projection
  BY <1>2, <1>3, ProjectionType, DiagonalShows
<1>5. e \in projection => (IsPresent(e) <=> SameScc(projection, e[1], e[2]))
  <2> HIDE DEF e
  <2>1. e \in projection => (Uses(projection, <<e[1], e[2]>>) <=> SameScc(projection, e[1], e[2]))
    BY <1>1, <1>4, UsedWithinComponent
  <2>2. Uses(projection, <<e[1], e[2]>>) <=> IsPresent(e)
    BY DEF Uses, IsPresent
  <2> QED  BY <2>1, <2>2
<1> QED  BY <1>0, <1>5 DEF TestEdge

\* What a face keeps is not changed by removing one edge between components.
LEMMA KeepAfterRemoval ==
  ASSUME NEW T \in SUBSET Cells, NEW f \in Faces,
         NEW x \in Rows, NEW y \in Rows, <<x, y>> \in Projection(T, f),
         ~SameScc(Projection(T, f), x, y)
  PROVE  LET U == {c \in T : Edge(f, c) # <<x, y>>}
         IN  /\ Projection(U, f) = Projection(T, f) \ {<<x, y>>}
             /\ Keep(U, f) = Keep(T, f)
             /\ Keep(T, f) # T
<1> DEFINE U == {c \in T : Edge(f, c) # <<x, y>>}
           E == Projection(T, f)
<1>1. Projection(U, f) = E \ {<<x, y>>}
  BY DEF Projection
<1>2. E \in SUBSET (Rows \X Rows)
  BY ProjectionType
<1>3. ASSUME NEW c \in T
      PROVE  /\ Edge(f, c)[1] \in Rows /\ Edge(f, c)[2] \in Rows
             /\ <<Edge(f, c)[1], Edge(f, c)[2]>> = Edge(f, c)
  BY EdgeIsPair
<1> HIDE DEF E
<1>4. ASSUME NEW c \in T
      PROVE  c \in Keep(U, f) <=> c \in Keep(T, f)
  <2>0. c \in U <=> Edge(f, c) # <<x, y>>
    OBVIOUS
  <2>1. c \in Keep(T, f) <=> SameScc(E, Edge(f, c)[1], Edge(f, c)[2])
    BY DEF Keep, E
  <2>2. c \in Keep(U, f) <=> c \in U /\ SameScc(E \ {<<x, y>>}, Edge(f, c)[1], Edge(f, c)[2])
    <3> HIDE DEF U
    <3> QED  BY <1>1 DEF Keep
  <2>3. SameScc(E \ {<<x, y>>}, Edge(f, c)[1], Edge(f, c)[2])
          <=> SameScc(E, Edge(f, c)[1], Edge(f, c)[2])
    BY <1>2, <1>3, ComponentsKept DEF E
  <2>4. Edge(f, c) = <<x, y>> => ~SameScc(E, Edge(f, c)[1], Edge(f, c)[2])
    BY DEF E
  <2> HIDE DEF U
  <2> QED  BY <2>0, <2>1, <2>2, <2>3, <2>4
<1>5. Keep(U, f) \subseteq T /\ Keep(T, f) \subseteq T
  BY KeepSubset
<1>6. Keep(T, f) # T
  <2>1. PICK c \in T : Edge(f, c) = <<x, y>>
    BY DEF Projection
  <2>2. c \notin Keep(T, f)
    BY <2>1 DEF Keep
  <2> QED  BY <2>2
<1>7. Keep(U, f) = Keep(T, f)
  <2> HIDE DEF U
  <2> QED  BY <1>4, <1>5
<1> QED  BY <1>1, <1>6, <1>7 DEF E

LEMMA InitSlowInv == SlowInit => SlowInv
<1> SUFFICES ASSUME SlowInit PROVE SlowInv
  OBVIOUS
<1>1. -1 \in -1 .. S * S
  BY SizeAssumption
<1>2. Diagonal \subseteq input /\ input \subseteq Cells
  BY InputsAssumption DEF SlowInit
<1>3. at = -1 /\ changed = FALSE /\ slowTdm = input /\ slowIter = 0 /\ slowNoChange = 0
  BY DEF SlowInit
<1>4. at \in -1 .. S * S /\ (at = -1 => ~changed) /\ changed \in BOOLEAN
  BY <1>1, <1>3
<1> QED  BY <1>2, <1>3, <1>4 DEF SlowInv

\* The diagonal survives any removal of edges between different rows.
LEMMA TestEdgeInv == SlowInv /\ TestEdge => SlowInv'
<1> SUFFICES ASSUME SlowInv, TestEdge PROVE SlowInv'
  OBVIOUS
<1> DEFINE e == <<at \div S, at % S>>
           removed == e[1] # e[2] /\ e \in projection /\ ~SameScc(projection, e[1], e[2])
<1>1. /\ at \in 0 .. S * S - 1 /\ at' = at + 1 /\ slowIter' = slowIter
      /\ slowNoChange' = slowNoChange
      /\ removed => /\ projection' = projection \ {e}
                    /\ slowTdm' = {c \in slowTdm : Edge(SlowFace, c) # e}
                    /\ changed' = TRUE
      /\ ~removed => UNCHANGED <<projection, slowTdm, changed>>
  BY TestEdgeEffect
<1>2. /\ e[1] \in Rows /\ e[2] \in Rows /\ e = <<e[1], e[2]>>
      /\ \A a, b \in Rows : EdgeNumber(<<a, b>>) = at => <<a, b>> = e
  BY <1>1, EdgeNumbers
<1>3. /\ slowTdm \in SUBSET Cells /\ Diagonal \subseteq slowTdm /\ slowIter \in Nat
      /\ slowNoChange \in 0 .. 2 /\ changed \in BOOLEAN
      /\ projection = Projection(slowTdm, SlowFace)
      /\ \A a, b \in Rows : <<a, b>> \in projection /\ EdgeNumber(<<a, b>>) < at
                              => SameScc(projection, a, b)
  BY <1>1 DEF SlowInv
<1>4. SlowFace' = SlowFace /\ SlowFace \in Faces
  BY <1>1, <1>3 DEF SlowFace, Faces
<1>5. projection \in SUBSET (Rows \X Rows)
  BY <1>3, ProjectionType
<1>n. ASSUME NEW a \in Rows, NEW b \in Rows, EdgeNumber(<<a, b>>) < at + 1, <<a, b>> # e
      PROVE  EdgeNumber(<<a, b>>) < at
  <2>1. PICK k : k = EdgeNumber(<<a, b>>)
    OBVIOUS
  <2>2. k \in Nat /\ k # at /\ k < at + 1
    BY <2>1, <1>2, <1>n, EdgeNumberBound
  <2> QED  BY <2>1, <2>2, <1>1
<1>a. at' \in -1 .. S * S /\ at' # -1
  BY <1>1, SizeAssumption
<1> HIDE DEF e
<1>6. CASE removed
  <2>1. /\ projection' = projection \ {e} /\ changed' = TRUE
        /\ slowTdm' = {c \in slowTdm : Edge(SlowFace, c) # e}
    BY <1>1, <1>6
  <2>2. projection' = Projection(slowTdm', SlowFace)
    BY <2>1, <1>2, <1>3, <1>4, <1>6, KeepAfterRemoval
  <2>3. Diagonal \subseteq slowTdm'
    <3> SUFFICES ASSUME NEW r \in Rows PROVE Edge(SlowFace, <<r, r, r>>) # e
      BY <2>1, <1>3 DEF Diagonal
    <3>1. Edge(SlowFace, <<r, r, r>>) = <<r, r>>
      BY DEF Edge
    <3> QED  BY <3>1, <1>2, <1>6
  <2>4. ASSUME NEW a \in Rows, NEW b \in Rows, <<a, b>> \in projection',
               EdgeNumber(<<a, b>>) < at'
        PROVE  SameScc(projection', a, b)
    <3>1. <<a, b>> \in projection /\ <<a, b>> # e
      BY <2>1, <2>4
    <3>2. EdgeNumber(<<a, b>>) < at
      BY <3>1, <2>4, <1>1, <1>n
    <3>3. SameScc(projection, a, b)
      BY <3>1, <3>2, <1>3
    <3> QED  BY <3>3, <2>1, <1>2, <1>5, <1>6, ComponentsKept
  <2>5. slowTdm' \subseteq Cells /\ changed' \in BOOLEAN
    BY <2>1, <1>3
  <2>6. \A a, b \in Rows : <<a, b>> \in projection' /\ EdgeNumber(<<a, b>>) < at'
                             => SameScc(projection', a, b)
    BY <2>4
  <2>7. slowIter' \in Nat /\ slowNoChange' \in 0 .. 3 /\ slowNoChange' < 3
    BY <1>1, <1>3
  <2> QED  BY <2>2, <2>3, <2>5, <2>6, <2>7, <1>4, <1>a DEF SlowInv
<1>7. CASE ~removed
  <2>1. UNCHANGED <<projection, slowTdm, changed>>
    BY <1>1, <1>7
  <2>2. ASSUME NEW a \in Rows, NEW b \in Rows, <<a, b>> \in projection,
               EdgeNumber(<<a, b>>) < at + 1
        PROVE  SameScc(projection, a, b)
    <3>1. CASE <<a, b>> = e
      <4>1. a = e[1] /\ b = e[2]
        BY <3>1
      <4> QED  BY <4>1, <3>1, <2>2, <1>7, SccEquivalence
    <3>2. CASE <<a, b>> # e
      BY <3>2, <2>2, <1>3, <1>n
    <3> QED  BY <3>1, <3>2
  <2> QED  BY <2>1, <2>2, <1>1, <1>3, <1>4, <1>a DEF SlowInv
<1> QED  BY <1>6, <1>7

LEMMA ProjectFaceInv == SlowInv /\ ProjectFace => SlowInv'
<1> SUFFICES ASSUME SlowInv, ProjectFace PROVE SlowInv'
  OBVIOUS
<1>1. /\ slowNoChange < 3 /\ at' = 0 /\ changed' = FALSE
      /\ projection' = Projection(slowTdm, SlowFace)
      /\ slowTdm' = slowTdm /\ slowIter' = slowIter /\ slowNoChange' = slowNoChange
  BY DEF ProjectFace
<1>2. 0 \in -1 .. S * S
  BY SizeAssumption
<1>3. SlowFace' = SlowFace
  BY <1>1 DEF SlowFace
<1>4. ASSUME NEW a \in Rows, NEW b \in Rows
      PROVE  ~(EdgeNumber(<<a, b>>) < 0)
  <2>1. PICK k : k = EdgeNumber(<<a, b>>)
    OBVIOUS
  <2>2. k \in 0 .. S * S - 1
    BY <2>1, EdgeNumberBound
  <2>3. ~(k < 0)
    BY <2>2
  <2> QED  BY <2>1, <2>3
<1>5. \A a, b \in Rows : <<a, b>> \in projection' /\ EdgeNumber(<<a, b>>) < at'
                           => SameScc(projection', a, b)
  BY <1>1, <1>4
<1>6. at' \in -1 .. S * S
  BY <1>1, <1>2
<1>7. slowTdm' \subseteq Cells /\ Diagonal \subseteq slowTdm' /\ slowIter' \in Nat
      /\ slowNoChange' \in 0 .. 3
  BY <1>1 DEF SlowInv
<1>8. at' # -1
  BY <1>1
<1>9. changed' \in BOOLEAN
  BY <1>1
<1> QED  BY <1>1, <1>3, <1>5, <1>6, <1>7, <1>8, <1>9 DEF SlowInv

LEMMA EndFaceInv == SlowInv /\ EndFace => SlowInv'
<1> SUFFICES ASSUME SlowInv, EndFace PROVE SlowInv'
  OBVIOUS
<1>1. S * S # -1 /\ -1 \in -1 .. S * S
  BY SizeAssumption
<1>2. at = S * S /\ at' = -1 /\ changed' = FALSE /\ slowTdm' = slowTdm
      /\ slowIter' = slowIter + 1
      /\ slowNoChange' = IF changed THEN 0 ELSE slowNoChange + 1
  BY DEF EndFace
<1>3. slowNoChange < 3 /\ slowNoChange \in 0 .. 3 /\ slowIter \in Nat
      /\ slowTdm \subseteq Cells /\ Diagonal \subseteq slowTdm
  BY <1>1, <1>2 DEF SlowInv
<1>4. slowNoChange' \in 0 .. 3 /\ slowIter' \in Nat
  BY <1>2, <1>3
<1>5. at' \in -1 .. S * S
  BY <1>1, <1>2
<1> QED  BY <1>2, <1>3, <1>4, <1>5 DEF SlowInv

LEMMA NextSlowInv == SlowInv /\ [SlowNext]_slowVars => SlowInv'
<1> SUFFICES ASSUME SlowInv, [SlowNext]_slowVars PROVE SlowInv'
  OBVIOUS
<1>1. CASE UNCHANGED slowVars
  BY <1>1 DEF SlowInv, SlowFace, slowVars
<1> QED  BY <1>1, ProjectFaceInv, TestEdgeInv, EndFaceInv DEF SlowNext

\* The reference version never loses the diagonal, and what it projects is the
\* projection of what is left.
THEOREM ReferenceSound == SlowSpec => []SlowInv
<1> QED  BY InitSlowInv, NextSlowInv, PTL DEF SlowSpec

-----------------------------------------------------------------------------
(* The reference version implements the loop of TdmSimplify: the step that *)
(* simplifies the face is the projection, and the tests that follow only   *)
(* carry it out.                                                           *)

LEMMA SlowLoopKeep ==
  ASSUME NEW T, NEW f
  PROVE  SlowLoop!Keep(T, f) = Keep(T, f)
BY DEF SlowLoop!Keep, Keep, SlowLoop!Projection, Projection, SlowLoop!SameScc, SameScc,
       SlowLoop!Reaches, Reaches, SlowLoop!IsClosed, IsClosed, SlowLoop!Edge, Edge,
       SlowLoop!Rows, Rows

LEMMA SlowLoopInit == SlowInit => SlowLoop!Init
BY DEF SlowInit, SlowLoop!Init, Rest

\* At the end of a face nothing is left to remove.
LEMMA FaceFinished ==
  ASSUME SlowInv, at = S * S
  PROVE  Keep(slowTdm, SlowFace) = slowTdm
<1>1. at # -1
  BY SizeAssumption
<1>2. /\ projection = Projection(slowTdm, SlowFace) /\ slowTdm \in SUBSET Cells
      /\ \A a, b \in Rows : <<a, b>> \in projection /\ EdgeNumber(<<a, b>>) < at
                              => SameScc(projection, a, b)
  BY <1>1 DEF SlowInv
<1>3. ASSUME NEW c \in slowTdm
      PROVE  SameScc(projection, Edge(SlowFace, c)[1], Edge(SlowFace, c)[2])
  <2>1. PICK a \in Rows, b \in Rows : Edge(SlowFace, c) = <<a, b>>
    BY <1>2, EdgeIsPair
  <2>2. <<a, b>> \in projection
    BY <1>2, <2>1 DEF Projection
  <2>3. PICK k : k = EdgeNumber(<<a, b>>)
    OBVIOUS
  <2>4. k < at
    <3>1. k \in 0 .. S * S - 1 /\ S \in Nat
      BY <2>3, EdgeNumberBound, SizeAssumption
    <3>2. S * S \in Nat
      BY <3>1
    <3> QED  BY <3>1, <3>2
  <2> QED  BY <1>2, <2>1, <2>2, <2>3, <2>4
<1> QED  BY <1>2, <1>3 DEF Keep

LEMMA ProjectFaceSimplifies ==
  ASSUME SlowInv, ProjectFace
  PROVE  SlowLoop!SimplifyFace
<1>1. /\ at = -1 /\ at' = 0 /\ at' # -1 /\ slowNoChange < 3 /\ changed' = FALSE
      /\ slowTdm' = slowTdm /\ slowIter' = slowIter /\ slowNoChange' = slowNoChange
      /\ input' = input
  BY DEF ProjectFace
<1>2. Rest = slowTdm /\ Rest' = Keep(slowTdm, SlowFace)
  BY <1>1 DEF Rest, SlowFace
<1>3. Rest' = SlowLoop!Keep(Rest, slowIter % 3)
  BY <1>2, SlowLoopKeep DEF SlowFace
<1> QED  BY <1>1, <1>2, <1>3 DEF SlowLoop!SimplifyFace

LEMMA TestEdgeStutters ==
  ASSUME SlowInv, TestEdge
  PROVE  UNCHANGED SlowLoop!vars
<1> DEFINE e == <<at \div S, at % S>>
           removed == e[1] # e[2] /\ e \in projection /\ ~SameScc(projection, e[1], e[2])
<1>1. /\ at \in 0 .. S * S - 1 /\ at' = at + 1 /\ slowIter' = slowIter
      /\ slowNoChange' = slowNoChange /\ input' = input
      /\ removed => /\ projection' = projection \ {e}
                    /\ slowTdm' = {c \in slowTdm : Edge(SlowFace, c) # e}
                    /\ changed' = TRUE
      /\ ~removed => UNCHANGED <<projection, slowTdm, changed>>
  BY TestEdgeEffect
<1>2. at # -1 /\ at' # -1
  BY <1>1
<1>3. e[1] \in Rows /\ e[2] \in Rows /\ e = <<e[1], e[2]>>
  BY <1>1, EdgeNumbers
<1>4. slowTdm \in SUBSET Cells /\ slowIter \in Nat /\ projection = Projection(slowTdm, SlowFace)
  BY <1>1 DEF SlowInv
<1>5. SlowFace' = SlowFace /\ SlowFace \in Faces
  BY <1>1, <1>4 DEF SlowFace, Faces
<1>6. Rest = Keep(slowTdm, SlowFace) /\ Rest' = Keep(slowTdm', SlowFace)
  BY <1>2, <1>5 DEF Rest
<1> HIDE DEF e
<1>7. CASE removed
  <2>1. slowTdm' = {c \in slowTdm : Edge(SlowFace, c) # e} /\ changed' = TRUE
    BY <1>1, <1>7
  <2>2. Keep(slowTdm', SlowFace) = Keep(slowTdm, SlowFace) /\ Keep(slowTdm, SlowFace) # slowTdm
    BY <2>1, <1>3, <1>4, <1>5, <1>7, KeepAfterRemoval
  <2>3. Rest' = Rest /\ Rest # slowTdm
    BY <2>2, <1>6
  <2> QED  BY <2>1, <2>3, <1>1, <1>2 DEF SlowLoop!vars
<1>8. CASE ~removed
  <2>1. UNCHANGED <<projection, slowTdm, changed>>
    BY <1>1, <1>8
  <2>2. Rest' = Rest
    BY <2>1, <1>6
  <2> QED  BY <2>1, <2>2, <1>1, <1>2 DEF SlowLoop!vars
<1> QED  BY <1>7, <1>8

LEMMA EndFaceStutters ==
  ASSUME SlowInv, EndFace
  PROVE  UNCHANGED SlowLoop!vars
<1>1. /\ at = S * S /\ at' = -1 /\ changed' = FALSE /\ slowTdm' = slowTdm
      /\ slowIter' = slowIter + 1 /\ input' = input
      /\ slowNoChange' = IF changed THEN 0 ELSE slowNoChange + 1
  BY DEF EndFace
<1>2. at # -1
  BY <1>1, SizeAssumption
<1>3. Rest = slowTdm /\ Rest' = slowTdm
  BY <1>1, <1>2, FaceFinished DEF Rest
<1> QED  BY <1>1, <1>2, <1>3 DEF SlowLoop!vars

\* Removing the edges without a perfect matching one by one, each on what is
\* left, computes what removing all edges between components at once does.
THEOREM ReferenceImplementsLoop == SlowSpec => SlowImplementsLoop
<1>1. SlowInit => SlowLoop!Init
  BY SlowLoopInit
<1>2. SlowInv /\ [SlowNext]_slowVars => [SlowLoop!Next]_(SlowLoop!vars)
  <2> SUFFICES ASSUME SlowInv, [SlowNext]_slowVars
               PROVE  SlowLoop!Next \/ UNCHANGED SlowLoop!vars
    OBVIOUS
  <2>1. CASE ProjectFace
    BY <2>1, ProjectFaceSimplifies DEF SlowLoop!Next
  <2>2. CASE TestEdge
    BY <2>2, TestEdgeStutters
  <2>3. CASE EndFace
    BY <2>3, EndFaceStutters
  <2>4. CASE UNCHANGED slowVars
    BY <2>4 DEF slowVars, SlowLoop!vars, Rest, SlowFace
  <2> QED  BY <2>1, <2>2, <2>3, <2>4 DEF SlowNext
<1> QED  BY <1>1, <1>2, ReferenceSound, PTL DEF SlowSpec, SlowImplementsLoop, SlowLoop!Spec
-----------------------------------------------------------------------------
(* The versions side by side.                                              *)

\* Both simplify_cpu, with the counts and lists it maintains, and
\* simplify_cpu_slow, edge by edge, go through the loop of TdmSimplify.
THEOREM VersionsFollowLoop == CpuSpec /\ SlowSpec => VersionsImplementLoop
BY IncrementalImplementsLoop, ReferenceImplementsLoop DEF VersionsImplementLoop

\* T is where the loop is after n faces, the last k of them without effect, and
\* the cap has not been passed.
Place(given, T, n, k) ==
  /\ given \in SUBSET Cells
  /\ n \in Nat /\ n <= 3 * S * S
  /\ k \in 0 .. 3
  /\ k < 3 => n < 3 * S * S
  /\ TrialOK(given, T, n, k)

LEMMA PlaceStarts ==
  ASSUME NEW given \in SUBSET Cells
  PROVE  Place(given, given, 0, 0)
<1>1. 0 < 3 * S * S /\ 0 <= 3 * S * S
  <2>1. PICK cap \in Nat : cap = 3 * S * S /\ 0 < cap
    BY CapPositive DEF MaxIter
  <2> QED  BY <2>1
<1>2. TrialOK(given, given, 0, 0)
  BY TrialStarts
<1> QED  BY <1>1, <1>2 DEF Place

LEMMA PlaceStep ==
  ASSUME NEW given, NEW T, NEW n, NEW k, Place(given, T, n, k), k < 3,
         NEW U, U = Keep(T, n % 3), NEW l, l = IF U = T THEN k + 1 ELSE 0
  PROVE  Place(given, U, n + 1, l)
<1>1. given \in SUBSET Cells /\ n \in Nat /\ k \in 0 .. 2 /\ l \in 0 .. 3
  BY DEF Place
<1>2. TrialOK(given, U, n + 1, l) /\ (l < 3 => n + 1 < 3 * S * S)
  BY <1>1, TrialStep DEF Place
<1>3. n + 1 \in Nat /\ n + 1 <= 3 * S * S
  <2>1. PICK cap \in Nat : cap = 3 * S * S
    BY CapPositive DEF MaxIter
  <2>2. n < cap
    BY <2>1 DEF Place
  <2> QED  BY <1>1, <2>1, <2>2
<1> QED  BY <1>1, <1>2, <1>3 DEF Place

\* Whoever stops has the same instance, however many faces it took.
LEMMA TrialsAgree ==
  ASSUME NEW given \in SUBSET Cells, NEW T, NEW U, NEW m \in Nat, NEW n \in Nat,
         TrialOK(given, T, m, 3), TrialOK(given, U, n, 3)
  PROVE  T = U
<1>1. T = AfterFaces(given, m) /\ U = AfterFaces(given, n) /\ Stable(T) /\ Stable(U)
  BY DEF TrialOK
<1>2. CASE m <= n
  BY <1>1, <1>2, AfterFacesStable
<1>3. CASE n <= m
  BY <1>1, <1>3, AfterFacesStable
<1> QED  BY <1>2, <1>3

LoopPlaced == Place(input, tdm, iter, noChange)

CpuPlaced ==
  /\ CpuInv
  /\ todo # {} => cpuNoChange < 3
  /\ Place(input, CpuRest, IF todo = {} THEN cpuIter ELSE cpuIter + 1,
           IF todo = {} THEN cpuNoChange ELSE 0)

SlowPlaced ==
  /\ SlowInv
  /\ Place(input, Rest, IF at = -1 THEN slowIter ELSE slowIter + 1,
           IF at = -1 THEN slowNoChange
           ELSE IF changed \/ Rest # slowTdm THEN 0 ELSE slowNoChange + 1)

LEMMA LoopStaysPlaced == Spec => []LoopPlaced
<1>1. Init => LoopPlaced
  BY PlaceStarts, InputsAssumption DEF Init, LoopPlaced
<1>2. LoopPlaced /\ [Next]_vars => LoopPlaced'
  <2>1. LoopPlaced /\ SimplifyFace => LoopPlaced'
    BY PlaceStep DEF LoopPlaced, SimplifyFace
  <2>2. LoopPlaced /\ UNCHANGED vars => LoopPlaced'
    BY DEF LoopPlaced, vars
  <2> QED  BY <2>1, <2>2 DEF Next
<1> QED  BY <1>1, <1>2, PTL DEF Spec

LEMMA CpuStaysPlaced == CpuSpec => []CpuPlaced
<1>1. CpuInit => CpuPlaced
  <2> SUFFICES ASSUME CpuInit PROVE CpuPlaced
    OBVIOUS
  <2>1. /\ input \in SUBSET Cells /\ cpuIter = 0 /\ cpuNoChange = 0 /\ todo = {}
        /\ CpuRest = input
    BY InputsAssumption DEF CpuInit, CpuRest
  <2>2. Place(input, CpuRest, 0, 0)
    BY <2>1, PlaceStarts
  <2> QED  BY <2>1, <2>2, InitCpuInv DEF CpuPlaced
<1>2. CpuPlaced /\ [CpuNext]_cpuVars => CpuPlaced'
  <2> SUFFICES ASSUME CpuPlaced, [CpuNext]_cpuVars PROVE CpuPlaced'
    OBVIOUS
  <2>1. CpuInv /\ CpuInv'
    BY NextCpuInv DEF CpuPlaced
  <2>2. ASSUME CpuLoop!SimplifyFace
        PROVE  Place(input, CpuRest, IF todo = {} THEN cpuIter ELSE cpuIter + 1,
                     IF todo = {} THEN cpuNoChange ELSE 0)'
    <3> DEFINE n == IF todo = {} THEN cpuIter ELSE cpuIter + 1
               k == IF todo = {} THEN cpuNoChange ELSE 0
    <3>1. /\ k < 3 /\ n' = n + 1 /\ input' = input
          /\ CpuRest' = CpuLoop!Keep(CpuRest, n % 3)
          /\ k' = IF CpuRest' = CpuRest THEN k + 1 ELSE 0
      BY <2>2 DEF CpuLoop!SimplifyFace, CpuRest
    <3>2. CpuRest' = Keep(CpuRest, n % 3)
      BY <3>1, CpuLoopKeep
    <3>3. Place(input, CpuRest, n, k)
      BY DEF CpuPlaced
    <3> HIDE DEF n, k
    <3>4. Place(input, CpuRest', n', k')
      BY <3>1, <3>2, <3>3, PlaceStep
    <3> QED  BY <3>1, <3>4 DEF n, k
  <2>3. ASSUME UNCHANGED CpuLoop!vars
        PROVE  Place(input, CpuRest, IF todo = {} THEN cpuIter ELSE cpuIter + 1,
                     IF todo = {} THEN cpuNoChange ELSE 0)'
    BY <2>3 DEF CpuPlaced, CpuLoop!vars, CpuRest
  <2>4. CASE IdleFace
    <3>1. todo' = {}
      BY <2>4 DEF IdleFace
    <3> QED  BY <2>1, <2>2, <2>4, <3>1, IdleFaceSimplifies DEF CpuPlaced
  <2>5. CASE BeginFace
    <3>1. cpuNoChange < 3 /\ cpuNoChange' = cpuNoChange
      BY <2>5 DEF BeginFace
    <3> QED  BY <2>1, <2>2, <2>5, <3>1, BeginFaceSimplifies DEF CpuPlaced
  <2>6. ASSUME NEW e \in Nodes, RemoveEdge(e)
        PROVE  CpuPlaced'
    <3>1. todo # {} /\ (todo' # {} => cpuNoChange' = cpuNoChange)
      BY <2>1, <2>6, RemoveEdgeInv
    <3>2. todo' # {} => cpuNoChange' < 3
      BY <3>1 DEF CpuPlaced
    <3> QED  BY <2>1, <2>3, <2>6, <3>2, RemoveEdgeStutters DEF CpuPlaced
  <2>7. CASE UNCHANGED cpuVars
    <3>1. UNCHANGED CpuLoop!vars /\ UNCHANGED <<todo, cpuNoChange>>
      BY <2>7 DEF cpuVars, CpuLoop!vars, CpuFace
    <3> QED  BY <2>1, <2>3, <3>1 DEF CpuPlaced
  <2> QED  BY <2>4, <2>5, <2>6, <2>7 DEF CpuNext
<1> QED  BY <1>1, <1>2, PTL DEF CpuSpec

LEMMA SlowStaysPlaced == SlowSpec => []SlowPlaced
<1>1. SlowInit => SlowPlaced
  <2> SUFFICES ASSUME SlowInit PROVE SlowPlaced
    OBVIOUS
  <2>1. /\ input \in SUBSET Cells /\ slowIter = 0 /\ slowNoChange = 0 /\ at = -1
        /\ Rest = input
    BY InputsAssumption DEF SlowInit, Rest
  <2>2. Place(input, Rest, 0, 0)
    BY <2>1, PlaceStarts
  <2> QED  BY <2>1, <2>2, InitSlowInv DEF SlowPlaced
<1>2. SlowPlaced /\ [SlowNext]_slowVars => SlowPlaced'
  <2> SUFFICES ASSUME SlowPlaced, [SlowNext]_slowVars PROVE SlowPlaced'
    OBVIOUS
  <2> DEFINE n == IF at = -1 THEN slowIter ELSE slowIter + 1
             k == IF at = -1 THEN slowNoChange
                  ELSE IF changed \/ Rest # slowTdm THEN 0 ELSE slowNoChange + 1
  <2>1. SlowInv /\ SlowInv'
    BY NextSlowInv DEF SlowPlaced
  <2>2. ASSUME SlowLoop!SimplifyFace
        PROVE  Place(input, Rest, n, k)'
    <3>1. /\ k < 3 /\ n' = n + 1 /\ input' = input
          /\ Rest' = SlowLoop!Keep(Rest, n % 3)
          /\ k' = IF Rest' = Rest THEN k + 1 ELSE 0
      BY <2>2 DEF SlowLoop!SimplifyFace
    <3>2. Rest' = Keep(Rest, n % 3)
      BY <3>1, SlowLoopKeep
    <3>3. Place(input, Rest, n, k)
      BY DEF SlowPlaced
    <3> HIDE DEF n, k
    <3>4. Place(input, Rest', n', k')
      BY <3>1, <3>2, <3>3, PlaceStep
    <3> QED  BY <3>1, <3>4
  <2>3. ASSUME UNCHANGED SlowLoop!vars
        PROVE  Place(input, Rest, n, k)'
    <3>1. Place(input, Rest, n, k)
      BY DEF SlowPlaced
    <3>2. input' = input /\ Rest' = Rest /\ n' = n /\ k' = k
      BY <2>3 DEF SlowLoop!vars
    <3> HIDE DEF n, k
    <3> QED  BY <3>1, <3>2
  <2>4. CASE ProjectFace
    BY <2>1, <2>2, <2>4, ProjectFaceSimplifies DEF SlowPlaced
  <2>5. CASE TestEdge
    BY <2>1, <2>3, <2>5, TestEdgeStutters DEF SlowPlaced
  <2>6. CASE EndFace
    BY <2>1, <2>3, <2>6, EndFaceStutters DEF SlowPlaced
  <2>7. CASE UNCHANGED slowVars
    <3>1. UNCHANGED SlowLoop!vars
      BY <2>7 DEF slowVars, SlowLoop!vars, Rest, SlowFace
    <3> QED  BY <2>1, <2>3, <3>1 DEF SlowPlaced
  <2> QED  BY <2>4, <2>5, <2>6, <2>7 DEF SlowNext
<1> QED  BY <1>1, <1>2, PTL DEF SlowSpec

\* What the test suite compares on random puzzles, for every instance: the loop,
\* simplify_cpu, simplify_cpu_slow and every trial of a batch that was given the
\* instance end with the same entries, within the cap of 3 * s * s faces.
THEOREM AllVersionsAgree == Spec /\ CpuSpec /\ SlowSpec /\ GpuSpec => []VersionsAgree
<1>1. LoopPlaced /\ CpuPlaced /\ SlowPlaced /\ GpuInv => VersionsAgree
  <2> SUFFICES ASSUME LoopPlaced, CpuPlaced, SlowPlaced, GpuInv PROVE VersionsAgree
    OBVIOUS
  <2>1. /\ input \in SUBSET Cells /\ iter \in Nat /\ iter <= 3 * S * S
        /\ Done => TrialOK(input, tdm, iter, 3)
    BY DEF LoopPlaced, Place, Done
  <2>2. /\ cpuIter \in Nat /\ cpuIter <= 3 * S * S
        /\ CpuDone => TrialOK(input, cpuTdm, cpuIter, 3)
    <3>1. PICK cap \in Nat : cap = 3 * S * S
      BY CapPositive DEF MaxIter
    <3>2. (IF todo = {} THEN cpuIter ELSE cpuIter + 1) <= cap /\ cpuIter \in Nat
      BY <3>1 DEF CpuPlaced, CpuInv, Place
    <3>3. cpuIter <= cap
      BY <3>1, <3>2
    <3>4. ASSUME CpuDone
          PROVE  TrialOK(input, cpuTdm, cpuIter, 3)
      <4>1. todo = {} /\ CpuRest = cpuTdm
        BY <3>4 DEF CpuDone, CpuPlaced, CpuRest
      <4> QED  BY <4>1, <3>4 DEF CpuDone, CpuPlaced, Place
    <3> QED  BY <3>1, <3>2, <3>3, <3>4
  <2>3. /\ slowIter \in Nat /\ slowIter <= 3 * S * S
        /\ SlowDone => TrialOK(input, slowTdm, slowIter, 3)
    <3>1. PICK cap \in Nat : cap = 3 * S * S
      BY CapPositive DEF MaxIter
    <3>2. (IF at = -1 THEN slowIter ELSE slowIter + 1) <= cap /\ slowIter \in Nat
      BY <3>1 DEF SlowPlaced, SlowInv, Place
    <3>3. slowIter <= cap
      BY <3>1, <3>2
    <3>4. ASSUME SlowDone
          PROVE  TrialOK(input, slowTdm, slowIter, 3)
      <4>1. at = -1 /\ Rest = slowTdm
        BY <3>4 DEF SlowDone, SlowPlaced, SlowInv, Rest
      <4> QED  BY <4>1, <3>4 DEF SlowDone, SlowPlaced, Place
    <3> QED  BY <3>1, <3>2, <3>3, <3>4
  <2>4. Done /\ CpuDone => cpuTdm = tdm
    BY <2>1, <2>2, TrialsAgree
  <2>5. Done /\ SlowDone => slowTdm = tdm
    BY <2>1, <2>3, TrialsAgree
  <2>6. ASSUME Done, host = "done", NEW t \in 1 .. trials, batch[t] = input
        PROVE  devTDM[t] = tdm /\ devResult[t] = Cardinality(tdm)
    <3>1. /\ TrialOK(input, devTDM[t], gpuIter, 3) /\ gpuIter \in Nat
          /\ devResult[t] = Cardinality(devTDM[t])
      BY <2>6 DEF GpuInv, GpuTypes, SettledInv, ResultInv
    <3> QED  BY <2>1, <2>6, <3>1, TrialsAgree
  <2>7. host \in {"sum", "done"} => Live = {}
    BY DEF GpuInv, SettledInv, Live
  <2>8. ProjectionsCurrent
    BY DEF CpuPlaced, CpuInv
  <2> QED  BY <2>1, <2>2, <2>3, <2>4, <2>5, <2>6, <2>7, <2>8 DEF VersionsAgree
<1> QED  BY <1>1, LoopStaysPlaced, CpuStaysPlaced, SlowStaysPlaced, BatchInvariance, PTL

-----------------------------------------------------------------------------
(* The baseline's device code.  First, steps that only add rows come to an *)
(* end.                                                                    *)

Grows(f) == f \in [SUBSET Rows -> SUBSET Rows] /\ \A V \in SUBSET Rows : V \subseteq f[V]

\* g[i] is what i steps of f make of V.
Chain(g, f, V) == g[0] = V /\ \A i \in 0 .. S - 1 : g[i + 1] = f[g[i]]

LEMMA ChainTypes ==
  ASSUME NEW f, Grows(f), NEW V \in SUBSET Rows, NEW g, Chain(g, f, V),
         NEW Q, V \in Q, \A W \in SUBSET Rows : W \in Q => f[W] \in Q,
         NEW n \in 0 .. S
  PROVE  g[n] \in SUBSET Rows /\ g[n] \in Q
<1> DEFINE X == {i \in Nat : i <= S => g[i] \in SUBSET Rows /\ g[i] \in Q}
<1>1. 0 \in X
  BY DEF Chain
<1>2. ASSUME NEW i \in Nat, i \in X
      PROVE  i + 1 \in X
  <2> SUFFICES ASSUME i + 1 <= S
               PROVE  g[i + 1] \in SUBSET Rows /\ g[i + 1] \in Q
    OBVIOUS
  <2>1. i \in 0 .. S - 1 /\ g[i] \in SUBSET Rows /\ g[i] \in Q
    BY <1>2, SizeAssumption
  <2>2. g[i + 1] = f[g[i]]
    BY <2>1 DEF Chain
  <2> QED  BY <2>1, <2>2 DEF Grows
<1>3. n \in X
  <2> HIDE DEF X
  <2> QED  BY <1>1, <1>2, SetInduction, SizeAssumption
<1> QED  BY <1>3, SizeAssumption

\* S steps are enough: each either changes nothing, and neither do the later ones,
\* or adds one of S rows.
LEMMA ChainEnds ==
  ASSUME NEW f, Grows(f), NEW V \in SUBSET Rows, NEW g, Chain(g, f, V)
  PROVE  f[g[S]] = g[S]
<1>t. \A n \in 0 .. S : g[n] \in SUBSET Rows
  <2>1. V \in SUBSET Rows /\ \A W \in SUBSET Rows : W \in SUBSET Rows => f[W] \in SUBSET Rows
    BY DEF Grows
  <2> QED  BY <2>1, ChainTypes
<1>f. \A W \in SUBSET Rows : IsFiniteSet(W) /\ Cardinality(W) \in Nat
  BY RowsFinite, FS_Subset, FS_CardinalityType
<1> DEFINE X == {i \in Nat : i <= S => f[g[i]] = g[i] \/ i <= Cardinality(g[i])}
<1>1. 0 \in X
  <2>1. Cardinality(g[0]) \in Nat
    BY <1>t, <1>f, SizeAssumption
  <2> QED  BY <2>1
<1>2. ASSUME NEW i \in Nat, i \in X
      PROVE  i + 1 \in X
  <2> SUFFICES ASSUME i + 1 <= S, f[g[i + 1]] # g[i + 1]
               PROVE  i + 1 <= Cardinality(g[i + 1])
    OBVIOUS
  <2>1. i \in 0 .. S - 1 /\ i \in 0 .. S /\ i <= S
    BY SizeAssumption
  <2>2. g[i + 1] = f[g[i]] /\ g[i] \in SUBSET Rows /\ g[i + 1] \in SUBSET Rows
    <3>1. g[i + 1] = f[g[i]] /\ g[i] \in SUBSET Rows
      BY <2>1, <1>t DEF Chain
    <3> QED  BY <3>1 DEF Grows
  <2>3. f[g[i]] # g[i]
    BY <2>2
  <2>4. i <= Cardinality(g[i])
    BY <2>1, <2>3, <1>2
  <2>5. g[i] \subseteq g[i + 1] /\ g[i] # g[i + 1]
    BY <2>2, <2>3 DEF Grows
  <2>6. /\ Cardinality(g[i]) <= Cardinality(g[i + 1])
        /\ Cardinality(g[i]) # Cardinality(g[i + 1])
    <3>1. IsFiniteSet(g[i + 1])
      BY <2>2, <1>f
    <3> QED  BY <2>5, <3>1, FS_Subset
  <2>7. Cardinality(g[i]) \in Nat /\ Cardinality(g[i + 1]) \in Nat
    BY <2>2, <1>f
  <2> QED  BY <2>4, <2>6, <2>7
<1>3. S \in X
  <2> HIDE DEF X
  <2> QED  BY <1>1, <1>2, SetInduction, SizeAssumption
<1>4. g[S] \in SUBSET Rows /\ S \in Nat
  BY <1>t, SizeAssumption
<1>5. CASE f[g[S]] = g[S]
  BY <1>5
<1>6. CASE S <= Cardinality(g[S])
  <2>1. Cardinality(Rows) = S /\ IsFiniteSet(Rows)
    <3>1. 0 \in Int /\ S - 1 \in Int
      BY SizeAssumption
    <3>2. Cardinality(0 .. S - 1) = IF 0 > S - 1 THEN 0 ELSE (S - 1) - 0 + 1
      BY <3>1, FS_Interval
    <3> QED  BY <3>2, RowsFinite, SizeAssumption DEF Rows
  <2>2. Cardinality(g[S]) <= S
    BY <2>1, <1>4, FS_Subset
  <2>3. Cardinality(g[S]) = S
    BY <1>4, <1>6, <1>f, <2>2
  <2>4. g[S] = Rows
    BY <2>1, <2>3, <1>4, FS_Subset
  <2>5. Rows \subseteq f[Rows] /\ f[Rows] \in SUBSET Rows
    BY DEF Grows
  <2> QED  BY <2>4, <2>5
<1> QED  BY <1>3, <1>4, <1>5, <1>6

\* A function that is defined along 0 .. S by steps of f is a chain.
LEMMA ChainExists ==
  ASSUME NEW f, Grows(f), NEW V \in SUBSET Rows
  PROVE  \E g \in [0 .. S -> SUBSET Rows] :
           g = [n \in 0 .. S |-> IF n = 0 THEN V ELSE f[g[n - 1]]]
<1> DEFINE step == [x \in (SUBSET Rows) \X Nat |-> f[x[1]]]
<1>1. step \in [(SUBSET Rows) \X Nat -> SUBSET Rows]
  BY DEF Grows
<1>2. \A W \in SUBSET Rows, i \in Nat : step[<<W, i>>] = f[W]
  OBVIOUS
<1> HIDE DEF step
<1>3. PICK g \in [0 .. S -> SUBSET Rows] : Iterates(g, S, V, step)
  BY <1>1, SizeAssumption, IteratesExist
<1>4. ASSUME NEW i \in 0 .. S
      PROVE  (IF i = 0 THEN V ELSE step[<<g[i - 1], i - 1>>])
               = (IF i = 0 THEN V ELSE f[g[i - 1]])
  <2>1. CASE i # 0
    <3>1. i - 1 \in 0 .. S /\ i - 1 \in Nat
      BY <2>1, SizeAssumption
    <3> QED  BY <2>1, <3>1, <1>2
  <2> QED  BY <2>1
<1> QED  BY <1>3, <1>4 DEF Iterates

\* A function defined by a step that is f on sets of rows is a chain of f.
LEMMA ChainOf ==
  ASSUME NEW f, Grows(f), NEW V \in SUBSET Rows, NEW h, h[0] = V,
         \A n \in 0 .. S : n # 0 /\ h[n - 1] \in SUBSET Rows => h[n] = f[h[n - 1]]
  PROVE  Chain(h, f, V)
<1>1. ASSUME NEW n \in 0 .. S - 1, h[n] \in SUBSET Rows
      PROVE  h[n + 1] = f[h[n]]
  <2>1. PICK m : m = n + 1
    OBVIOUS
  <2>2. m \in 0 .. S /\ m # 0 /\ m - 1 = n
    BY <2>1, SizeAssumption
  <2> QED  BY <1>1, <2>1, <2>2
<1> DEFINE X == {n \in Nat : n <= S => h[n] \in SUBSET Rows}
<1>2. 0 \in X
  OBVIOUS
<1>3. ASSUME NEW n \in Nat, n \in X
      PROVE  n + 1 \in X
  <2> SUFFICES ASSUME n + 1 <= S PROVE h[n + 1] \in SUBSET Rows
    OBVIOUS
  <2>1. n \in 0 .. S - 1 /\ h[n] \in SUBSET Rows
    BY <1>3, SizeAssumption
  <2> QED  BY <2>1, <1>1 DEF Grows
<1>4. Nat \subseteq X
  <2> HIDE DEF X
  <2> QED  BY <1>2, <1>3, SetInduction
<1>5. \A n \in 0 .. S : h[n] \in SUBSET Rows
  BY <1>4, SizeAssumption
<1>6. \A n \in 0 .. S - 1 : h[n + 1] = f[h[n]]
  BY <1>1, <1>5, SizeAssumption
<1> QED  BY <1>6 DEF Chain

-----------------------------------------------------------------------------
(* The searches and the trimming.                                          *)

\* W has every row that an edge within a range leads to.
ClosedIn(W, E, r) ==
  /\ W \in SUBSET Rows
  /\ \A u \in W, v \in Rows : <<u, v>> \in E /\ r[u] = r[v] => v \in W

\* W is what a search from V reaches within the ranges r.
Searched(W, V, E, r) ==
  /\ V \subseteq W
  /\ ClosedIn(W, E, r)
  /\ \A Q \in SUBSET Rows : V \subseteq Q /\ ClosedIn(Q, E, r) => W \subseteq Q

LEMMA SpreadGrows ==
  ASSUME NEW E
  PROVE  /\ Grows([V \in SUBSET Rows |-> Spread(V, E)])
         /\ \A V \in SUBSET Rows : Spread(V, E) = V <=> ClosedIn(V, E, baseRanges)
         /\ \A V, Q \in SUBSET Rows : V \subseteq Q /\ ClosedIn(Q, E, baseRanges)
              => Spread(V, E) \subseteq Q
<1>1. Grows([V \in SUBSET Rows |-> Spread(V, E)])
  BY DEF Grows, Spread
<1>2. ASSUME NEW V \in SUBSET Rows
      PROVE  Spread(V, E) = V <=> ClosedIn(V, E, baseRanges)
  <2>1. ASSUME Spread(V, E) = V
        PROVE  ClosedIn(V, E, baseRanges)
    <3> SUFFICES ASSUME NEW u \in V, NEW v \in Rows, <<u, v>> \in E,
                        baseRanges[u] = baseRanges[v], v # u
                 PROVE  v \in V
      BY DEF ClosedIn
    <3>1. v \in Spread(V, E)
      BY DEF Spread, Neighbours, SameRange
    <3> QED  BY <2>1, <3>1
  <2>2. ASSUME ClosedIn(V, E, baseRanges)
        PROVE  Spread(V, E) = V
    BY <2>2 DEF ClosedIn, Spread, Neighbours, SameRange
  <2> QED  BY <2>1, <2>2
<1>3. ASSUME NEW V \in SUBSET Rows, NEW Q \in SUBSET Rows, V \subseteq Q,
             ClosedIn(Q, E, baseRanges)
      PROVE  Spread(V, E) \subseteq Q
  BY <1>3 DEF ClosedIn, Spread, Neighbours, SameRange
<1> QED  BY <1>1, <1>2, <1>3

\* S steps of a search reach everything it can.
LEMMA ForwardReachSearches ==
  ASSUME NEW V \in SUBSET Rows, NEW E
  PROVE  Searched(ForwardReach(V, E), V, E, baseRanges)
<1> DEFINE f == [W \in SUBSET Rows |-> Spread(W, E)]
           Is(g) == g = [n \in 0 .. S |-> IF n = 0 THEN V ELSE Spread(g[n - 1], E)]
<1>1. Grows(f)
  BY SpreadGrows
<1>f. \A W \in SUBSET Rows : f[W] = Spread(W, E)
  OBVIOUS
<1>2. \E g : Is(g)
  <2> HIDE DEF f
  <2>1. PICK g \in [0 .. S -> SUBSET Rows] :
          g = [n \in 0 .. S |-> IF n = 0 THEN V ELSE f[g[n - 1]]]
    BY <1>1, ChainExists
  <2>2. ASSUME NEW n \in 0 .. S
        PROVE  (IF n = 0 THEN V ELSE f[g[n - 1]]) = (IF n = 0 THEN V ELSE Spread(g[n - 1], E))
    <3>1. CASE n # 0
      <4>1. n - 1 \in 0 .. S
        BY <3>1, SizeAssumption
      <4> QED  BY <3>1, <4>1, <1>f
    <3> QED  BY <3>1
  <2> QED  BY <2>1, <2>2
<1> DEFINE h == CHOOSE g : Is(g)
<1>3. Is(h)
  BY <1>2
<1>4. ForwardReach(V, E) = h[S]
  BY DEF ForwardReach
<1> HIDE DEF h
<1>5. Chain(h, f, V)
  <2>1. \A n \in 0 .. S : h[n] = IF n = 0 THEN V ELSE Spread(h[n - 1], E)
    <3> SUFFICES ASSUME NEW n \in 0 .. S
                 PROVE  h[n] = IF n = 0 THEN V ELSE Spread(h[n - 1], E)
      OBVIOUS
    <3>1. [m \in 0 .. S |-> IF m = 0 THEN V ELSE Spread(h[m - 1], E)][n]
            = IF n = 0 THEN V ELSE Spread(h[n - 1], E)
      OBVIOUS
    <3> QED  BY <1>3, <3>1
  <2> HIDE DEF Is, f
  <2>2. h[0] = V
    <3>1. 0 \in 0 .. S
      BY SizeAssumption
    <3> QED  BY <2>1, <3>1
  <2>3. \A n \in 0 .. S : n # 0 /\ h[n - 1] \in SUBSET Rows => h[n] = f[h[n - 1]]
    BY <2>1, <1>f
  <2> QED  BY <1>1, <2>2, <2>3, ChainOf
<1>6. S \in 0 .. S
  BY SizeAssumption
<1>7. h[S] \in SUBSET Rows /\ V \subseteq h[S]
  <2> DEFINE Q == {W \in SUBSET Rows : V \subseteq W}
  <2>1. V \in Q /\ \A W \in SUBSET Rows : W \in Q => f[W] \in Q
    BY <1>1 DEF Grows
  <2>2. h[S] \in SUBSET Rows /\ h[S] \in Q
    <3> HIDE DEF Q, f
    <3> QED  BY <2>1, <1>1, <1>5, <1>6, ChainTypes
  <2> QED  BY <2>2
<1>8. ClosedIn(h[S], E, baseRanges)
  <2>1. f[h[S]] = h[S]
    <3> HIDE DEF f
    <3> QED  BY <1>1, <1>5, ChainEnds
  <2>2. Spread(h[S], E) = h[S]
    BY <2>1, <1>7, <1>f
  <2> QED  BY <2>2, <1>7, SpreadGrows
<1>9. ASSUME NEW Q \in SUBSET Rows, V \subseteq Q, ClosedIn(Q, E, baseRanges)
      PROVE  h[S] \subseteq Q
  <2>1. \A W \in SUBSET Rows : W \in SUBSET Q => f[W] \in SUBSET Q
    BY <1>9, <1>f, SpreadGrows
  <2>2. h[S] \in SUBSET Q
    <3>1. V \in SUBSET Q
      BY <1>9
    <3> HIDE DEF f
    <3> QED  BY <2>1, <3>1, <1>1, <1>5, <1>6, ChainTypes
  <2> QED  BY <2>2
<1> QED  BY <1>4, <1>7, <1>8, <1>9 DEF Searched

\* What trimming keeps true of a set of rows, it keeps true of what it ends with.
LEMMA TrimmedKeeps ==
  ASSUME NEW V \in SUBSET Rows, NEW Q, V \in Q,
         \A W \in SUBSET Rows : W \in Q => TrimStep(W) \in Q
  PROVE  Trimmed(V) \in SUBSET Rows /\ Trimmed(V) \in Q
<1> DEFINE f == [W \in SUBSET Rows |-> TrimStep(W)]
           Is(g) == g = [n \in 0 .. S |-> IF n = 0 THEN V ELSE TrimStep(g[n - 1])]
<1>1. Grows(f)
  BY DEF Grows, TrimStep
<1>f. \A W \in SUBSET Rows : f[W] = TrimStep(W)
  OBVIOUS
<1>2. \E g : Is(g)
  <2> HIDE DEF f
  <2>1. PICK g \in [0 .. S -> SUBSET Rows] :
          g = [n \in 0 .. S |-> IF n = 0 THEN V ELSE f[g[n - 1]]]
    BY <1>1, ChainExists
  <2>2. ASSUME NEW n \in 0 .. S
        PROVE  (IF n = 0 THEN V ELSE f[g[n - 1]]) = (IF n = 0 THEN V ELSE TrimStep(g[n - 1]))
    <3>1. CASE n # 0
      <4>1. n - 1 \in 0 .. S
        BY <3>1, SizeAssumption
      <4> QED  BY <3>1, <4>1, <1>f
    <3> QED  BY <3>1
  <2> QED  BY <2>1, <2>2
<1> DEFINE h == CHOOSE g : Is(g)
<1>3. Is(h)
  BY <1>2
<1>4. Trimmed(V) = h[S]
  BY DEF Trimmed
<1> HIDE DEF h
<1>5. Chain(h, f, V)
  <2>1. \A n \in 0 .. S : h[n] = IF n = 0 THEN V ELSE TrimStep(h[n - 1])
    <3> SUFFICES ASSUME NEW n \in 0 .. S
                 PROVE  h[n] = IF n = 0 THEN V ELSE TrimStep(h[n - 1])
      OBVIOUS
    <3>1. [m \in 0 .. S |-> IF m = 0 THEN V ELSE TrimStep(h[m - 1])][n]
            = IF n = 0 THEN V ELSE TrimStep(h[n - 1])
      OBVIOUS
    <3> QED  BY <1>3, <3>1
  <2> HIDE DEF Is, f
  <2>2. h[0] = V
    <3>1. 0 \in 0 .. S
      BY SizeAssumption
    <3> QED  BY <2>1, <3>1
  <2>3. \A n \in 0 .. S : n # 0 /\ h[n - 1] \in SUBSET Rows => h[n] = f[h[n - 1]]
    BY <2>1, <1>f
  <2> QED  BY <1>1, <2>2, <2>3, ChainOf
<1>6. \A W \in SUBSET Rows : W \in Q => f[W] \in Q
  BY <1>f
<1>7. h[S] \in SUBSET Rows /\ h[S] \in Q
  <2> HIDE DEF f
  <2>1. S \in 0 .. S
    BY SizeAssumption
  <2> QED  BY <2>1, <1>1, <1>5, <1>6, ChainTypes
<1> QED  BY <1>4, <1>7

-----------------------------------------------------------------------------
(* Components and ranges.                                                  *)

\* Ranges that split no component.
Coarse(E, r) == \A u, v \in Rows : SameScc(E, u, v) => r[u] = r[v]

\* Rows that are components of their own.
Alone(E, V) == \A u \in V, v \in Rows : SameScc(E, u, v) => v = u

LEMMA ReverseFacts ==
  ASSUME NEW E \in SUBSET (Rows \X Rows)
  PROVE  /\ Reverse(E) \in SUBSET (Rows \X Rows)
         /\ \A u, v : <<u, v>> \in Reverse(E) <=> <<v, u>> \in E
         /\ Reverse(Reverse(E)) = E
<1>1. Reverse(E) \in SUBSET (Rows \X Rows)
  BY DEF Reverse
<1>2. ASSUME NEW u, NEW v
      PROVE  <<u, v>> \in Reverse(E) <=> <<v, u>> \in E
  BY DEF Reverse
<1>3. Reverse(Reverse(E)) = E
  <2>1. \A e \in E : <<e[2], e[1]>> \in Reverse(E) /\ e = <<e[1], e[2]>>
    BY DEF Reverse
  <2>2. \A e \in Reverse(E) : <<e[2], e[1]>> \in E /\ e = <<e[1], e[2]>>
    BY DEF Reverse
  <2> QED  BY <2>1, <2>2 DEF Reverse
<1> QED  BY <1>1, <1>2, <1>3

\* What is reached against the edges is what reaches along them.
LEMMA ReverseReaches ==
  ASSUME NEW E \in SUBSET (Rows \X Rows), NEW u \in Rows, NEW v \in Rows
  PROVE  Reaches(Reverse(E), u, v) <=> Reaches(E, v, u)
<1>1. ASSUME NEW F \in SUBSET (Rows \X Rows), NEW x \in Rows, NEW y \in Rows,
             Reaches(F, y, x)
      PROVE  Reaches(Reverse(F), x, y)
  <2> SUFFICES ASSUME NEW R \in SUBSET Rows, x \in R, IsClosed(Reverse(F), R), y \notin R
               PROVE  FALSE
    BY DEF Reaches
  <2>1. IsClosed(F, Rows \ R)
    <3> SUFFICES ASSUME NEW e \in F, e[1] \in Rows \ R, e[2] \in R PROVE FALSE
      BY DEF IsClosed
    <3>1. <<e[2], e[1]>> \in Reverse(F)
      BY DEF Reverse
    <3> QED  BY <3>1 DEF IsClosed
  <2>2. Rows \ R \in SUBSET Rows /\ y \in Rows \ R
    OBVIOUS
  <2> QED  BY <1>1, <2>1, <2>2 DEF Reaches
<1>2. Reaches(E, v, u) => Reaches(Reverse(E), u, v)
  BY <1>1
<1>3. Reaches(Reverse(E), u, v) => Reaches(E, v, u)
  BY <1>1, ReverseFacts
<1> QED  BY <1>2, <1>3

LEMMA ReverseScc ==
  ASSUME NEW E \in SUBSET (Rows \X Rows), NEW u \in Rows, NEW v \in Rows
  PROVE  SameScc(Reverse(E), u, v) <=> SameScc(E, u, v)
BY ReverseReaches DEF SameScc

\* A step of a search that does not leave a component stays in the set.
LEMMA ClosedKeepsComponents ==
  ASSUME NEW E \in SUBSET (Rows \X Rows), NEW r, Coarse(E, r), NEW W, ClosedIn(W, E, r),
         NEW u \in W, NEW v \in Rows, SameScc(E, u, v)
  PROVE  v \in W
<1> DEFINE R == {w \in Rows : Reaches(E, w, u) => w \in W /\ Reaches(E, u, w)}
<1>1. u \in R
  BY DEF Reaches, ClosedIn
<1>2. IsClosed(E, R)
  <2> SUFFICES ASSUME NEW e \in E, e[1] \in R, Reaches(E, e[2], u)
               PROVE  e[2] \in W /\ Reaches(E, u, e[2])
    BY DEF IsClosed
  <2>1. e = <<e[1], e[2]>> /\ e[1] \in Rows /\ e[2] \in Rows
    OBVIOUS
  <2>2. Reaches(E, e[1], e[2])
    BY DEF Reaches, IsClosed
  <2>3. Reaches(E, e[1], u)
    BY <2>2 DEF Reaches
  <2>4. e[1] \in W /\ Reaches(E, u, e[1])
    BY <2>3
  <2>5. Reaches(E, u, e[2])
    BY <2>2, <2>4 DEF Reaches
  <2>6. SameScc(E, e[1], e[2])
    BY <2>2, <2>4 DEF SameScc, Reaches
  <2>7. r[e[1]] = r[e[2]]
    BY <2>1, <2>6 DEF Coarse
  <2> QED  BY <2>1, <2>4, <2>5, <2>7 DEF ClosedIn
<1>3. v \in R
  BY <1>1, <1>2 DEF SameScc, Reaches
<1> QED  BY <1>3 DEF SameScc

\* A search reaches only what one of the rows it starts from reaches in its range.
LEMMA SearchedFrom ==
  ASSUME NEW E \in SUBSET (Rows \X Rows), NEW r, NEW V \in SUBSET Rows, NEW W,
         Searched(W, V, E, r), NEW w \in W
  PROVE  \E p \in V : r[p] = r[w] /\ Reaches(E, p, w)
<1> DEFINE Q == {x \in Rows : \E p \in V : r[p] = r[x] /\ Reaches(E, p, x)}
<1>1. V \subseteq Q
  BY DEF Reaches
<1>2. ClosedIn(Q, E, r)
  <2> SUFFICES ASSUME NEW u \in Q, NEW v \in Rows, <<u, v>> \in E, r[u] = r[v]
               PROVE  v \in Q
    BY DEF ClosedIn
  <2>1. PICK p \in V : r[p] = r[u] /\ Reaches(E, p, u)
    OBVIOUS
  <2>2. Reaches(E, p, v)
    <3> SUFFICES ASSUME NEW R \in SUBSET Rows, p \in R, IsClosed(E, R)
                 PROVE  v \in R
      BY DEF Reaches
    <3>1. u \in R
      BY <2>1 DEF Reaches
    <3>2. <<u, v>>[1] = u /\ <<u, v>>[2] = v
      OBVIOUS
    <3> QED  BY <3>1, <3>2 DEF IsClosed
  <2> QED  BY <2>1, <2>2
<1>3. Q \in SUBSET Rows
  OBVIOUS
<1>4. W \subseteq Q
  <2> HIDE DEF Q
  <2> QED  BY <1>1, <1>2, <1>3 DEF Searched
<1> QED  BY <1>4

\* A row that is not alone has another row of its component before it.
LEMMA BeforeInComponent ==
  ASSUME NEW E \in SUBSET (Rows \X Rows), NEW u \in Rows, NEW v \in Rows,
         SameScc(E, u, v), v # u
  PROVE  \E w \in Rows : w # u /\ <<w, u>> \in E /\ SameScc(E, u, w)
<1> SUFFICES ASSUME \A w \in Rows : w # u /\ <<w, u>> \in E => ~SameScc(E, u, w)
             PROVE  FALSE
  OBVIOUS
<1> DEFINE R == {w \in Rows : w # u /\ (Reaches(E, w, u) => Reaches(E, u, w))}
<1>1. v \in R
  BY DEF SameScc
<1>2. IsClosed(E, R)
  <2> SUFFICES ASSUME NEW e \in E, e[1] \in R
               PROVE  e[2] # u /\ (Reaches(E, e[2], u) => Reaches(E, u, e[2]))
    BY DEF IsClosed
  <2>1. e = <<e[1], e[2]>> /\ e[1] \in Rows /\ e[2] \in Rows
    OBVIOUS
  <2>2. Reaches(E, e[1], e[2])
    BY DEF Reaches, IsClosed
  <2>3. e[2] # u
    <3> SUFFICES ASSUME e[2] = u PROVE FALSE
      OBVIOUS
    <3>1. SameScc(E, u, e[1])
      BY <2>2 DEF SameScc
    <3>2. <<e[1], u>> \in E
      BY <2>1
    <3> QED  BY <2>1, <3>1, <3>2
  <2>4. ASSUME Reaches(E, e[2], u)
        PROVE  Reaches(E, u, e[2])
    <3>1. Reaches(E, e[1], u)
      BY <2>2, <2>4 DEF Reaches
    <3>2. Reaches(E, u, e[1])
      BY <3>1
    <3> QED  BY <2>2, <3>2 DEF Reaches
  <2> QED  BY <2>3, <2>4
<1>3. u \in R
  <2>1. R \in SUBSET Rows /\ Reaches(E, v, u)
    BY DEF SameScc
  <2> HIDE DEF R
  <2> QED  BY <1>1, <1>2, <2>1 DEF Reaches
<1> QED  BY <1>3

\* Only rows that are components of their own are trimmed.
LEMMA TrimmedAlone ==
  ASSUME NEW E \in SUBSET (Rows \X Rows), E = baseProjection, Coarse(E, baseRanges),
         NEW V \in SUBSET Rows, Alone(E, V)
  PROVE  Alone(E, Trimmed(V))
<1> DEFINE Q == {W \in SUBSET Rows : Alone(E, W)}
<1>1. ASSUME NEW W \in SUBSET Rows, W \in Q
      PROVE  TrimStep(W) \in Q
  <2> SUFFICES ASSUME NEW u \in Rows, Trimable(u, W), NEW v \in Rows, SameScc(E, u, v), v # u
               PROVE  FALSE
    <3>1. TrimStep(W) \in SUBSET Rows
      BY DEF TrimStep
    <3>2. \A u \in TrimStep(W) : u \in W \/ (u \in Rows /\ Trimable(u, W))
      BY DEF TrimStep
    <3> QED  BY <1>1, <3>1, <3>2 DEF Alone
  <2>1. PICK w \in Rows : w # u /\ <<w, u>> \in E /\ SameScc(E, u, w)
    BY BeforeInComponent
  <2>2. w \in Neighbours(u, Reverse(baseProjection)) /\ SameRange(u, w)
    <3>1. <<u, w>> \in Reverse(E)
      BY <2>1, ReverseFacts
    <3> QED  BY <2>1, <3>1 DEF Neighbours, SameRange, Coarse
  <2>3. w \in W
    BY <2>2 DEF Trimable
  <2>4. SameScc(E, w, u)
    BY <2>1, SccEquivalence
  <2> QED  BY <1>1, <2>1, <2>3, <2>4 DEF Alone
<1>2. V \in Q
  OBVIOUS
<1>3. Trimmed(V) \in Q
  <2> HIDE DEF Q
  <2> QED  BY <1>1, <1>2, TrimmedKeeps
<1> QED  BY <1>3

LEMMA TrimmedGrows ==
  ASSUME NEW V \in SUBSET Rows
  PROVE  Trimmed(V) \in SUBSET Rows /\ V \subseteq Trimmed(V)
<1> DEFINE Q == {W \in SUBSET Rows : V \subseteq W}
<1>1. V \in Q /\ \A W \in SUBSET Rows : W \in Q => TrimStep(W) \in Q
  BY DEF TrimStep
<1>2. Trimmed(V) \in Q
  <2> HIDE DEF Q
  <2> QED  BY <1>1, TrimmedKeeps
<1> QED  BY <1>2

-----------------------------------------------------------------------------
(* A round of fb_kern.                                                     *)

\* After n rounds: X are the eliminated rows, each in a range of its own that no
\* other row can get.  The other rows that F and B mark are marked by both, and
\* those of one range are of one component: it has been found, or is to be
\* searched from a single pivot.
BetweenRounds(E, r, F, B, X, n) ==
  /\ F \in SUBSET Rows /\ B \in SUBSET Rows /\ X \in SUBSET Rows
  /\ n = 0 => F = {} /\ B = {} /\ X = {} /\ \A u \in Rows : r[u] = 0
  /\ n > 0 => \A u \in Rows : /\ u \in X => r[u] = -u
                              /\ u \notin X => r[u] \in 1 .. LargestRange[n]
  /\ \A u \in Rows \ X : u \in F <=> u \in B
  /\ \A u, v \in F \ X : r[u] = r[v] => SameScc(E, u, v)
  /\ Coarse(E, r)
  /\ Alone(E, X)

\* Once both searches have ended: they split no component, and of each range they
\* have found one component at most.
AfterSearches(E, r, F, B, X, n) ==
  /\ F \in SUBSET Rows /\ B \in SUBSET Rows /\ X \in SUBSET Rows
  /\ n = 0 => F = {} /\ B = {} /\ \A u \in Rows : r[u] = 0
  /\ n > 0 => \A u \in Rows \ X : r[u] \in 1 .. LargestRange[n]
  /\ \A u, v \in Rows : SameScc(E, u, v) => (u \in F <=> v \in F) /\ (u \in B <=> v \in B)
  /\ \A u, v \in (F \cap B) \ X : r[u] = r[v] => SameScc(E, u, v)
  /\ Coarse(E, r)
  /\ Alone(E, X)

LEMMA SearchesFind ==
  ASSUME NEW E \in SUBSET (Rows \X Rows), NEW r, NEW F, NEW B, NEW X, NEW n \in 0 .. SafeRounds,
         BetweenRounds(E, r, F, B, X, n),
         \A i \in 1 .. SafeRounds : LargestRange[i] \in Int,
         NEW F1, Searched(F1, F, E, r), NEW B1, Searched(B1, B, Reverse(E), r)
  PROVE  AfterSearches(E, r, F1, B1, X, n)
<1>e. Reverse(E) \in SUBSET (Rows \X Rows)
  BY ReverseFacts
<1>t. /\ F \in SUBSET Rows /\ B \in SUBSET Rows /\ X \in SUBSET Rows
      /\ F1 \in SUBSET Rows /\ B1 \in SUBSET Rows
      /\ Coarse(E, r) /\ Alone(E, X)
  BY DEF BetweenRounds, Searched, ClosedIn
<1>1. n = 0 => F1 = {} /\ B1 = {} /\ \A u \in Rows : r[u] = 0
  <2> SUFFICES ASSUME n = 0 PROVE F1 = {} /\ B1 = {} /\ \A u \in Rows : r[u] = 0
    OBVIOUS
  <2>1. F = {} /\ B = {} /\ \A u \in Rows : r[u] = 0
    BY DEF BetweenRounds
  <2>2. F1 \subseteq {}
    <3>1. ClosedIn({}, E, r)
      BY DEF ClosedIn
    <3> QED  BY <2>1, <3>1 DEF Searched
  <2>3. B1 \subseteq {}
    <3>1. ClosedIn({}, Reverse(E), r)
      BY DEF ClosedIn
    <3> QED  BY <2>1, <3>1 DEF Searched
  <2> QED  BY <2>1, <2>2, <2>3
<1>2. n > 0 => \A u \in Rows \ X : r[u] \in 1 .. LargestRange[n]
  BY DEF BetweenRounds
<1>c. Coarse(Reverse(E), r)
  BY <1>t, ReverseScc DEF Coarse
<1>3. ASSUME NEW u \in Rows, NEW v \in Rows, SameScc(E, u, v)
      PROVE  (u \in F1 <=> v \in F1) /\ (u \in B1 <=> v \in B1)
  <2>1. SameScc(E, v, u)
    BY <1>3, SccEquivalence
  <2>2. SameScc(Reverse(E), u, v) /\ SameScc(Reverse(E), v, u)
    BY <1>3, <2>1, ReverseScc
  <2>3. u \in F1 <=> v \in F1
    BY <1>3, <2>1, <1>t, ClosedKeepsComponents DEF Searched
  <2>4. u \in B1 <=> v \in B1
    BY <2>2, <1>e, <1>c, ClosedKeepsComponents DEF Searched
  <2> QED  BY <2>3, <2>4
<1>4. ASSUME NEW u \in (F1 \cap B1) \ X
      PROVE  \E p \in F \ X : r[p] = r[u] /\ SameScc(E, p, u)
  <2>0. u \in Rows /\ n > 0
    BY <1>t, <1>1
  <2>1. PICK p \in F : r[p] = r[u] /\ Reaches(E, p, u)
    BY <1>t, SearchedFrom
  <2>2. PICK q \in B : r[q] = r[u] /\ Reaches(Reverse(E), q, u)
    BY <1>t, <1>e, SearchedFrom
  <2>3. Reaches(E, u, q)
    BY <2>0, <2>2, <1>t, ReverseReaches
  <2>4. ASSUME NEW x \in X
        PROVE  r[x] # r[u]
    <3>1. x \in Rows /\ x \in Nat
      BY <1>t, SizeAssumption DEF Rows
    <3>2. r[x] = -x
      BY <2>0, <3>1 DEF BetweenRounds
    <3>3. r[u] \in 1 .. LargestRange[n] /\ LargestRange[n] \in Int
      BY <2>0, <1>2
    <3> QED  BY <3>1, <3>2, <3>3
  <2>5. p \notin X /\ q \notin X
    BY <2>1, <2>2, <2>4
  <2>6. q \in F \ X
    BY <2>5, <1>t DEF BetweenRounds
  <2>7. SameScc(E, p, q)
    BY <2>1, <2>2, <2>5, <2>6 DEF BetweenRounds
  <2>8. SameScc(E, p, u)
    BY <2>1, <2>3, <2>7 DEF SameScc, Reaches
  <2> QED  BY <2>1, <2>5, <2>8
<1>5. ASSUME NEW u \in (F1 \cap B1) \ X, NEW v \in (F1 \cap B1) \ X, r[u] = r[v]
      PROVE  SameScc(E, u, v)
  <2>1. PICK p \in F \ X : r[p] = r[u] /\ SameScc(E, p, u)
    BY <1>4
  <2>2. PICK q \in F \ X : r[q] = r[v] /\ SameScc(E, q, v)
    BY <1>4
  <2>3. SameScc(E, p, q)
    BY <2>1, <2>2, <1>5 DEF BetweenRounds
  <2> QED  BY <2>1, <2>2, <2>3, SccEquivalence
<1> QED  BY <1>t, <1>1, <1>2, <1>3, <1>5 DEF AfterSearches

LEMMA LargestRangeFacts ==
  /\ SafeRounds >= 1 /\ LargestRange[1] = 1
  /\ \A n \in 1 .. SafeRounds : LargestRange[n] \in 1 .. IntMax
  /\ \A n \in 1 .. SafeRounds - 1 : LargestRange[n + 1] = 4 * LargestRange[n] + 3
<1> DEFINE Is(g) ==
             g = [n \in 1 .. SafeRounds |-> IF n = 1 THEN 1 ELSE 4 * g[n - 1] + 3]
           step == [x \in Nat \X Nat |-> 4 * x[1] + 3]
<1>0. SafeRounds \in Nat /\ SafeRounds >= 1 /\ IntMax \in Nat
  BY IntAssumption
<1>1. \E g : Is(g)
  <2>1. step \in [Nat \X Nat -> Nat] /\ \A x, i \in Nat : step[<<x, i>>] = 4 * x + 3
    OBVIOUS
  <2>2. PICK m \in Nat : m = SafeRounds - 1
    BY <1>0
  <2> HIDE DEF step
  <2>3. PICK h \in [0 .. m -> Nat] : Iterates(h, m, 1, step)
    BY <2>1, IteratesExist
  <2>4. h[0] = 1 /\ \A i \in 0 .. m - 1 : h[i + 1] = 4 * h[i] + 3
    <3>1. h[0] = 1 /\ \A i \in 0 .. m - 1 : h[i + 1] = step[<<h[i], i>>]
      BY <2>2, <2>3, IteratesFacts
    <3>2. \A i \in 0 .. m - 1 : h[i] \in Nat /\ i \in Nat
      OBVIOUS
    <3> QED  BY <2>1, <3>1, <3>2
  <2> DEFINE g == [n \in 1 .. SafeRounds |-> h[n - 1]]
  <2>5. ASSUME NEW n \in 1 .. SafeRounds
        PROVE  g[n] = IF n = 1 THEN 1 ELSE 4 * g[n - 1] + 3
    <3>1. g[n] = h[n - 1]
      OBVIOUS
    <3>2. CASE n # 1
      <4>1. PICK i : i = n - 2
        OBVIOUS
      <4>2. /\ i \in 0 .. m - 1 /\ i + 1 = n - 1 /\ n - 1 \in 1 .. SafeRounds
            /\ (n - 1) - 1 = i
        BY <3>2, <4>1, <2>2, <1>0
      <4>3. g[n - 1] = h[i]
        BY <4>2
      <4>4. h[n - 1] = 4 * h[i] + 3
        BY <4>2, <2>4
      <4> QED  BY <3>1, <3>2, <4>3, <4>4
    <3> QED  BY <3>1, <3>2, <2>4
  <2>6. Is(g)
    BY <2>5
  <2> HIDE DEF g, Is
  <2> QED  BY <2>6
<1>2. Is(LargestRange)
  BY <1>1 DEF LargestRange
<1>3. \A n \in 1 .. SafeRounds : LargestRange[n] = IF n = 1 THEN 1 ELSE 4 * LargestRange[n - 1] + 3
  <2> SUFFICES ASSUME NEW n \in 1 .. SafeRounds
               PROVE  LargestRange[n] = IF n = 1 THEN 1 ELSE 4 * LargestRange[n - 1] + 3
    OBVIOUS
  <2>1. [k \in 1 .. SafeRounds |-> IF k = 1 THEN 1 ELSE 4 * LargestRange[k - 1] + 3][n]
          = IF n = 1 THEN 1 ELSE 4 * LargestRange[n - 1] + 3
    OBVIOUS
  <2> QED  BY <1>2, <2>1
<1> HIDE DEF Is
<1>4. LargestRange[1] = 1
  BY <1>0, <1>3
<1>5. ASSUME NEW n \in 1 .. SafeRounds - 1
      PROVE  LargestRange[n + 1] = 4 * LargestRange[n] + 3
  <2>1. PICK k : k = n + 1
    OBVIOUS
  <2>2. k \in 1 .. SafeRounds /\ k # 1 /\ k - 1 = n
    BY <1>0, <2>1
  <2> QED  BY <2>1, <2>2, <1>3
<1>6. \A n \in 1 .. SafeRounds : LargestRange[n] \in Nat \ {0}
  <2> DEFINE X == {i \in Nat : i + 1 <= SafeRounds => LargestRange[i + 1] \in Nat \ {0}}
  <2>1. 0 \in X
    BY <1>4
  <2>2. ASSUME NEW i \in Nat, i \in X
        PROVE  i + 1 \in X
    <3> SUFFICES ASSUME (i + 1) + 1 <= SafeRounds
                 PROVE  LargestRange[(i + 1) + 1] \in Nat \ {0}
      OBVIOUS
    <3>1. i + 1 \in 1 .. SafeRounds - 1 /\ LargestRange[i + 1] \in Nat \ {0}
      BY <2>2, <1>0
    <3>2. LargestRange[(i + 1) + 1] = 4 * LargestRange[i + 1] + 3
      BY <3>1, <1>5
    <3> QED  BY <3>1, <3>2
  <2>3. Nat \subseteq X
    <3> HIDE DEF X
    <3> QED  BY <2>1, <2>2, SetInduction
  <2> SUFFICES ASSUME NEW n \in 1 .. SafeRounds PROVE LargestRange[n] \in Nat \ {0}
    OBVIOUS
  <2>4. n - 1 \in X /\ (n - 1) + 1 = n
    BY <2>3, <1>0
  <2> QED  BY <2>4
<1>7. \A n \in 1 .. SafeRounds : LargestRange[n] <= LargestRange[SafeRounds]
  <2> DEFINE X == {i \in Nat : i < SafeRounds =>
                                 LargestRange[SafeRounds - i] <= LargestRange[SafeRounds]}
  <2>1. 0 \in X
    <3>1. LargestRange[SafeRounds] \in Nat /\ SafeRounds - 0 = SafeRounds
      BY <1>0, <1>6
    <3> QED  BY <3>1
  <2>2. ASSUME NEW i \in Nat, i \in X
        PROVE  i + 1 \in X
    <3> SUFFICES ASSUME i + 1 < SafeRounds
                 PROVE  LargestRange[SafeRounds - (i + 1)] <= LargestRange[SafeRounds]
      OBVIOUS
    <3>1. PICK k : k = SafeRounds - (i + 1)
      OBVIOUS
    <3>2. k \in 1 .. SafeRounds - 1 /\ k + 1 = SafeRounds - i /\ k \in 1 .. SafeRounds
          /\ SafeRounds \in 1 .. SafeRounds
      BY <3>1, <1>0
    <3>3. LargestRange[k + 1] = 4 * LargestRange[k] + 3
      BY <3>2, <1>5
    <3>4. LargestRange[k + 1] <= LargestRange[SafeRounds]
      BY <3>2, <2>2, <1>0
    <3>5. LargestRange[k] \in Nat /\ LargestRange[SafeRounds] \in Nat
      BY <3>2, <1>6
    <3>6. LargestRange[k] <= LargestRange[SafeRounds]
      BY <3>3, <3>4, <3>5
    <3> QED  BY <3>1, <3>6
  <2>3. Nat \subseteq X
    <3> HIDE DEF X
    <3> QED  BY <2>1, <2>2, SetInduction
  <2> SUFFICES ASSUME NEW n \in 1 .. SafeRounds
               PROVE  LargestRange[n] <= LargestRange[SafeRounds]
    OBVIOUS
  <2>4. SafeRounds - n \in X /\ SafeRounds - (SafeRounds - n) = n /\ SafeRounds - n < SafeRounds
    BY <2>3, <1>0
  <2> QED  BY <2>4
<1>8. ASSUME NEW n \in 1 .. SafeRounds
      PROVE  LargestRange[n] \in 1 .. IntMax
  <2>1. LargestRange[n] \in Nat \ {0} /\ LargestRange[SafeRounds] \in Nat
    BY <1>0, <1>6
  <2>2. LargestRange[n] <= LargestRange[SafeRounds] /\ LargestRange[SafeRounds] <= IntMax
    BY <1>7, IntAssumption
  <2> QED  BY <1>0, <2>1, <2>2
<1> QED  BY <1>0, <1>4, <1>5, <1>8

\* How update tells rows apart; both marks keep the range a multiple of four.
Told(F, B, u) == IF u \in F /\ u \in B THEN 0 ELSE IF u \in F THEN 2 ELSE IF u \in B THEN 3 ELSE 1

NewRangeOf(r, F, B, X, u) == IF u \in X THEN -u ELSE Wrap(4 * r[u] + Told(F, B, u))

\* The next round starts as this one did; when no row is open any more, two rows
\* have the same range exactly when they are in one component.
LEMMA UpdateTells ==
  ASSUME NEW E, NEW r, NEW F, NEW B, NEW X, NEW n \in 0 .. SafeRounds - 1,
         AfterSearches(E, r, F, B, X, n),
         NEW r1, r1 = [u \in Rows |-> NewRangeOf(r, F, B, X, u)],
         NEW open, open = {u \in Rows \ X : ~(u \in F /\ u \in B)},
         NEW pivots, pivots \subseteq open,
         \A u, v \in pivots : r1[u] = r1[v] => u = v
  PROVE  BetweenRounds(E, r1, (F \ open) \cup pivots, (B \ open) \cup pivots, X, n + 1)
<1> DEFINE F1 == (F \ open) \cup pivots
           B1 == (B \ open) \cup pivots
<1>t. /\ F \in SUBSET Rows /\ B \in SUBSET Rows /\ X \in SUBSET Rows
      /\ Coarse(E, r) /\ Alone(E, X)
      /\ n + 1 \in 1 .. SafeRounds /\ n \in Nat
  BY IntAssumption DEF AfterSearches
<1>1. ASSUME NEW u \in Rows \ X
      PROVE  /\ r[u] \in Int /\ r1[u] = 4 * r[u] + Told(F, B, u)
             /\ r1[u] \in 1 .. LargestRange[n + 1]
  <2>1. /\ Told(F, B, u) \in 0 .. 3 /\ r1[u] = Wrap(4 * r[u] + Told(F, B, u))
        /\ LargestRange[n + 1] \in 1 .. IntMax /\ IntMax \in Nat
    BY <1>t, LargestRangeFacts, IntAssumption DEF Told, NewRangeOf
  <2>2. CASE n = 0
    <3>1. F = {} /\ B = {} /\ r[u] = 0
      BY <2>2 DEF AfterSearches
    <3>2. Told(F, B, u) = 1
      BY <3>1 DEF Told
    <3>3. 1 \in -IntMax .. IntMax /\ 4 * r[u] + Told(F, B, u) = 1
      BY <2>1, <3>1, <3>2
    <3>4. r1[u] = 1
      BY <2>1, <3>3 DEF Wrap
    <3> QED  BY <2>1, <3>1, <3>2, <3>4
  <2>3. CASE n > 0
    <3>1. r[u] \in 1 .. LargestRange[n] /\ LargestRange[n] \in 1 .. IntMax
          /\ LargestRange[n + 1] = 4 * LargestRange[n] + 3
      <4>1. n \in 1 .. SafeRounds /\ n \in 1 .. SafeRounds - 1
        BY <1>t, <2>3, IntAssumption
      <4> QED  BY <4>1, <2>3, LargestRangeFacts DEF AfterSearches
    <3>2. PICK x, d, m \in Int : x = r[u] /\ d = Told(F, B, u) /\ m = LargestRange[n]
      BY <2>1, <3>1
    <3>3. 4 * x + d \in 1 .. 4 * m + 3 /\ 4 * m + 3 <= IntMax /\ 4 * x + d \in -IntMax .. IntMax
      BY <2>1, <3>1, <3>2
    <3>4. r1[u] = 4 * x + d
      BY <2>1, <3>2, <3>3 DEF Wrap
    <3> QED  BY <3>1, <3>2, <3>3, <3>4
  <2> QED  BY <2>2, <2>3, <1>t
<1>2. \A u \in X : u \in Rows /\ r1[u] = -u
  BY <1>t DEF NewRangeOf
<1>3. /\ F1 \in SUBSET Rows /\ B1 \in SUBSET Rows
      /\ \A u \in Rows \ X : u \in F1 <=> u \in B1
  BY <1>t
<1>4. \A u \in F1 \ X : u \in Rows /\ ((u \in F /\ u \in B) \/ u \in pivots)
  BY <1>t
<1>5. ASSUME NEW u \in F1 \ X, NEW v \in F1 \ X, r1[u] = r1[v]
      PROVE  SameScc(E, u, v)
  <2>1. /\ r[u] \in Int /\ r1[u] = 4 * r[u] + Told(F, B, u)
        /\ r[v] \in Int /\ r1[v] = 4 * r[v] + Told(F, B, v)
    BY <1>1, <1>4
  <2>2. Told(F, B, u) \in 0 .. 3 /\ Told(F, B, v) \in 0 .. 3
    BY DEF Told
  <2>3. PICK x, y, d, e \in Int : /\ x = r[u] /\ y = r[v]
                                  /\ d = Told(F, B, u) /\ e = Told(F, B, v)
    BY <2>1, <2>2
  <2>4. x = y /\ d = e
    <3>1. 4 * x + d = 4 * y + e /\ d \in 0 .. 3 /\ e \in 0 .. 3
      BY <2>1, <2>2, <2>3, <1>5
    <3> QED  BY <3>1
  <2>5. CASE u \in F /\ u \in B
    <3>1. v \in F /\ v \in B
      BY <2>3, <2>4, <2>5 DEF Told
    <3> QED  BY <2>3, <2>4, <2>5, <3>1 DEF AfterSearches
  <2>6. CASE ~(u \in F /\ u \in B)
    <3>1. ~(v \in F /\ v \in B)
      BY <2>3, <2>4, <2>6 DEF Told
    <3>2. u \in pivots /\ v \in pivots
      BY <2>6, <3>1, <1>4
    <3>3. u = v
      BY <3>2, <1>5
    <3> QED  BY <3>3, SccEquivalence
  <2> QED  BY <2>5, <2>6
<1>6. ASSUME NEW u \in Rows, NEW v \in Rows, SameScc(E, u, v)
      PROVE  r1[u] = r1[v]
  <2>1. SameScc(E, v, u)
    BY <1>6, SccEquivalence
  <2>2. CASE u \in X \/ v \in X
    BY <2>1, <2>2, <1>6, <1>t DEF Alone
  <2>3. CASE u \notin X /\ v \notin X
    <3>1. r[u] = r[v]
      BY <1>6, <1>t DEF Coarse
    <3>2. (u \in F <=> v \in F) /\ (u \in B <=> v \in B)
      BY <1>6 DEF AfterSearches
    <3>3. Told(F, B, u) = Told(F, B, v)
      BY <3>2 DEF Told
    <3>4. r1[u] = 4 * r[u] + Told(F, B, u) /\ r1[v] = 4 * r[v] + Told(F, B, v)
      BY <2>3, <1>1
    <3> QED  BY <3>1, <3>3, <3>4
  <2> QED  BY <2>2, <2>3
<1>7. Coarse(E, r1)
  BY <1>6 DEF Coarse
<1>8. n + 1 > 0 => \A u \in Rows : /\ u \in X => r1[u] = -u
                                   /\ u \notin X => r1[u] \in 1 .. LargestRange[n + 1]
  BY <1>1, <1>2
<1>9. n + 1 # 0
  BY <1>t
<1> HIDE DEF F1, B1
<1>10. BetweenRounds(E, r1, F1, B1, X, n + 1)
  BY <1>t, <1>3, <1>5, <1>7, <1>8, <1>9 DEF BetweenRounds
<1> QED  BY <1>10 DEF F1, B1

LEMMA AllFound ==
  ASSUME NEW E, NEW r, NEW F, NEW B, NEW X, NEW n \in 1 .. SafeRounds,
         BetweenRounds(E, r, F, B, X, n), Rows \ X \subseteq F,
         NEW u \in Rows, NEW v \in Rows
  PROVE  r[u] = r[v] <=> SameScc(E, u, v)
<1>1. SameScc(E, u, v) => r[u] = r[v]
  BY DEF BetweenRounds, Coarse
<1>2. ASSUME r[u] = r[v]
      PROVE  SameScc(E, u, v)
  <2>0. u \in Nat /\ v \in Nat /\ n > 0 /\ LargestRange[n] \in Int
    BY SizeAssumption, LargestRangeFacts, IntAssumption DEF Rows
  <2>1. CASE u \in X \/ v \in X
    <3>1. /\ u \in X => r[u] = -u
          /\ v \in X => r[v] = -v
          /\ u \notin X => r[u] \in 1 .. LargestRange[n]
          /\ v \notin X => r[v] \in 1 .. LargestRange[n]
      BY <2>0 DEF BetweenRounds
    <3>2. u = v
      BY <1>2, <2>0, <2>1, <3>1
    <3> QED  BY <3>2, SccEquivalence
  <2>2. CASE u \notin X /\ v \notin X
    BY <1>2, <2>2 DEF BetweenRounds
  <2> QED  BY <2>1, <2>2
<1> QED  BY <1>1, <1>2

-----------------------------------------------------------------------------
(* The sums.                                                               *)

\* Adding up how often each row is hit counts everything.
LEMMA SumCounts ==
  ASSUME NEW W, IsFiniteSet(W), NEW k \in [W -> Rows],
         NEW f, \A r \in Rows : f[r] = Cardinality({w \in W : k[w] = r})
  PROVE  Sum(f) = Cardinality(W)
<1> DEFINE Is(g) == g = [n \in 0 .. S |-> IF n = 0 THEN 0 ELSE g[n - 1] + f[n - 1]]
           Below(n) == {w \in W : k[w] < n}
           count == [n \in 0 .. S |-> Cardinality(Below(n))]
<1>f. \A V \in SUBSET W : IsFiniteSet(V) /\ Cardinality(V) \in Nat
  BY FS_Subset, FS_CardinalityType
<1>k. \A w \in W : k[w] \in Nat /\ k[w] < S
  <2>1. \A r \in Rows : r \in Nat /\ r < S
    BY SizeAssumption DEF Rows
  <2> QED  BY <2>1
<1>1. ASSUME NEW n \in Nat, n < S
      PROVE  Cardinality(Below(n + 1)) = Cardinality(Below(n)) + f[n]
  <2>1. PICK A, C \in SUBSET W : A = Below(n) /\ C = {w \in W : k[w] = n}
    OBVIOUS
  <2>2. Below(n + 1) = A \cup C /\ A \cap C = {}
    BY <2>1, <1>k
  <2>3. Cardinality(A \cup C) = Cardinality(A) + Cardinality(C)
    <3>1. /\ IsFiniteSet(A) /\ IsFiniteSet(C)
          /\ Cardinality(A) \in Nat /\ Cardinality(C) \in Nat
      BY <1>f
    <3>2. Cardinality(A \cup C) = Cardinality(A) + Cardinality(C) - Cardinality(A \cap C)
      BY <3>1, FS_Union
    <3>3. Cardinality(A \cap C) = 0
      BY <2>2, FS_EmptySet
    <3> QED  BY <3>1, <3>2, <3>3
  <2>4. f[n] = Cardinality(C)
    <3>1. n \in Rows
      BY <1>1, SizeAssumption DEF Rows
    <3> QED  BY <3>1, <2>1
  <2> HIDE DEF Below
  <2> QED  BY <2>1, <2>2, <2>3, <2>4
<1>2. Cardinality(Below(0)) = 0
  <2>1. Below(0) = {}
    BY <1>k
  <2> HIDE DEF Below
  <2> QED  BY <2>1, FS_EmptySet
<1>3. Below(S) = W
  BY <1>k
<1> HIDE DEF Below
<1>4. Is(count)
  <2>1. ASSUME NEW n \in 0 .. S
        PROVE  count[n] = IF n = 0 THEN 0 ELSE count[n - 1] + f[n - 1]
    <3>1. count[n] = Cardinality(Below(n))
      OBVIOUS
    <3>2. CASE n # 0
      <4>1. PICK m \in Nat : m = n - 1
        BY <3>2
      <4>2. m < S /\ m + 1 = n /\ m \in 0 .. S
        BY <4>1, SizeAssumption
      <4>3. Cardinality(Below(n)) = Cardinality(Below(m)) + f[m]
        BY <4>2, <1>1
      <4>4. count[m] = Cardinality(Below(m))
        BY <4>2
      <4> HIDE DEF count
      <4> QED  BY <3>1, <3>2, <4>1, <4>3, <4>4
    <3> QED  BY <3>1, <3>2, <1>2
  <2>2. count = [n \in 0 .. S |-> count[n]]
    OBVIOUS
  <2> HIDE DEF count
  <2> QED  BY <2>1, <2>2
<1> DEFINE h == CHOOSE g : Is(g)
<1>5. Is(h)
  <2> HIDE DEF Is, count
  <2> QED  BY <1>4
<1>6. Sum(f) = h[S]
  BY DEF Sum
<1> HIDE DEF h, count
<1>7. \A n \in 0 .. S : h[n] = IF n = 0 THEN 0 ELSE h[n - 1] + f[n - 1]
  <2> SUFFICES ASSUME NEW n \in 0 .. S
               PROVE  h[n] = IF n = 0 THEN 0 ELSE h[n - 1] + f[n - 1]
    OBVIOUS
  <2>1. [m \in 0 .. S |-> IF m = 0 THEN 0 ELSE h[m - 1] + f[m - 1]][n]
          = IF n = 0 THEN 0 ELSE h[n - 1] + f[n - 1]
    OBVIOUS
  <2> QED  BY <1>5, <2>1
<1> HIDE DEF Is
<1> DEFINE X == {n \in Nat : n <= S => h[n] = Cardinality(Below(n))}
<1>8. 0 \in X
  <2>1. 0 \in 0 .. S
    BY SizeAssumption
  <2> QED  BY <2>1, <1>2, <1>7
<1>9. ASSUME NEW n \in Nat, n \in X
      PROVE  n + 1 \in X
  <2> SUFFICES ASSUME n + 1 <= S PROVE h[n + 1] = Cardinality(Below(n + 1))
    OBVIOUS
  <2>1. PICK m : m = n + 1
    OBVIOUS
  <2>2. m \in 0 .. S /\ m # 0 /\ m - 1 = n /\ n < S /\ h[n] = Cardinality(Below(n))
    BY <2>1, <1>9, SizeAssumption
  <2>3. h[m] = h[n] + f[n]
    BY <2>2, <1>7
  <2> QED  BY <2>1, <2>2, <2>3, <1>1
<1>10. S \in X
  <2> HIDE DEF X
  <2> QED  BY <1>8, <1>9, SetInduction, SizeAssumption
<1>11. h[S] = Cardinality(Below(S))
  BY <1>10, SizeAssumption
<1> QED  BY <1>3, <1>6, <1>11

\* Counting along the third row, adding over the second and then the first counts
\* the entries.
LEMMA EntriesCounted ==
  ASSUME NEW T \in SUBSET Cells
  PROVE  Sum([r1 \in Rows |->
           Sum([r2 \in Rows |-> Cardinality({r3 \in Rows : <<r1, r2, r3>> \in T})])])
             = Cardinality(T)
<1>1. IsFiniteSet(T)
  BY CellsFinite, FS_Subset
<1>c. \A c \in T : /\ c[1] \in Rows /\ c[2] \in Rows /\ c[3] \in Rows
                   /\ c = <<c[1], c[2], c[3]>>
  BY DEF Cells
<1>2. ASSUME NEW r1 \in Rows, NEW r2 \in Rows
      PROVE  Cardinality({r3 \in Rows : <<r1, r2, r3>> \in T})
               = Cardinality({c \in T : c[1] = r1 /\ c[2] = r2})
  <2> DEFINE Third == {r3 \in Rows : <<r1, r2, r3>> \in T}
             At    == {c \in T : c[1] = r1 /\ c[2] = r2}
             g     == [r3 \in Third |-> <<r1, r2, r3>>]
  <2>1. \A r3 \in Third : g[r3] = <<r1, r2, r3>> /\ g[r3] \in At
    OBVIOUS
  <2>2. \A c \in At : c[3] \in Third /\ g[c[3]] = c
    BY <1>c
  <2>3. g \in [Third -> At]
    BY <2>1
  <2> HIDE DEF Third, At
  <2>4. g \in Injection(Third, At)
    <3>1. \A x, y \in Third : g[x] = g[y] => x = y
      OBVIOUS
    <3> HIDE DEF g
    <3> QED  BY <3>1, <2>3 DEF Injection, IsInjective
  <2>5. g \in Surjection(Third, At)
    <3> HIDE DEF g
    <3> QED  BY <2>2, <2>3 DEF Surjection
  <2>6. g \in Bijection(Third, At)
    BY <2>4, <2>5 DEF Bijection
  <2>7. IsFiniteSet(Third)
    <3>1. Third \in SUBSET Rows
      BY DEF Third
    <3> QED  BY <3>1, RowsFinite, FS_Subset
  <2>8. Cardinality(Third) = Cardinality(At)
    <3> HIDE DEF g
    <3> QED  BY <2>6, <2>7, FS_Bijection DEF ExistsBijection
  <2> QED  BY <2>8 DEF Third, At
<1>3. ASSUME NEW r1 \in Rows
      PROVE  Sum([r2 \in Rows |-> Cardinality({r3 \in Rows : <<r1, r2, r3>> \in T})])
               = Cardinality({c \in T : c[1] = r1})
  <2> DEFINE W == {c \in T : c[1] = r1}
             k == [c \in W |-> c[2]]
             f == [r2 \in Rows |-> Cardinality({r3 \in Rows : <<r1, r2, r3>> \in T})]
  <2>1. k \in [W -> Rows]
    BY <1>c
  <2>2. \A r \in Rows : f[r] = Cardinality({w \in W : k[w] = r})
    <3> SUFFICES ASSUME NEW r \in Rows PROVE f[r] = Cardinality({w \in W : k[w] = r})
      OBVIOUS
    <3>1. {w \in W : k[w] = r} = {c \in T : c[1] = r1 /\ c[2] = r}
      OBVIOUS
    <3>2. f[r] = Cardinality({r3 \in Rows : <<r1, r, r3>> \in T})
      OBVIOUS
    <3> HIDE DEF f, k, W
    <3> QED  BY <3>1, <3>2, <1>2
  <2>3. IsFiniteSet(W)
    BY <1>1, FS_Subset
  <2>4. Sum(f) = Cardinality(W)
    <3> HIDE DEF f, k, W
    <3> QED  BY <2>1, <2>2, <2>3, SumCounts
  <2> QED  BY <2>4
<1> DEFINE F == [r1 \in Rows |->
                   Sum([r2 \in Rows |-> Cardinality({r3 \in Rows : <<r1, r2, r3>> \in T})])]
           K == [c \in T |-> c[1]]
<1>4. K \in [T -> Rows]
  BY <1>c
<1>5. \A r \in Rows : F[r] = Cardinality({c \in T : K[c] = r})
  <2> SUFFICES ASSUME NEW r \in Rows PROVE F[r] = Cardinality({c \in T : K[c] = r})
    OBVIOUS
  <2>1. {c \in T : K[c] = r} = {c \in T : c[1] = r}
    OBVIOUS
  <2>2. F[r] = Sum([r2 \in Rows |-> Cardinality({r3 \in Rows : <<r, r2, r3>> \in T})])
    OBVIOUS
  <2> HIDE DEF F, K
  <2> QED  BY <2>1, <2>2, <1>3
<1>6. Sum(F) = Cardinality(T)
  <2> HIDE DEF F, K
  <2> QED  BY <1>1, <1>4, <1>5, SumCounts
<1> QED  BY <1>6

-----------------------------------------------------------------------------
(* The call of the baseline.                                               *)

BaseTypes ==
  /\ input \in Inputs
  /\ baseTdm \in SUBSET Cells
  /\ baseProjection \in SUBSET (Rows \X Rows)
  /\ visitedF \in SUBSET Rows /\ visitedB \in SUBSET Rows /\ eliminated \in SUBSET Rows
  /\ baseHost \in {"project", "reach", "trim", "update", "again", "sum", "done"}
  /\ term \in BOOLEAN
  /\ fbIter \in Nat /\ baseRounds \in Nat /\ fbIter <= baseRounds
  /\ baseHost \in {"reach", "trim", "update", "again"} =>
       fbIter > 0 /\ baseProjection = Projection(baseTdm, BaseFace)

\* Rows that no later round has to tell apart: trimmed, or marked by both searches.
Settled == eliminated \cup (visitedF \cap visitedB)

\* Every round after the first settles a row, its pivots at least.
RoundsInv ==
  /\ baseRounds <= S + 1
  /\ baseHost \in {"reach", "trim", "update"} => fbIter - 1 <= Cardinality(Settled)
  /\ baseHost = "again" /\ ~term => fbIter <= Cardinality(Settled)

SearchInv ==
  /\ baseHost = "reach" =>
       BetweenRounds(baseProjection, baseRanges, visitedF, visitedB, eliminated, fbIter - 1)
  /\ baseHost \in {"trim", "update"} =>
       AfterSearches(baseProjection, baseRanges, visitedF, visitedB, eliminated, fbIter - 1)
  /\ baseHost = "again" =>
       /\ BetweenRounds(baseProjection, baseRanges, visitedF, visitedB, eliminated, fbIter)
       /\ term => Rows \ eliminated \subseteq visitedF

\* The call is where the loop over the faces is after as many faces.
PlacedInv ==
  /\ Place(input, baseTdm, baseIter, baseNoChange)
  /\ baseNoChange = 3 <=> baseHost \in {"sum", "done"}
  /\ baseHost = "done" => baseResult = Cardinality(baseTdm)

BaseInv ==
  /\ BaseTypes
  /\ RoundsInv
  /\ baseRounds <= SafeRounds => SearchInv /\ PlacedInv

LEMMA RowSetBounded ==
  ASSUME NEW D \in SUBSET Rows
  PROVE  IsFiniteSet(D) /\ Cardinality(D) \in 0 .. S
<1>1. IsFiniteSet(Rows) /\ Cardinality(Rows) = S
  <2>1. 0 \in Int /\ S - 1 \in Int
    BY SizeAssumption
  <2>2. Cardinality(0 .. S - 1) = IF 0 > S - 1 THEN 0 ELSE (S - 1) - 0 + 1
    BY <2>1, FS_Interval
  <2> QED  BY <2>2, RowsFinite, SizeAssumption DEF Rows
<1>2. IsFiniteSet(D) /\ Cardinality(D) <= S /\ Cardinality(D) \in Nat
  BY <1>1, FS_Subset, FS_CardinalityType
<1> QED  BY <1>2, SizeAssumption

LEMMA InitBaseInv == BaseInit => BaseInv
<1> SUFFICES ASSUME BaseInit PROVE BaseInv
  OBVIOUS
<1>1. BaseTypes
  <2>1. input \in Inputs /\ baseTdm = input /\ baseTdm \in SUBSET Cells
    BY InputsAssumption DEF BaseInit
  <2>2. {} \in SUBSET Rows /\ {} \in SUBSET (Rows \X Rows)
    OBVIOUS
  <2>3. /\ baseHost = "project" /\ term = FALSE /\ fbIter = 0 /\ baseRounds = 0
        /\ baseProjection = {} /\ visitedF = {} /\ visitedB = {} /\ eliminated = {}
    BY DEF BaseInit
  <2>4. term \in BOOLEAN
    BY <2>3
  <2>5. fbIter \in Nat /\ baseRounds \in Nat /\ fbIter <= baseRounds
    BY <2>3
  <2> QED  BY <2>1, <2>2, <2>3, <2>4, <2>5, Zenon DEF BaseTypes
<1>2. RoundsInv
  BY SizeAssumption DEF BaseInit, RoundsInv
<1>3. SearchInv
  BY DEF BaseInit, SearchInv
<1>4. PlacedInv
  <2>1. Place(input, input, 0, 0)
    BY InputsAssumption, PlaceStarts DEF BaseInit
  <2> QED  BY <2>1 DEF BaseInit, PlacedInv
<1> QED  BY <1>1, <1>2, <1>3, <1>4 DEF BaseInv

LEMMA MoreRoundsFacts ==
  ASSUME NEW n \in Nat, baseRounds \in Nat
  PROVE  /\ MoreRounds(n) \in Nat /\ n <= MoreRounds(n) /\ baseRounds <= MoreRounds(n)
         /\ MoreRounds(n) = n \/ MoreRounds(n) = baseRounds
BY DEF MoreRounds

LEMMA ProjectBaseStep == BaseInv /\ ProjectBase => BaseInv'
<1> SUFFICES ASSUME BaseInv, ProjectBase PROVE BaseInv'
  OBVIOUS
<1>b. BaseTypes /\ RoundsInv
  BY DEF BaseInv
<1>r. /\ baseRounds' = MoreRounds(1) /\ baseRounds' \in Nat /\ 1 <= baseRounds'
      /\ baseRounds <= baseRounds' /\ baseRounds' <= S + 1
      /\ baseRounds \in Nat
  <2>1. baseRounds' = MoreRounds(1) /\ baseRounds \in Nat /\ baseRounds <= S + 1
    BY <1>b DEF ProjectBase, BaseTypes, RoundsInv
  <2>2. /\ MoreRounds(1) \in Nat /\ 1 <= MoreRounds(1) /\ baseRounds <= MoreRounds(1)
        /\ MoreRounds(1) = 1 \/ MoreRounds(1) = baseRounds
    BY <2>1, MoreRoundsFacts
  <2> QED  BY <2>1, <2>2, SizeAssumption
<1>1. BaseTypes'
  <2>1. baseProjection' \in SUBSET (Rows \X Rows)
    <3>1. Projection(baseTdm, BaseFace) \in SUBSET (Rows \X Rows)
      BY <1>b, ProjectionType DEF BaseTypes
    <3> QED  BY <3>1 DEF ProjectBase
  <2>2. /\ visitedF' = {} /\ visitedB' = {} /\ eliminated' = {} /\ fbIter' = 1 /\ term' = TRUE
        /\ baseHost' = "reach" /\ baseProjection' = Projection(baseTdm, BaseFace)
        /\ UNCHANGED <<input, baseTdm, baseIter>>
    BY DEF ProjectBase
  <2>3. (BaseFace)' = BaseFace
    BY <2>2 DEF BaseFace
  <2> QED  BY <1>b, <1>r, <2>1, <2>2, <2>3 DEF BaseTypes
<1>2. RoundsInv'
  <2>1. Cardinality(Settled)' \in 0 .. S
    <3>1. Settled' \in SUBSET Rows
      BY <1>1 DEF BaseTypes, Settled
    <3> QED  BY <3>1, RowSetBounded
  <2>2. baseHost' = "reach" /\ fbIter' = 1
    BY DEF ProjectBase
  <2> QED  BY <1>r, <2>1, <2>2, SizeAssumption DEF RoundsInv
<1>3. ASSUME baseRounds' <= SafeRounds
      PROVE  SearchInv' /\ PlacedInv'
  <2>1. PlacedInv
    <3>1. baseRounds <= SafeRounds
      BY <1>3, <1>r, IntAssumption
    <3> QED  BY <3>1 DEF BaseInv
  <2>2. PlacedInv'
    BY <2>1 DEF ProjectBase, PlacedInv
  <2>3. SearchInv'
    <3>1. PICK E, r : E = baseProjection' /\ r = baseRanges'
      OBVIOUS
    <3>2. \A u \in Rows : r[u] = 0
      BY <3>1 DEF ProjectBase
    <3>3. BetweenRounds(E, r, {}, {}, {}, 0)
      BY <3>2 DEF BetweenRounds, Coarse, Alone
    <3>4. /\ baseHost' = "reach" /\ fbIter' - 1 = 0
          /\ visitedF' = {} /\ visitedB' = {} /\ eliminated' = {}
      BY DEF ProjectBase
    <3> QED  BY <3>1, <3>3, <3>4 DEF SearchInv
  <2> QED  BY <2>2, <2>3
<1> QED  BY <1>1, <1>2, <1>3 DEF BaseInv

LEMMA ReachStep == BaseInv /\ Reach => BaseInv'
<1> SUFFICES ASSUME BaseInv, Reach PROVE BaseInv'
  OBVIOUS
<1>b. BaseTypes /\ RoundsInv
  BY DEF BaseInv
<1>u. /\ baseHost = "reach" /\ baseHost' = "trim"
      /\ UNCHANGED <<input, baseTdm, baseIter, baseNoChange, baseProjection, baseRanges,
                     eliminated, fbIter, term, baseRounds, baseResult>>
  BY DEF Reach
<1>e. Reverse(baseProjection) \in SUBSET (Rows \X Rows)
  BY <1>b, ReverseFacts DEF BaseTypes
<1>s. /\ Searched(visitedF', visitedF, baseProjection, baseRanges)
      /\ Searched(visitedB', visitedB, Reverse(baseProjection), baseRanges)
  BY <1>b, ForwardReachSearches DEF BaseTypes, Reach
<1>v. /\ visitedF' \in SUBSET Rows /\ visitedB' \in SUBSET Rows
      /\ visitedF \subseteq visitedF' /\ visitedB \subseteq visitedB'
  BY <1>s DEF Searched, ClosedIn
<1>1. BaseTypes'
  BY <1>b, <1>u, <1>v DEF BaseTypes, BaseFace
<1>2. RoundsInv'
  <2>1. PICK C, D : C = Settled /\ D = Settled'
    OBVIOUS
  <2>2. D \in SUBSET Rows /\ C \subseteq D
    BY <2>1, <1>b, <1>u, <1>v DEF BaseTypes, Settled
  <2>3. IsFiniteSet(D) /\ Cardinality(D) \in 0 .. S /\ Cardinality(C) \in 0 .. S
    BY <2>2, RowSetBounded
  <2>4. Cardinality(C) <= Cardinality(D)
    BY <2>2, <2>3, FS_Subset
  <2>5. fbIter - 1 <= Cardinality(C) /\ fbIter \in Nat
    BY <2>1, <1>b, <1>u DEF RoundsInv, BaseTypes
  <2>6. fbIter - 1 <= Cardinality(D)
    BY <2>3, <2>4, <2>5, SizeAssumption
  <2>7. baseRounds' <= S + 1 /\ fbIter' = fbIter
    BY <1>b, <1>u DEF RoundsInv
  <2> QED  BY <2>1, <2>6, <2>7, <1>u DEF RoundsInv
<1>3. ASSUME baseRounds' <= SafeRounds
      PROVE  SearchInv' /\ PlacedInv'
  <2>1. SearchInv /\ PlacedInv /\ baseRounds <= SafeRounds
    BY <1>3, <1>u DEF BaseInv
  <2>2. PlacedInv'
    BY <2>1, <1>u DEF PlacedInv
  <2>3. PICK n : n = fbIter - 1
    OBVIOUS
  <2>4. n \in 0 .. SafeRounds
    BY <2>1, <2>3, <1>b, <1>u, IntAssumption DEF BaseTypes
  <2>5. BetweenRounds(baseProjection, baseRanges, visitedF, visitedB, eliminated, n)
    BY <2>1, <2>3, <1>u DEF SearchInv
  <2>6. \A i \in 1 .. SafeRounds : LargestRange[i] \in Int
    BY LargestRangeFacts, IntAssumption
  <2>7. AfterSearches(baseProjection, baseRanges, visitedF', visitedB', eliminated, n)
    <3>1. baseProjection \in SUBSET (Rows \X Rows)
      BY <1>b DEF BaseTypes
    <3> QED  BY <3>1, <2>4, <2>5, <2>6, <1>s, SearchesFind
  <2>8. SearchInv'
    BY <2>3, <2>7, <1>u DEF SearchInv
  <2> QED  BY <2>2, <2>8
<1> QED  BY <1>1, <1>2, <1>3 DEF BaseInv

LEMMA TrimStepKeeps == BaseInv /\ Trim => BaseInv'
<1> SUFFICES ASSUME BaseInv, Trim PROVE BaseInv'
  OBVIOUS
<1>b. BaseTypes /\ RoundsInv
  BY DEF BaseInv
<1>u. /\ baseHost = "trim" /\ baseHost' = "update" /\ eliminated' = Trimmed(eliminated)
      /\ UNCHANGED <<input, baseTdm, baseIter, baseNoChange, baseProjection, baseRanges,
                     visitedF, visitedB, fbIter, term, baseRounds, baseResult>>
  BY DEF Trim
<1>v. eliminated' \in SUBSET Rows /\ eliminated \subseteq eliminated'
  BY <1>b, <1>u, TrimmedGrows DEF BaseTypes
<1>1. BaseTypes'
  BY <1>b, <1>u, <1>v DEF BaseTypes, BaseFace
<1>2. RoundsInv'
  <2>1. PICK C, D : C = Settled /\ D = Settled'
    OBVIOUS
  <2>2. D \in SUBSET Rows /\ C \subseteq D
    BY <2>1, <1>b, <1>u, <1>v DEF BaseTypes, Settled
  <2>3. IsFiniteSet(D) /\ Cardinality(D) \in 0 .. S /\ Cardinality(C) \in 0 .. S
    BY <2>2, RowSetBounded
  <2>4. Cardinality(C) <= Cardinality(D)
    BY <2>2, <2>3, FS_Subset
  <2>5. fbIter - 1 <= Cardinality(C) /\ fbIter \in Nat
    BY <2>1, <1>b, <1>u DEF RoundsInv, BaseTypes
  <2>6. fbIter - 1 <= Cardinality(D)
    BY <2>3, <2>4, <2>5, SizeAssumption
  <2>7. baseRounds' <= S + 1 /\ fbIter' = fbIter
    BY <1>b, <1>u DEF RoundsInv
  <2> QED  BY <2>1, <2>6, <2>7, <1>u DEF RoundsInv
<1>3. ASSUME baseRounds' <= SafeRounds
      PROVE  SearchInv' /\ PlacedInv'
  <2>1. SearchInv /\ PlacedInv
    BY <1>3, <1>u DEF BaseInv
  <2>2. PlacedInv'
    BY <2>1, <1>u DEF PlacedInv
  <2>3. PICK n, X1 : n = fbIter - 1 /\ X1 = eliminated'
    OBVIOUS
  <2>4. AfterSearches(baseProjection, baseRanges, visitedF, visitedB, eliminated, n)
    BY <2>1, <2>3, <1>u DEF SearchInv
  <2>5. Alone(baseProjection, X1)
    <3>1. /\ baseProjection \in SUBSET (Rows \X Rows) /\ eliminated \in SUBSET Rows
          /\ Coarse(baseProjection, baseRanges) /\ Alone(baseProjection, eliminated)
      BY <2>4, <1>b DEF AfterSearches, BaseTypes
    <3> QED  BY <3>1, <2>3, <1>u, TrimmedAlone
  <2>6. AfterSearches(baseProjection, baseRanges, visitedF, visitedB, X1, n)
    <3>1. X1 \in SUBSET Rows /\ \A u : u \notin X1 => u \notin eliminated
      BY <2>3, <1>v
    <3> QED  BY <3>1, <2>4, <2>5 DEF AfterSearches
  <2>7. SearchInv'
    BY <2>3, <2>6, <1>u DEF SearchInv
  <2> QED  BY <2>2, <2>7
<1> QED  BY <1>1, <1>2, <1>3 DEF BaseInv

LEMMA UpdateStep ==
  ASSUME BaseInv, NEW pivots \in SUBSET Rows, Update(pivots)
  PROVE  BaseInv'
<1>b. BaseTypes /\ RoundsInv
  BY DEF BaseInv
<1>u. /\ baseHost = "update" /\ baseHost' = "again" /\ term' = (pivots = {})
      /\ pivots \subseteq Open
      /\ visitedF' = (visitedF \ Open) \cup pivots
      /\ visitedB' = (visitedB \ Open) \cup pivots
      /\ UNCHANGED <<input, baseTdm, baseIter, baseNoChange, baseProjection, eliminated,
                     fbIter, baseRounds, baseResult>>
  BY DEF Update
<1>o. /\ Open \in SUBSET Rows
      /\ Open = {u \in Rows \ eliminated : ~(u \in visitedF /\ u \in visitedB)}
      /\ Open = Rows \ Settled
  BY DEF Open, Found, Settled
<1>v. visitedF' \in SUBSET Rows /\ visitedB' \in SUBSET Rows
  BY <1>b, <1>u DEF BaseTypes
<1>1. BaseTypes'
  <2>1. term' \in BOOLEAN
    BY <1>u
  <2> QED  BY <1>b, <1>u, <1>v, <2>1 DEF BaseTypes, BaseFace
<1>2. RoundsInv'
  <2>1. PICK C, D : C = Settled /\ D = Settled'
    OBVIOUS
  <2>2. /\ C \in SUBSET Rows /\ D \in SUBSET Rows
        /\ C \subseteq D /\ pivots \subseteq D /\ pivots \cap C = {}
    BY <2>1, <1>b, <1>u, <1>v, <1>o DEF BaseTypes, Settled
  <2>3. IsFiniteSet(D) /\ Cardinality(D) \in 0 .. S /\ Cardinality(C) \in 0 .. S
    BY <2>2, RowSetBounded
  <2>4. /\ Cardinality(C) <= Cardinality(D)
        /\ pivots # {} => Cardinality(C) # Cardinality(D)
    BY <2>2, <2>3, FS_Subset
  <2>5. fbIter - 1 <= Cardinality(C) /\ fbIter \in Nat
    BY <2>1, <1>b, <1>u DEF RoundsInv, BaseTypes
  <2>6. pivots # {} => fbIter <= Cardinality(D)
    BY <2>3, <2>4, <2>5, SizeAssumption
  <2>7. /\ baseRounds' <= S + 1 /\ fbIter' = fbIter
        /\ ~term' => pivots # {}
    BY <1>b, <1>u DEF RoundsInv
  <2> QED  BY <2>1, <2>6, <2>7, <1>u DEF RoundsInv
<1>3. ASSUME baseRounds' <= SafeRounds
      PROVE  SearchInv' /\ PlacedInv'
  <2>1. SearchInv /\ PlacedInv /\ baseRounds <= SafeRounds
    BY <1>3, <1>u DEF BaseInv
  <2>2. PlacedInv'
    BY <2>1, <1>u DEF PlacedInv
  <2>3. PICK n, r1, open : n = fbIter - 1 /\ r1 = baseRanges' /\ open = Open
    OBVIOUS
  <2>4. n \in 0 .. SafeRounds - 1 /\ n + 1 = fbIter
    BY <2>1, <2>3, <1>b, <1>u, IntAssumption DEF BaseTypes
  <2>5. AfterSearches(baseProjection, baseRanges, visitedF, visitedB, eliminated, n)
    BY <2>1, <2>3, <1>u DEF SearchInv
  <2>6. r1 = [u \in Rows |-> NewRangeOf(baseRanges, visitedF, visitedB, eliminated, u)]
    BY <2>3 DEF Update, NewRange, NewRangeOf, Told
  <2>7. \A u, v \in pivots : r1[u] = r1[v] => u = v
    BY <2>3 DEF Update
  <2>8. BetweenRounds(baseProjection, r1, (visitedF \ open) \cup pivots,
                      (visitedB \ open) \cup pivots, eliminated, n + 1)
    <3>1. open = {u \in Rows \ eliminated : ~(u \in visitedF /\ u \in visitedB)}
      BY <2>3, <1>o
    <3>2. pivots \subseteq open
      BY <2>3, <1>u
    <3> QED  BY <2>4, <2>5, <2>6, <2>7, <3>1, <3>2, UpdateTells
  <2>9. BetweenRounds(baseProjection, baseRanges, visitedF, visitedB, eliminated, fbIter)'
    BY <2>3, <2>4, <2>8, <1>u
  <2>10. ASSUME term'
         PROVE  Rows \ eliminated' \subseteq visitedF'
    <3>1. Open = {}
      BY <2>10, <1>u DEF Update
    <3>2. Rows \ eliminated \subseteq visitedF
      BY <3>1, <1>o
    <3> QED  BY <3>1, <3>2, <1>u
  <2>11. SearchInv'
    BY <2>9, <2>10, <1>u DEF SearchInv
  <2> QED  BY <2>2, <2>11
<1> QED  BY <1>1, <1>2, <1>3 DEF BaseInv

LEMMA NextRoundStep == BaseInv /\ NextRound => BaseInv'
<1> SUFFICES ASSUME BaseInv, NextRound PROVE BaseInv'
  OBVIOUS
<1>b. BaseTypes /\ RoundsInv
  BY DEF BaseInv
<1>u. /\ baseHost = "again" /\ baseHost' = "reach" /\ ~term /\ term' = TRUE
      /\ fbIter' = fbIter + 1 /\ baseRounds' = MoreRounds(fbIter + 1)
      /\ UNCHANGED <<input, baseTdm, baseIter, baseNoChange, baseProjection, baseRanges,
                     visitedF, visitedB, eliminated, baseResult>>
  BY DEF NextRound
<1>c. Cardinality(Settled) \in 0 .. S /\ fbIter \in Nat /\ fbIter <= Cardinality(Settled)
  <2>1. Settled \in SUBSET Rows
    BY <1>b DEF BaseTypes, Settled
  <2> QED  BY <2>1, <1>b, <1>u, RowSetBounded DEF BaseTypes, RoundsInv
<1>r. /\ baseRounds' \in Nat /\ fbIter' \in Nat /\ fbIter' <= baseRounds' /\ fbIter' > 0
      /\ baseRounds <= baseRounds' /\ baseRounds' <= S + 1 /\ baseRounds \in Nat
  <2>1. baseRounds \in Nat /\ baseRounds <= S + 1 /\ fbIter + 1 \in Nat
    BY <1>b, <1>c DEF BaseTypes, RoundsInv
  <2>2. /\ MoreRounds(fbIter + 1) \in Nat /\ fbIter + 1 <= MoreRounds(fbIter + 1)
        /\ baseRounds <= MoreRounds(fbIter + 1)
        /\ MoreRounds(fbIter + 1) = fbIter + 1 \/ MoreRounds(fbIter + 1) = baseRounds
    BY <2>1, MoreRoundsFacts
  <2>3. fbIter + 1 <= S + 1
    BY <1>c, SizeAssumption
  <2> QED  BY <1>u, <1>c, <2>1, <2>2, <2>3
<1>1. BaseTypes'
  BY <1>b, <1>u, <1>r DEF BaseTypes, BaseFace
<1>2. RoundsInv'
  <2>1. Settled' = Settled
    BY <1>u DEF Settled
  <2>2. fbIter' - 1 <= Cardinality(Settled)
    BY <1>u, <1>c
  <2> QED  BY <1>u, <1>r, <2>1, <2>2 DEF RoundsInv
<1>3. ASSUME baseRounds' <= SafeRounds
      PROVE  SearchInv' /\ PlacedInv'
  <2>1. SearchInv /\ PlacedInv
    <3>1. baseRounds <= SafeRounds
      BY <1>3, <1>r, IntAssumption
    <3> QED  BY <3>1 DEF BaseInv
  <2>2. PlacedInv'
    BY <2>1, <1>u DEF PlacedInv
  <2>3. fbIter' - 1 = fbIter
    BY <1>u, <1>c
  <2>4. SearchInv'
    BY <2>1, <2>3, <1>u DEF SearchInv
  <2> QED  BY <2>2, <2>4
<1> QED  BY <1>1, <1>2, <1>3 DEF BaseInv

\* Deleting by the ranges of the searches keeps what the loop keeps.
LEMMA FoundFace ==
  ASSUME BaseTypes, SearchInv, baseHost = "again", term, baseRounds <= SafeRounds
  PROVE  /\ ComponentsFound
         /\ baseTdm \ BaseDeleted = Keep(baseTdm, BaseFace)
         /\ BaseDeleted = {} <=> Keep(baseTdm, BaseFace) = baseTdm
<1>1. fbIter \in 1 .. SafeRounds
  BY IntAssumption DEF BaseTypes
<1>2. /\ BetweenRounds(baseProjection, baseRanges, visitedF, visitedB, eliminated, fbIter)
      /\ Rows \ eliminated \subseteq visitedF
  BY DEF SearchInv
<1>3. ASSUME NEW u \in Rows, NEW v \in Rows
      PROVE  SameRange(u, v) <=> SameScc(baseProjection, u, v)
  BY <1>1, <1>2, AllFound DEF SameRange
<1>4. baseTdm \in SUBSET Cells /\ baseProjection = Projection(baseTdm, BaseFace)
  BY DEF BaseTypes
<1>5. ASSUME NEW c \in baseTdm
      PROVE  c \in BaseDeleted <=> c \notin Keep(baseTdm, BaseFace)
  <2>1. Edge(BaseFace, c)[1] \in Rows /\ Edge(BaseFace, c)[2] \in Rows
    BY <1>4, EdgeIsPair
  <2>2. SameRange(Edge(BaseFace, c)[1], Edge(BaseFace, c)[2])
          <=> SameScc(baseProjection, Edge(BaseFace, c)[1], Edge(BaseFace, c)[2])
    BY <2>1, <1>3
  <2> QED  BY <2>2, <1>4 DEF BaseDeleted, Keep
<1>6. BaseDeleted \subseteq baseTdm /\ Keep(baseTdm, BaseFace) \subseteq baseTdm
  BY DEF BaseDeleted, Keep
<1>7. ComponentsFound
  BY <1>3 DEF ComponentsFound
<1> QED  BY <1>5, <1>6, <1>7

LEMMA ModifyBaseStep == BaseInv /\ ModifyBase => BaseInv'
<1> SUFFICES ASSUME BaseInv, ModifyBase PROVE BaseInv'
  OBVIOUS
<1>b. BaseTypes /\ RoundsInv
  BY DEF BaseInv
<1>u. /\ baseHost = "again" /\ term
      /\ baseTdm' = baseTdm \ BaseDeleted
      /\ baseNoChange' = IF BaseDeleted = {} THEN baseNoChange + 1 ELSE 0
      /\ baseIter' = baseIter + 1
      /\ baseHost' = IF baseNoChange' < 3 THEN "project" ELSE "sum"
      /\ UNCHANGED <<input, baseProjection, baseRanges, visitedF, visitedB, eliminated,
                     fbIter, term, baseRounds, baseResult>>
  BY DEF ModifyBase
<1>h. baseHost' = "project" \/ baseHost' = "sum"
  BY <1>u
<1>1. BaseTypes'
  BY <1>b, <1>u, <1>h DEF BaseTypes
<1>2. RoundsInv'
  BY <1>b, <1>u, <1>h DEF RoundsInv
<1>3. ASSUME baseRounds' <= SafeRounds
      PROVE  SearchInv' /\ PlacedInv'
  <2>1. SearchInv /\ PlacedInv /\ baseRounds <= SafeRounds
    BY <1>3, <1>u DEF BaseInv
  <2>2. SearchInv'
    BY <1>h DEF SearchInv
  <2>3. PICK U, k : U = Keep(baseTdm, baseIter % 3) /\ k = IF U = baseTdm THEN baseNoChange + 1 ELSE 0
    OBVIOUS
  <2>4. baseTdm' = U /\ baseNoChange' = k
    BY <2>1, <2>3, <1>b, <1>u, FoundFace DEF BaseFace
  <2>5. baseNoChange \in 0 .. 2
    BY <2>1, <1>u DEF PlacedInv, Place
  <2>6. Place(input, U, baseIter + 1, k)
    <3>1. Place(input, baseTdm, baseIter, baseNoChange) /\ baseNoChange < 3
      BY <2>1, <2>5 DEF PlacedInv
    <3> QED  BY <3>1, <2>3, PlaceStep
  <2>7. k \in 0 .. 3
    BY <2>3, <2>5
  <2>8. /\ baseNoChange' = 3 <=> baseHost' = "sum"
        /\ baseHost' # "done"
    BY <2>4, <2>7, <1>u
  <2>9. Place(input, baseTdm, baseIter, baseNoChange)'
    BY <2>4, <2>6, <1>u
  <2>10. PlacedInv'
    BY <2>8, <2>9 DEF PlacedInv
  <2> QED  BY <2>2, <2>10
<1> QED  BY <1>1, <1>2, <1>3 DEF BaseInv

LEMMA SumBaseStep == BaseInv /\ SumBase => BaseInv'
<1> SUFFICES ASSUME BaseInv, SumBase PROVE BaseInv'
  OBVIOUS
<1>b. BaseTypes /\ RoundsInv
  BY DEF BaseInv
<1>u. /\ baseHost = "sum" /\ baseHost' = "done"
      /\ UNCHANGED <<input, baseTdm, baseIter, baseNoChange, baseProjection, baseRanges,
                     visitedF, visitedB, eliminated, fbIter, term, baseRounds>>
  BY DEF SumBase
<1>1. BaseTypes'
  BY <1>b, <1>u DEF BaseTypes
<1>2. RoundsInv'
  BY <1>b, <1>u DEF RoundsInv
<1>3. ASSUME baseRounds' <= SafeRounds
      PROVE  SearchInv' /\ PlacedInv'
  <2>1. PlacedInv
    BY <1>3, <1>u DEF BaseInv
  <2>2. SearchInv'
    BY <1>u DEF SearchInv
  <2>3. baseResult' = Cardinality(baseTdm)
    <3>1. baseTdm \in SUBSET Cells
      BY <1>b DEF BaseTypes
    <3> QED  BY <3>1, EntriesCounted DEF SumBase
  <2>4. PlacedInv'
    BY <2>1, <2>3, <1>u DEF PlacedInv
  <2> QED  BY <2>2, <2>4
<1> QED  BY <1>1, <1>2, <1>3 DEF BaseInv

LEMMA NextBaseInv == BaseInv /\ [BaseNext]_baseVars => BaseInv'
<1>1. BaseInv /\ UNCHANGED baseVars => BaseInv'
  BY DEF baseVars, BaseInv, BaseTypes, BaseFace, RoundsInv, Settled, SearchInv, PlacedInv
<1> QED  BY <1>1, ProjectBaseStep, ReachStep, TrimStepKeeps, UpdateStep, NextRoundStep,
            ModifyBaseStep, SumBaseStep DEF BaseNext

\* simplify_cuda_inner of the baseline: as long as the ranges fit, every search and
\* every trim leaves the components together, of each range at most one is found,
\* and the call is where the loop of simplify_cpu is after as many faces.  However
\* they wrap, a round settles a row.
THEOREM BaseInvariance == BaseSpec => []BaseInv
<1> QED  BY InitBaseInv, NextBaseInv, PTL DEF BaseSpec

LEMMA ExactWithinRounds ==
  ASSUME BaseInv, baseRounds <= SafeRounds
  PROVE  ComponentsFound /\ BaseResultExact
<1>1. ComponentsFound
  <2>1. CASE baseHost = "again" /\ term
    BY <2>1, FoundFace DEF BaseInv
  <2>2. CASE ~(baseHost = "again" /\ term)
    BY <2>2 DEF ComponentsFound
  <2> QED  BY <2>1, <2>2
<1>2. BaseResultExact
  BY DEF BaseInv, PlacedInv, Place, TrialOK, BaseResultExact
<1> QED  BY <1>1, <1>2

\* BaselineExact of the baseline's device code, for every size of puzzle, every
\* instance, every choice of pivots and every width of the ranges: the pivots'
\* searches find the strongly connected components and the call returns the number
\* of entries of the stable rest, unless a face took too many rounds for the ranges;
\* and no face takes more rounds than there are rows, and one.
THEOREM BaselineIsExact == BaseSpec => []BaselineExact
<1>1. BaseInv => fbIter <= baseRounds /\ baseRounds <= S + 1
  BY DEF BaseInv, BaseTypes, RoundsInv
<1>2. BaseInv => BaselineExact
  BY <1>1, ExactWithinRounds DEF BaselineExact
<1> QED  BY <1>2, BaseInvariance, PTL

\* So the baseline's device code is right, whatever the pivots, for every puzzle with
\* fewer rows than there are rounds of ranges that fit: fifteen rows, with the
\* sixteen rounds of a 32-bit int.
THEOREM SmallPuzzlesExact ==
  ASSUME S + 1 <= SafeRounds
  PROVE  BaseSpec => [](ComponentsFound /\ BaseResultExact)
<1>1. BaseInv => baseRounds <= SafeRounds
  BY SizeAssumption, IntAssumption DEF BaseInv, BaseTypes, RoundsInv
<1>2. BaseInv => ComponentsFound /\ BaseResultExact
  BY <1>1, ExactWithinRounds
<1> QED  BY <1>2, BaseInvariance, PTL
=============================================================================
