------------------------------ MODULE TdmFacts ------------------------------
(***************************************************************************)
(* Lemmas about the faces of an instance, for every size of puzzle, that   *)
(* the proofs about the versions of the simplification and about the tests *)
(* of an edge have in common: rows and their numbers, reachability, and    *)
(* what the strongly connected components have to do with matchings.       *)
(***************************************************************************)
EXTENDS Tdm, FiniteSetTheorems, WellFoundedInduction, TLAPS

-----------------------------------------------------------------------------
(* Induction.                                                              *)

\* Induction over the naturals, for a set of them.
LEMMA SetInduction ==
  ASSUME NEW X, 0 \in X, \A n \in Nat : n \in X => n + 1 \in X
  PROVE  Nat \subseteq X
<1> DEFINE T == Nat \ X
           R == OpToRel(<, Nat)
<1>1. SUFFICES ASSUME T # {} PROVE FALSE
  OBVIOUS
<1>2. IsWellFoundedOn(R, Nat)
  BY NatLessThanWellFounded
<1>3. PICK n \in T : \A m \in T : ~(<<m, n>> \in R)
  <2> HIDE DEF R
  <2> QED  BY <1>1, <1>2, WFMin
<1>4. \A m \in T : ~(m < n)
  BY <1>3 DEF OpToRel
<1>5. n # 0 /\ n \in Nat
  BY <1>3
<1>6. n - 1 \in Nat /\ n - 1 < n /\ (n - 1) + 1 = n
  BY <1>5
<1>7. n - 1 \in X
  BY <1>4, <1>6
<1> QED  BY <1>3, <1>6, <1>7

\* A set of rows that is not empty has a least one.
LEMMA LeastExists ==
  ASSUME NEW R \in SUBSET Rows, R # {}
  PROVE  \E x \in R : \A y \in R : x <= y
<1>1. SUFFICES ASSUME \A x \in R : \E y \in R : ~(x <= y)
               PROVE  FALSE
  OBVIOUS
<1> DEFINE X == {n \in Nat : \A x \in R : n <= x}
<1>2. \A x \in R : x \in Nat /\ x < S
  BY SizeAssumption DEF Rows
<1>3. 0 \in X
  BY <1>2
<1>4. ASSUME NEW n \in Nat, n \in X
      PROVE  n + 1 \in X
  <2> SUFFICES ASSUME NEW x \in R PROVE n + 1 <= x
    OBVIOUS
  <2>1. n <= x /\ x \in Nat
    BY <1>2, <1>4
  <2>2. n # x
    <3>1. PICK y \in R : ~(x <= y)
      BY <1>1
    <3> QED  BY <3>1, <1>2, <1>4
  <2> QED  BY <2>1, <2>2
<1>5. S \in X
  <2> HIDE DEF X
  <2> QED  BY <1>3, <1>4, SetInduction, SizeAssumption
<1> QED  BY <1>2, <1>5, SizeAssumption

-----------------------------------------------------------------------------
(* Rows and reachability.                                                  *)

\* More edges reach more rows.
LEMMA ReachesMonotone ==
  ASSUME NEW E, NEW F, E \subseteq F, NEW u, NEW v, Reaches(E, u, v)
  PROVE  Reaches(F, u, v)
<1> SUFFICES ASSUME NEW R \in SUBSET Rows, u \in R, IsClosed(F, R)
             PROVE  v \in R
  BY DEF Reaches
<1>1. IsClosed(E, R)
  BY DEF IsClosed
<1> QED  BY <1>1 DEF Reaches

LEMMA RowsFinite == IsFiniteSet(Rows)
BY SizeAssumption, FS_Interval DEF Rows

\* An injection of a set of rows into itself hits every one of them.
LEMMA InjectiveIsOnto ==
  ASSUME NEW R \in SUBSET Rows, NEW g \in [R -> R],
         \A x, y \in R : g[x] = g[y] => x = y
  PROVE  \A y \in R : \E x \in R : g[x] = y
<1>1. IsFiniteSet(R)
  BY RowsFinite, FS_Subset
<1>2. g \in Injection(R, R)
  BY DEF Injection, IsInjective
<1>3. g \in Surjection(R, R)
  BY <1>1, <1>2, FS_Injection
<1> QED  BY <1>3 DEF Surjection

\* If every row has exactly one edge out and at most one edge in, the edges
\* form cycles: each joins two rows of one strongly connected component.
LEMMA CyclesAreComponents ==
  ASSUME NEW E \in SUBSET (Rows \X Rows),
         \A x \in Rows : \E y \in Rows : <<x, y>> \in E,
         \A x, y, z \in Rows : <<x, z>> \in E /\ <<y, z>> \in E => x = y,
         \A x, y, z \in Rows : <<x, y>> \in E /\ <<x, z>> \in E => y = z,
         NEW u \in Rows, NEW v \in Rows, <<u, v>> \in E
  PROVE  SameScc(E, u, v)
<1>1. Reaches(E, u, v)
  BY DEF Reaches, IsClosed
<1>2. Reaches(E, v, u)
  <2> SUFFICES ASSUME NEW R \in SUBSET Rows, v \in R, IsClosed(E, R)
               PROVE  u \in R
    BY DEF Reaches
  <2> DEFINE g == [x \in R |-> CHOOSE y \in Rows : <<x, y>> \in E]
  <2>1. \A x \in R : g[x] \in R /\ <<x, g[x]>> \in E
    BY DEF IsClosed
  <2>2. g \in [R -> R]
    BY <2>1
  <2> HIDE DEF g
  <2>3. \A x, y \in R : g[x] = g[y] => x = y
    BY <2>1
  <2>4. PICK x \in R : g[x] = v
    BY <2>2, <2>3, InjectiveIsOnto
  <2> QED  BY <2>1, <2>4
<1> QED  BY <1>1, <1>2 DEF SameScc

-----------------------------------------------------------------------------
(* Perfect matchings and components.                                       *)

\* m is a way to give back to v what the rest of the face can give: its row
\* at w goes to v, and every other row along an edge.
Rotation(E, m, v, w) ==
  /\ m \in Perms
  /\ m[w] = v
  /\ \A x \in Rows \ {w} : <<x, m[x]>> \in E

\* All rows of R have one that moves no row outside R.
Rotatable(E, v, R) ==
  /\ R \in SUBSET Rows
  /\ v \in R
  /\ \A w \in R : \E m : Rotation(E, m, v, w) /\ \A x \in Rows \ R : m[x] = x

\* An edge out of R makes R larger: the row it leads to takes over.
LEMMA RotatableStep ==
  ASSUME NEW E, \A r \in Rows : <<r, r>> \in E,
         NEW v \in Rows, NEW R, Rotatable(E, v, R),
         NEW w \in R, NEW y \in Rows, y \notin R, <<w, y>> \in E
  PROVE  Rotatable(E, v, R \cup {y})
<1>0. R \in SUBSET Rows /\ v \in R
  BY DEF Rotatable
<1>1. PICK m : Rotation(E, m, v, w) /\ \A x \in Rows \ R : m[x] = x
  BY DEF Rotatable
<1>2. /\ m \in [Rows -> Rows] /\ m[w] = v /\ m[y] = y
      /\ \A i, j \in Rows : m[i] = m[j] => i = j
      /\ \A x \in Rows \ {w} : <<x, m[x]>> \in E
  BY <1>1 DEF Rotation, Perms
<1> DEFINE n == [x \in Rows |-> IF x = w THEN y ELSE IF x = y THEN v ELSE m[x]]
<1>3. n \in Perms
  <2>1. n \in [Rows -> Rows]
    BY <1>2
  <2>2. ASSUME NEW i \in Rows, NEW j \in Rows, n[i] = n[j]
        PROVE  i = j
    BY <2>2, <1>0, <1>2
  <2> HIDE DEF n
  <2> QED  BY <2>1, <2>2 DEF Perms
<1>4. Rotation(E, n, v, y)
  <2>1. n[y] = v
    BY <1>0
  <2>2. \A x \in Rows \ {y} : <<x, n[x]>> \in E
    BY <1>2
  <2> HIDE DEF n
  <2> QED  BY <2>1, <2>2, <1>3 DEF Rotation
<1>5. \A x \in Rows \ (R \cup {y}) : n[x] = x
  BY <1>0, <1>1
<1> HIDE DEF n
<1>6. ASSUME NEW z \in R \cup {y}
      PROVE  \E l : Rotation(E, l, v, z) /\ \A x \in Rows \ (R \cup {y}) : l[x] = x
  <2>1. CASE z = y
    BY <2>1, <1>4, <1>5
  <2>2. CASE z \in R
    <3>1. PICK l : Rotation(E, l, v, z) /\ \A x \in Rows \ R : l[x] = x
      BY <2>2 DEF Rotatable
    <3> QED  BY <3>1
  <2> QED  BY <2>1, <2>2
<1> QED  BY <1>0, <1>6 DEF Rotatable

\* Some rotatable set is closed: it holds all rows that v reaches.
LEMMA RotatableClosed ==
  ASSUME NEW E \in SUBSET (Rows \X Rows), \A r \in Rows : <<r, r>> \in E, NEW v \in Rows
  PROVE  \E R : Rotatable(E, v, R) /\ IsClosed(E, R)
<1> SUFFICES ASSUME \A R : Rotatable(E, v, R) => ~IsClosed(E, R)
             PROVE  FALSE
  OBVIOUS
<1>0. \A R : Rotatable(E, v, R) => IsFiniteSet(R) /\ Cardinality(R) \in Nat /\ Cardinality(R) <= S
  <2> SUFFICES ASSUME NEW R, Rotatable(E, v, R)
               PROVE  IsFiniteSet(R) /\ Cardinality(R) \in Nat /\ Cardinality(R) <= S
    OBVIOUS
  <2>1. R \in SUBSET Rows
    BY DEF Rotatable
  <2>2. IsFiniteSet(R) /\ Cardinality(R) <= Cardinality(Rows)
    BY <2>1, RowsFinite, FS_Subset
  <2>3. Cardinality(Rows) = S
    <3>1. Cardinality(0 .. S - 1) = IF 0 > S - 1 THEN 0 ELSE (S - 1) - 0 + 1
      BY SizeAssumption, FS_Interval
    <3> QED  BY <3>1, SizeAssumption DEF Rows
  <2> QED  BY <2>2, <2>3, FS_CardinalityType
<1> DEFINE X == {n \in Nat : \E R : Rotatable(E, v, R) /\ n <= Cardinality(R)}
<1>1. 0 \in X
  <2> DEFINE id == [r \in Rows |-> r]
  <2>1. Rotation(E, id, v, v) /\ \A x \in Rows \ {v} : id[x] = x
    BY DEF Rotation, Perms
  <2> HIDE DEF id
  <2>2. Rotatable(E, v, {v})
    BY <2>1 DEF Rotatable
  <2>3. Cardinality({v}) = 1
    BY FS_Singleton
  <2> QED  BY <2>2, <2>3
<1>2. ASSUME NEW n \in Nat, n \in X
      PROVE  n + 1 \in X
  <2>1. PICK R : Rotatable(E, v, R) /\ n <= Cardinality(R)
    BY <1>2
  <2>2. PICK e \in E : e[1] \in R /\ e[2] \notin R
    BY <2>1 DEF IsClosed
  <2>3. e[2] \in Rows /\ <<e[1], e[2]>> \in E
    OBVIOUS
  <2>4. Rotatable(E, v, R \cup {e[2]})
    BY <2>1, <2>2, <2>3, RotatableStep
  <2>5. Cardinality(R \cup {e[2]}) = Cardinality(R) + 1
    BY <2>1, <2>2, <1>0, FS_AddElement
  <2>6. n + 1 <= Cardinality(R \cup {e[2]})
    BY <2>1, <2>5, <1>0
  <2> QED  BY <2>4, <2>6
<1>3. S + 1 \in X
  <2> HIDE DEF X
  <2> QED  BY <1>1, <1>2, SetInduction, SizeAssumption
<1> QED  BY <1>0, <1>3, SizeAssumption

\* A perfect matching of edges of E that uses e.
Uses(E, e) ==
  \E m \in Perms : m[e[1]] = e[2] /\ \A x \in Rows \ {e[1]} : <<x, m[x]>> \in E

\* With the diagonal among its edges, the edges of a face that are in perfect
\* matchings are those within a strongly connected component.
LEMMA UsedWithinComponent ==
  ASSUME NEW E \in SUBSET (Rows \X Rows), \A r \in Rows : <<r, r>> \in E,
         NEW u \in Rows, NEW v \in Rows, <<u, v>> \in E
  PROVE  Uses(E, <<u, v>>) <=> SameScc(E, u, v)
<1>1. ASSUME Uses(E, <<u, v>>)
      PROVE  SameScc(E, u, v)
  <2>1. PICK m \in Perms : m[u] = v /\ \A x \in Rows \ {u} : <<x, m[x]>> \in E
    BY <1>1 DEF Uses
  <2> DEFINE M == {<<x, m[x]>> : x \in Rows}
  <2>2. m \in [Rows -> Rows] /\ \A x, y \in Rows : m[x] = m[y] => x = y
    BY DEF Perms
  <2>3. M \in SUBSET (Rows \X Rows) /\ M \subseteq E /\ <<u, v>> \in M
    BY <2>1, <2>2
  <2>4. /\ \A x \in Rows : \E y \in Rows : <<x, y>> \in M
        /\ \A x, y, z \in Rows : <<x, z>> \in M /\ <<y, z>> \in M => x = y
        /\ \A x, y, z \in Rows : <<x, y>> \in M /\ <<x, z>> \in M => y = z
    BY <2>2
  <2> HIDE DEF M
  <2>5. SameScc(M, u, v)
    BY <2>3, <2>4, CyclesAreComponents
  <2> QED  BY <2>3, <2>5, ReachesMonotone DEF SameScc
<1>2. ASSUME SameScc(E, u, v)
      PROVE  Uses(E, <<u, v>>)
  <2>1. PICK R : Rotatable(E, v, R) /\ IsClosed(E, R)
    BY RotatableClosed
  <2>2. u \in R
    BY <1>2, <2>1 DEF SameScc, Reaches, Rotatable
  <2>3. PICK m : Rotation(E, m, v, u)
    BY <2>1, <2>2 DEF Rotatable
  <2> QED  BY <2>3 DEF Rotation, Uses
<1> QED  BY <1>1, <1>2
=============================================================================
