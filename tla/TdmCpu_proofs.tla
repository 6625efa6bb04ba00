-------------------------- MODULE TdmCpu_proofs --------------------------
(***************************************************************************)
(* Proofs about the simplification of 3D matching instances, for every     *)
(* size of puzzle and every instance.                                      *)
(*                                                                         *)
(* First the loop over the faces.  Simplifying a face is monotone in the   *)
(* instance, so a part of it that no face can simplify survives every      *)
(* step; the loop ends in such a part, which is therefore the largest.     *)
(* The perfect matchings are parts that no face can simplify, because the  *)
(* edges a matching shows on a face are the cycles of a permutation.       *)
(*                                                                         *)
(* Then TDM::simplify_cpu: the counts and the doubly linked lists that it  *)
(* maintains edge by edge are always those of the instance that is left,   *)
(* and the faces it simplifies with them are those of the loop.            *)
(***************************************************************************)
EXTENDS TdmSimplify, TdmCpu, TdmFacts

-----------------------------------------------------------------------------
(* One face.                                                               *)

LEMMA KeepSubset ==
  ASSUME NEW T, NEW f
  PROVE  Keep(T, f) \subseteq T
BY DEF Keep

LEMMA KeepMonotone ==
  ASSUME NEW U, NEW T, U \subseteq T, NEW f
  PROVE  Keep(U, f) \subseteq Keep(T, f)
<1> SUFFICES ASSUME NEW c \in Keep(U, f)
             PROVE  c \in Keep(T, f)
  OBVIOUS
<1> DEFINE e == Edge(f, c)
<1>1. c \in T
  BY KeepSubset
<1>2. Projection(U, f) \subseteq Projection(T, f)
  BY DEF Projection
<1>3. SameScc(Projection(U, f), e[1], e[2])
  BY DEF Keep
<1>4. /\ Reaches(Projection(U, f), e[1], e[2])
      /\ Reaches(Projection(U, f), e[2], e[1])
  BY <1>3 DEF SameScc
<1>5. SameScc(Projection(T, f), e[1], e[2])
  <2> HIDE DEF e
  <2>1. Reaches(Projection(T, f), e[1], e[2])
    BY <1>2, <1>4, ReachesMonotone
  <2>2. Reaches(Projection(T, f), e[2], e[1])
    BY <1>2, <1>4, ReachesMonotone
  <2> QED  BY <2>1, <2>2 DEF SameScc
<1> QED  BY <1>1, <1>5 DEF Keep

\* A part no face can simplify survives the simplification of any face.
LEMMA StableSurvives ==
  ASSUME NEW U, NEW T, U \subseteq T, Stable(U), NEW f \in Faces
  PROVE  U \subseteq Keep(T, f)
<1>1. Keep(U, f) = U
  BY DEF Stable
<1> QED  BY <1>1, KeepMonotone

-----------------------------------------------------------------------------
(* The loop.                                                               *)

\* Every stable part of the input is still there, and the last faces counted
\* by noChange leave the instance as it is.
StablePartsKept == \A U \in SUBSET input : Stable(U) => U \subseteq tdm

LastFacesIdle ==
  /\ noChange <= iter
  /\ \A j \in 1 .. noChange : Keep(tdm, (iter - j) % 3) = tdm

IInv == TypeOK /\ StablePartsKept /\ LastFacesIdle

LEMMA InitIInv == Init => IInv
<1> SUFFICES ASSUME Init PROVE IInv
  OBVIOUS
<1>1. TypeOK
  BY DEF Init, TypeOK
<1>2. StablePartsKept
  BY DEF Init, StablePartsKept
<1>3. LastFacesIdle
  BY DEF Init, LastFacesIdle
<1> QED  BY <1>1, <1>2, <1>3 DEF IInv

LEMMA NextIInv == IInv /\ [Next]_vars => IInv'
<1> SUFFICES ASSUME IInv, [Next]_vars PROVE IInv'
  OBVIOUS
<1>1. CASE SimplifyFace
  <2> DEFINE f == iter % 3
  <2>t. TypeOK /\ StablePartsKept /\ LastFacesIdle
    BY DEF IInv
  <2>f. f \in Faces /\ iter \in Nat
    BY <2>t DEF TypeOK, Faces
  <2> HIDE DEF f
  <2>s. /\ tdm' = Keep(tdm, f) /\ iter' = iter + 1 /\ input' = input
        /\ noChange < 3 /\ noChange' = IF tdm' = tdm THEN noChange + 1 ELSE 0
    BY <1>1 DEF SimplifyFace, f
  <2>1. TypeOK'
    <3>1. tdm' \subseteq tdm
      BY <2>s, KeepSubset
    <3>2. noChange' \in 0 .. 3
      BY <2>s, <2>t DEF TypeOK
    <3> QED  BY <3>1, <3>2, <2>s, <2>t DEF TypeOK
  <2>2. StablePartsKept'
    <3> SUFFICES ASSUME NEW U \in SUBSET input, Stable(U)
                 PROVE  U \subseteq tdm'
      BY <2>s DEF StablePartsKept
    <3>1. U \subseteq tdm
      BY <2>t DEF StablePartsKept
    <3> QED  BY <3>1, <2>f, <2>s, StableSurvives
  <2>3. LastFacesIdle'
    <3>1. CASE tdm' # tdm
      BY <3>1, <2>s, <2>f DEF LastFacesIdle
    <3>2. CASE tdm' = tdm
      <4>0. noChange \in Nat /\ noChange <= iter
        BY <2>t DEF TypeOK, LastFacesIdle
      <4>a. noChange' = noChange + 1 /\ iter' = iter + 1
        BY <3>2, <2>s
      <4>1. noChange' = noChange + 1 /\ noChange \in Nat /\ noChange' <= iter'
        BY <4>0, <4>a, <2>f
      <4>2. ASSUME NEW j \in 1 .. noChange'
            PROVE  Keep(tdm', (iter' - j) % 3) = tdm'
        <5>1. CASE j = 1
          <6>1. (iter' - j) % 3 = f
            BY <5>1, <2>s, <2>f DEF f
          <6> QED  BY <6>1, <3>2, <2>s
        <5>2. CASE j # 1
          <6>1. j - 1 \in 1 .. noChange /\ iter' - j = iter - (j - 1)
            BY <5>2, <4>1, <2>s, <2>f
          <6> QED  BY <6>1, <3>2, <2>t DEF LastFacesIdle
        <5> QED  BY <5>1, <5>2
      <4> QED  BY <4>1, <4>2 DEF LastFacesIdle
    <3> QED  BY <3>1, <3>2
  <2> QED  BY <2>1, <2>2, <2>3 DEF IInv
<1>2. CASE UNCHANGED vars
  BY <1>2 DEF IInv, TypeOK, StablePartsKept, LastFacesIdle, vars
<1> QED  BY <1>1, <1>2 DEF Next

\* The instance only shrinks and the counters keep their ranges, in the
\* simplification of an instance of any size (TDM::simplify).
THEOREM TypeCorrect == Spec => []TypeOK
<1>1. IInv => TypeOK
  BY DEF IInv
<1> QED  BY InitIInv, NextIInv, <1>1, PTL DEF Spec

\* Every part of the input that no face can simplify survives.
THEOREM Invariance == Spec => []IInv
BY InitIInv, NextIInv, PTL DEF Spec

-----------------------------------------------------------------------------
(* The result.                                                             *)

\* Three idle faces in a row are all three faces.
LEMMA DoneIsStable == IInv /\ Done => Stable(tdm)
<1> SUFFICES ASSUME IInv, Done, NEW f \in Faces
             PROVE  Keep(tdm, f) = tdm
  BY DEF Stable
<1>1. iter \in Nat /\ \A j \in 1 .. 3 : Keep(tdm, (iter - j) % 3) = tdm
  BY DEF IInv, TypeOK, LastFacesIdle, Done
<1>2. \E j \in 1 .. 3 : (iter - j) % 3 = f
  <2>1. f \in 0 .. 2
    BY DEF Faces
  <2>2. (iter - 1) % 3 = f \/ (iter - 2) % 3 = f \/ (iter - 3) % 3 = f
    BY <1>1, <2>1
  <2> QED  BY <2>2
<1> QED  BY <1>1, <1>2

\* Simplification computes the largest part of the instance that no face can
\* simplify, for every instance and whatever order the faces come in.
THEOREM Confluence == Spec => []ResultIsLargestStable
<1>1. IInv => ResultIsLargestStable
  <2> SUFFICES ASSUME IInv, Done PROVE tdm = LargestStable(input)
    BY DEF ResultIsLargestStable
  <2>1. tdm \in {U \in SUBSET input : Stable(U)}
    BY DoneIsStable DEF IInv, TypeOK
  <2>2. \A U \in {V \in SUBSET input : Stable(V)} : U \subseteq tdm
    BY DEF IInv, StablePartsKept
  <2> QED  BY <2>1, <2>2 DEF LargestStable
<1> QED  BY Invariance, <1>1, PTL

-----------------------------------------------------------------------------
(* Perfect matchings.                                                      *)

\* A permutation is onto.
LEMMA PermOnto ==
  ASSUME NEW p \in Perms
  PROVE  \A y \in Rows : \E x \in Rows : p[x] = y
BY InjectiveIsOnto DEF Perms

\* No face can simplify a perfect matching.
LEMMA MatchingStable ==
  ASSUME NEW p \in Perms, NEW q \in Perms
  PROVE  Stable(Matching(p, q))
<1> DEFINE M == Matching(p, q)
<1>p. /\ p \in [Rows -> Rows] /\ q \in [Rows -> Rows]
      /\ \A x, y \in Rows : p[x] = p[y] => x = y
      /\ \A x, y \in Rows : q[x] = q[y] => x = y
  BY DEF Perms
<1> SUFFICES ASSUME NEW f \in Faces, NEW i \in Rows
             PROVE  LET e == Edge(f, <<i, p[i], q[i]>>)
                    IN  SameScc(Projection(M, f), e[1], e[2])
  BY DEF Stable, Keep, Matching
<1>m. Projection(M, f) = {Edge(f, <<r, p[r], q[r]>>) : r \in Rows}
  BY DEF Projection, Matching
<1>0. CASE f = 0
  <2>1. Projection(M, f) = {<<p[r], q[r]>> : r \in Rows}
    BY <1>m, <1>0 DEF Edge
  <2> DEFINE E == {<<p[r], q[r]>> : r \in Rows}
  <2>2. E \in SUBSET (Rows \X Rows) /\ <<p[i], q[i]>> \in E
    BY <1>p
  <2>3. \A x \in Rows : \E y \in Rows : <<x, y>> \in E
    BY <1>p, PermOnto
  <2>4. \A x, y, z \in Rows : <<x, z>> \in E /\ <<y, z>> \in E => x = y
    BY <1>p
  <2>5. \A x, y, z \in Rows : <<x, y>> \in E /\ <<x, z>> \in E => y = z
    BY <1>p
  <2> HIDE DEF E
  <2>6. SameScc(E, p[i], q[i])
    BY <2>2, <2>3, <2>4, <2>5, <1>p, CyclesAreComponents
  <2> QED  BY <2>1, <2>6, <1>0 DEF Edge, E
<1>1. CASE f = 1
  <2>1. Projection(M, f) = {<<r, q[r]>> : r \in Rows}
    BY <1>m, <1>1 DEF Edge
  <2> DEFINE E == {<<r, q[r]>> : r \in Rows}
  <2>2. E \in SUBSET (Rows \X Rows) /\ <<i, q[i]>> \in E
    BY <1>p
  <2>3. \A x \in Rows : \E y \in Rows : <<x, y>> \in E
    BY <1>p
  <2>4. \A x, y, z \in Rows : <<x, z>> \in E /\ <<y, z>> \in E => x = y
    BY <1>p
  <2>5. \A x, y, z \in Rows : <<x, y>> \in E /\ <<x, z>> \in E => y = z
    BY <1>p
  <2> HIDE DEF E
  <2>6. SameScc(E, i, q[i])
    BY <2>2, <2>3, <2>4, <2>5, <1>p, CyclesAreComponents
  <2> QED  BY <2>1, <2>6, <1>1 DEF Edge, E
<1>2. CASE f = 2
  <2>1. Projection(M, f) = {<<r, p[r]>> : r \in Rows}
    BY <1>m, <1>2 DEF Edge
  <2> DEFINE E == {<<r, p[r]>> : r \in Rows}
  <2>2. E \in SUBSET (Rows \X Rows) /\ <<i, p[i]>> \in E
    BY <1>p
  <2>3. \A x \in Rows : \E y \in Rows : <<x, y>> \in E
    BY <1>p
  <2>4. \A x, y, z \in Rows : <<x, z>> \in E /\ <<y, z>> \in E => x = y
    BY <1>p
  <2>5. \A x, y, z \in Rows : <<x, y>> \in E /\ <<x, z>> \in E => y = z
    BY <1>p
  <2> HIDE DEF E
  <2>6. SameScc(E, i, p[i])
    BY <2>2, <2>3, <2>4, <2>5, <1>p, CyclesAreComponents
  <2> QED  BY <2>1, <2>6, <1>2 DEF Edge, E
<1> QED  BY <1>0, <1>1, <1>2 DEF Faces

\* Simplification never loses a perfect 3D matching of the instance, so a
\* puzzle is a USP before it if and only if it is after.
THEOREM MatchingsSurvive == Spec => []MatchingsPreserved
<1>1. IInv => MatchingsPreserved
  <2> SUFFICES ASSUME IInv, NEW p \in Perms, NEW q \in Perms,
                      Matching(p, q) \subseteq input
               PROVE  Matching(p, q) \subseteq tdm
    BY DEF MatchingsPreserved
  <2> QED  BY MatchingStable DEF IInv, StablePartsKept
<1> QED  BY Invariance, <1>1, PTL

\* When simplification leaves only the diagonal, the instance has no perfect
\* matching but the identity: the search is right to count the puzzle as a
\* solution without running the full check.
THEOREM DiagonalIsProof == Spec => []DiagonalMeansUnique
<1>1. MatchingsPreserved => DiagonalMeansUnique
  <2> SUFFICES ASSUME MatchingsPreserved, tdm = Diagonal,
                      NEW p \in Perms, NEW q \in Perms,
                      Matching(p, q) \subseteq input, NEW i \in Rows
               PROVE  p[i] = i /\ q[i] = i
    BY DEF DiagonalMeansUnique
  <2>1. <<i, p[i], q[i]>> \in Diagonal
    BY DEF MatchingsPreserved, Matching
  <2> QED  BY <2>1 DEF Diagonal
<1> QED  BY MatchingsSurvive, <1>1, PTL

-----------------------------------------------------------------------------
(* Components, and how many faces are simplified before all are stable.    *)

LEMMA SccEquivalence ==
  ASSUME NEW E, NEW u, NEW v, NEW w
  PROVE  /\ SameScc(E, u, u)
         /\ SameScc(E, u, v) => SameScc(E, v, u)
         /\ SameScc(E, u, v) /\ SameScc(E, v, w) => SameScc(E, u, w)
BY DEF SameScc, Reaches

\* Removing an edge between components changes no component.
LEMMA ComponentsKept ==
  ASSUME NEW E \in SUBSET (Rows \X Rows),
         NEW x \in Rows, NEW y \in Rows, <<x, y>> \in E, ~SameScc(E, x, y),
         NEW a \in Rows, NEW b \in Rows
  PROVE  SameScc(E \ {<<x, y>>}, a, b) <=> SameScc(E, a, b)
<1> DEFINE F == E \ {<<x, y>>}
<1>1. ~Reaches(E, y, x)
  BY DEF SameScc, Reaches, IsClosed
<1>2. ASSUME NEW c \in Rows, NEW d \in Rows, Reaches(E, c, d), Reaches(E, d, c)
      PROVE  Reaches(F, c, d)
  <2> SUFFICES ASSUME NEW R \in SUBSET Rows, c \in R, IsClosed(F, R)
               PROVE  d \in R
    BY DEF Reaches
  <2> DEFINE Q == {w \in R : Reaches(E, c, w)}
             P == Q \cup {w \in Rows : Reaches(E, y, w)}
  <2>1. c \in Q
    BY DEF Reaches
  <2>2. IsClosed(F, Q)
    <3> SUFFICES ASSUME NEW e \in F, e[1] \in Q PROVE e[2] \in Q
      BY DEF IsClosed
    <3>1. e[2] \in R
      BY DEF IsClosed
    <3>2. Reaches(E, c, e[2])
      BY DEF Reaches, IsClosed
    <3> QED  BY <3>1, <3>2
  <2>3. CASE x \notin Q
    <3>1. IsClosed(E, Q)
      <4> SUFFICES ASSUME NEW e \in E, e[1] \in Q PROVE e[2] \in Q
        BY DEF IsClosed
      <4>1. e \in F
        BY <2>3
      <4> HIDE DEF Q, F
      <4> QED  BY <4>1, <2>2 DEF IsClosed
    <3>2. Q \in SUBSET Rows
      OBVIOUS
    <3>3. d \in Q
      <4> HIDE DEF Q
      <4> QED  BY <2>1, <3>1, <3>2, <1>2 DEF Reaches
    <3> QED  BY <3>3
  <2>4. CASE x \in Q
    <3>1. IsClosed(E, P)
      <4> SUFFICES ASSUME NEW e \in E, e[1] \in P PROVE e[2] \in P
        BY DEF IsClosed
      <4>0. e = <<e[1], e[2]>> /\ e[1] \in Rows /\ e[2] \in Rows
        OBVIOUS
      <4>1. CASE e[1] \in Q
        <5>1. CASE e = <<x, y>>
          BY <5>1 DEF Reaches
        <5>2. CASE e \in F
          <6> HIDE DEF Q, F
          <6> QED  BY <5>2, <4>1, <2>2 DEF IsClosed
        <5> QED  BY <5>1, <5>2
      <4>2. CASE Reaches(E, y, e[1])
        <5>1. Reaches(E, y, e[2])
          BY <4>2 DEF Reaches, IsClosed
        <5> QED  BY <5>1, <4>0
      <4> QED  BY <4>1, <4>2
    <3>2. d \in P
      <4>1. P \in SUBSET Rows /\ c \in P
        BY <2>1
      <4> HIDE DEF P
      <4> QED  BY <4>1, <3>1, <1>2 DEF Reaches
    <3>3. ~Reaches(E, y, d)
      <4> SUFFICES ASSUME Reaches(E, y, d) PROVE FALSE
        OBVIOUS
      <4>1. Reaches(E, c, x)
        BY <2>4
      <4>2. Reaches(E, y, x)
        BY <4>1, <1>2 DEF Reaches
      <4> QED  BY <4>2, <1>1
    <3> QED  BY <3>2, <3>3
  <2> QED  BY <2>3, <2>4
<1>3. ASSUME SameScc(F, a, b)
      PROVE  SameScc(E, a, b)
  BY <1>3, ReachesMonotone DEF SameScc
<1> QED  BY <1>2, <1>3 DEF SameScc

\* Edges that stay within the components of E have no larger components.
LEMMA SccWithin ==
  ASSUME NEW E, NEW F \in SUBSET (Rows \X Rows), \A e \in F : SameScc(E, e[1], e[2]),
         NEW u \in Rows, NEW v \in Rows, SameScc(F, u, v)
  PROVE  SameScc(E, u, v)
<1> DEFINE R == {w \in Rows : SameScc(E, u, w)}
<1>1. u \in R
  BY SccEquivalence
<1>2. IsClosed(F, R)
  <2> SUFFICES ASSUME NEW e \in F, e[1] \in R
               PROVE  e[2] \in R
    BY DEF IsClosed
  <2>1. e[2] \in Rows /\ SameScc(E, e[1], e[2]) /\ SameScc(E, u, e[1])
    OBVIOUS
  <2> QED  BY <2>1, SccEquivalence
<1>3. R \in SUBSET Rows /\ Reaches(F, u, v)
  BY DEF SameScc
<1>4. v \in R
  BY <1>1, <1>2, <1>3 DEF Reaches
<1> QED  BY <1>4

Component(E, u) == {v \in Rows : SameScc(E, u, v)}
Components(E)   == {Component(E, u) : u \in Rows}

LEMMA SameComponent ==
  ASSUME NEW E, NEW u \in Rows, NEW v \in Rows
  PROVE  SameScc(E, u, v) <=> Component(E, u) = Component(E, v)
<1>1. ASSUME SameScc(E, u, v)
      PROVE  Component(E, u) = Component(E, v)
  BY <1>1, SccEquivalence DEF Component
<1>2. ASSUME Component(E, u) = Component(E, v)
      PROVE  SameScc(E, u, v)
  <2>1. v \in Component(E, v)
    BY SccEquivalence DEF Component
  <2> QED  BY <2>1, <1>2 DEF Component
<1> QED  BY <1>1, <1>2

\* There is a component, and there are no more components than rows.
LEMMA ComponentsBounded ==
  ASSUME NEW E
  PROVE  /\ IsFiniteSet(Components(E))
         /\ Cardinality(Components(E)) \in 1 .. S
<1> DEFINE g == [u \in Rows |-> Component(E, u)]
<1>1. IsFiniteSet(Rows) /\ Cardinality(Rows) = S
  <2>1. /\ IsFiniteSet(0 .. S - 1)
        /\ Cardinality(0 .. S - 1) = IF 0 > S - 1 THEN 0 ELSE (S - 1) - 0 + 1
    BY SizeAssumption, FS_Interval
  <2> QED  BY <2>1, SizeAssumption DEF Rows
<1>2. g \in Surjection(Rows, Components(E))
  BY DEF Surjection, Components
<1> HIDE DEF g
<1>3. IsFiniteSet(Components(E)) /\ Cardinality(Components(E)) <= S
  BY <1>1, <1>2, FS_Surjection
<1>4. Component(E, 0) \in Components(E)
  BY SizeAssumption DEF Components, Rows
<1>5. Cardinality(Components(E)) # 0
  BY <1>3, <1>4, FS_EmptySet
<1>6. Cardinality(Components(E)) \in Nat
  BY <1>3, FS_CardinalityType
<1> QED  BY <1>3, <1>5, <1>6, SizeAssumption

\* Components that are split become more.
LEMMA FinerHasMore ==
  ASSUME NEW E, NEW F,
         \A u, v \in Rows : SameScc(F, u, v) => SameScc(E, u, v),
         NEW a \in Rows, NEW b \in Rows, SameScc(E, a, b), ~SameScc(F, a, b)
  PROVE  Cardinality(Components(E)) + 1 <= Cardinality(Components(F))
<1> DEFINE Around(C) == {v \in Rows : \E u \in C : SameScc(E, u, v)}
           g == [C \in Components(F) |-> Around(C)]
<1>1. ASSUME NEW u \in Rows
      PROVE  Around(Component(F, u)) = Component(E, u)
  <2>1. ASSUME NEW v \in Around(Component(F, u))
        PROVE  v \in Component(E, u)
    <3>1. PICK w \in Component(F, u) : SameScc(E, w, v)
      OBVIOUS
    <3>2. w \in Rows /\ SameScc(E, u, w)
      BY DEF Component
    <3> QED  BY <3>1, <3>2, SccEquivalence DEF Component
  <2>2. ASSUME NEW v \in Component(E, u)
        PROVE  v \in Around(Component(F, u))
    <3>1. u \in Component(F, u)
      BY SccEquivalence DEF Component
    <3> QED  BY <3>1 DEF Component
  <2> QED  BY <2>1, <2>2
<1>2. \A u \in Rows : Component(F, u) \in Components(F) /\ g[Component(F, u)] = Component(E, u)
  BY <1>1 DEF Components
<1> HIDE DEF Around
<1>3. g \in Surjection(Components(F), Components(E))
  <2>1. \A C \in Components(F) : g[C] \in Components(E)
    BY <1>2 DEF Components
  <2>2. \A D \in Components(E) : \E C \in Components(F) : g[C] = D
    BY <1>2 DEF Components
  <2> QED  BY <2>1, <2>2 DEF Surjection
<1>4. g \notin Injection(Components(F), Components(E))
  <2>1. Component(E, a) = Component(E, b) /\ Component(F, a) # Component(F, b)
    BY SameComponent
  <2>2. /\ Component(F, a) \in Components(F) /\ Component(F, b) \in Components(F)
        /\ g[Component(F, a)] = g[Component(F, b)]
    BY <1>2, <2>1
  <2> HIDE DEF g
  <2> QED  BY <2>1, <2>2 DEF Injection, IsInjective
<1> HIDE DEF g
<1>5. IsFiniteSet(Components(F))
  BY ComponentsBounded
<1>6. /\ Cardinality(Components(E)) <= Cardinality(Components(F))
      /\ Cardinality(Components(E)) # Cardinality(Components(F))
  BY <1>3, <1>4, <1>5, FS_Surjection
<1>7. Cardinality(Components(E)) \in 1 .. S /\ Cardinality(Components(F)) \in 1 .. S
  BY ComponentsBounded
<1> QED  BY <1>6, <1>7, SizeAssumption

\* A record of n faces simplified, the last `idle' of them without effect:
\* edges[f] are the edges of face f when it was last simplified, and hits[f]
\* is how often that had an effect.  The instance that is left shows on face
\* f only edges within components of edges[f].
FacesOf(edges, hits, T, n, idle) ==
  /\ edges \in [Faces -> SUBSET (Rows \X Rows)]
  /\ hits \in [Faces -> Nat]
  /\ \A f \in Faces : /\ hits[f] + 1 <= Cardinality(Components(edges[f]))
                      /\ \A c \in T : SameScc(edges[f], Edge(f, c)[1], Edge(f, c)[2])
  /\ n <= 3 * (hits[0] + hits[1] + hits[2]) + idle

Recorded(T, n, idle) == \E edges, hits : FacesOf(edges, hits, T, n, idle)

LEMMA EdgeIsPair ==
  ASSUME NEW f, NEW c \in Cells
  PROVE  /\ Edge(f, c) \in Rows \X Rows
         /\ Edge(f, c)[1] \in Rows /\ Edge(f, c)[2] \in Rows
         /\ <<Edge(f, c)[1], Edge(f, c)[2]>> = Edge(f, c)
BY DEF Edge, Cells

\* Nothing is simplified yet.
LEMMA RecordStarts ==
  ASSUME NEW T \in SUBSET Cells
  PROVE  Recorded(T, 0, 0)
<1> DEFINE All   == Rows \X Rows
           edges == [f \in Faces |-> All]
           hits  == [f \in Faces |-> 0]
<1>1. \A f \in Faces : hits[f] + 1 <= Cardinality(Components(edges[f]))
  <2>1. Cardinality(Components(All)) \in 1 .. S
    BY ComponentsBounded
  <2> HIDE DEF All
  <2> QED  BY <2>1, SizeAssumption
<1>2. \A u, v \in Rows : SameScc(All, u, v)
  <2> SUFFICES ASSUME NEW u \in Rows, NEW v \in Rows
               PROVE  Reaches(All, u, v)
    BY DEF SameScc
  <2> SUFFICES ASSUME NEW R \in SUBSET Rows, u \in R, IsClosed(All, R)
               PROVE  v \in R
    BY DEF Reaches
  <2>1. <<u, v>> \in All
    OBVIOUS
  <2> HIDE DEF All
  <2> QED  BY <2>1 DEF IsClosed
<1>3. \A f \in Faces : \A c \in T : SameScc(edges[f], Edge(f, c)[1], Edge(f, c)[2])
  <2> HIDE DEF All
  <2> QED  BY <1>2, EdgeIsPair
<1>4. edges \in [Faces -> SUBSET (Rows \X Rows)] /\ hits \in [Faces -> Nat]
  OBVIOUS
<1>5. 0 <= 3 * (hits[0] + hits[1] + hits[2]) + 0
  BY DEF Faces
<1> HIDE DEF edges, hits
<1>6. FacesOf(edges, hits, T, 0, 0)
  BY <1>1, <1>3, <1>4, <1>5 DEF FacesOf
<1> QED  BY <1>6 DEF Recorded

\* Simplifying a face with an effect splits a component of the edges it had
\* when it was last simplified.
LEMMA RecordStep ==
  ASSUME NEW T \in SUBSET Cells, NEW n \in Nat, NEW idle \in 0 .. 2,
         Recorded(T, n, idle), NEW f \in Faces
  PROVE  Recorded(Keep(T, f), n + 1, IF Keep(T, f) = T THEN idle + 1 ELSE 0)
<1>1. PICK edges, hits : FacesOf(edges, hits, T, n, idle)
  BY DEF Recorded
<1> DEFINE K == Keep(T, f)
           F == Projection(T, f)
<1>k. K \subseteq T
  BY KeepSubset
<1>0. /\ edges \in [Faces -> SUBSET (Rows \X Rows)] /\ hits \in [Faces -> Nat]
      /\ n <= 3 * (hits[0] + hits[1] + hits[2]) + idle
      /\ \A i \in Faces : hits[i] + 1 <= Cardinality(Components(edges[i]))
      /\ \A i \in Faces : \A c \in T : SameScc(edges[i], Edge(i, c)[1], Edge(i, c)[2])
  BY <1>1 DEF FacesOf
<1>2. CASE K = T
  <2>1. n + 1 <= 3 * (hits[0] + hits[1] + hits[2]) + (idle + 1)
    BY <1>0 DEF Faces
  <2>2. FacesOf(edges, hits, K, n + 1, idle + 1)
    <3> HIDE DEF K
    <3> QED  BY <2>1, <1>0, <1>2 DEF FacesOf
  <2> QED  BY <2>2, <1>2 DEF Recorded
<1>3. CASE K # T
  <2>1. F \in SUBSET (Rows \X Rows)
    BY EdgeIsPair DEF Projection
  <2>2. \A e \in F : SameScc(edges[f], e[1], e[2])
    BY <1>0 DEF Projection
  <2>3. PICK c \in T : ~SameScc(F, Edge(f, c)[1], Edge(f, c)[2])
    BY <1>3 DEF Keep
  <2> HIDE DEF F
  <2>4. \A u, v \in Rows : SameScc(F, u, v) => SameScc(edges[f], u, v)
    BY <2>1, <2>2, SccWithin
  <2>5. Cardinality(Components(edges[f])) + 1 <= Cardinality(Components(F))
    <3>1. Edge(f, c)[1] \in Rows /\ Edge(f, c)[2] \in Rows
      BY EdgeIsPair
    <3> QED  BY <3>1, <2>3, <2>4, <1>0, FinerHasMore
  <2> DEFINE newEdges == [edges EXCEPT ![f] = F]
             newHits  == [hits EXCEPT ![f] = @ + 1]
  <2>6. newHits[f] + 1 <= Cardinality(Components(newEdges[f]))
    <3>1. PICK a, b : a = Cardinality(Components(edges[f])) /\ b = Cardinality(Components(F))
      OBVIOUS
    <3>2. a \in 1 .. S /\ b \in 1 .. S /\ a + 1 <= b /\ hits[f] + 1 <= a /\ hits[f] \in Nat
      BY <3>1, <2>5, <1>0, ComponentsBounded
    <3>3. hits[f] + 1 + 1 <= b
      BY <3>2, SizeAssumption
    <3> QED  BY <3>1, <3>3, <1>0
  <2>7. \A x \in K : SameScc(F, Edge(f, x)[1], Edge(f, x)[2])
    BY DEF Keep, F
  <2>8. n + 1 <= 3 * (newHits[0] + newHits[1] + newHits[2]) + 0
    BY <1>0 DEF Faces
  <2>9. newEdges \in [Faces -> SUBSET (Rows \X Rows)] /\ newHits \in [Faces -> Nat]
    BY <1>0, <2>1
  <2>10. \A i \in Faces : /\ newHits[i] + 1 <= Cardinality(Components(newEdges[i]))
                          /\ \A x \in K : SameScc(newEdges[i], Edge(i, x)[1], Edge(i, x)[2])
    <3> SUFFICES ASSUME NEW i \in Faces
                 PROVE  /\ newHits[i] + 1 <= Cardinality(Components(newEdges[i]))
                        /\ \A x \in K : SameScc(newEdges[i], Edge(i, x)[1], Edge(i, x)[2])
      OBVIOUS
    <3>1. CASE i = f
      <4>1. newEdges[f] = F
        BY <1>0
      <4> HIDE DEF K
      <4> QED  BY <3>1, <4>1, <2>6, <2>7
    <3>2. CASE i # f
      <4>1. newEdges[i] = edges[i] /\ newHits[i] = hits[i]
        BY <3>2, <1>0
      <4> HIDE DEF newEdges, newHits, K
      <4> QED  BY <4>1, <1>0, <1>k
    <3> QED  BY <3>1, <3>2
  <2> HIDE DEF newEdges, newHits, K
  <2>11. FacesOf(newEdges, newHits, K, n + 1, 0)
    BY <2>8, <2>9, <2>10 DEF FacesOf
  <2> QED  BY <2>11, <1>3 DEF Recorded, K
<1> QED  BY <1>2, <1>3

\* As no face has more components than rows, the cap of 3 * s * s faces is
\* not exceeded, and is not reached while there is anything left to do.
LEMMA RecordBounded ==
  ASSUME NEW T, NEW n \in Nat, NEW idle \in 0 .. 3, Recorded(T, n, idle)
  PROVE  /\ n <= 3 * S * S
         /\ idle < 3 => n < 3 * S * S
<1>1. PICK edges, hits : FacesOf(edges, hits, T, n, idle)
  BY DEF Recorded
<1>2. \A f \in Faces : hits[f] \in Nat /\ hits[f] <= S - 1
  <2> SUFFICES ASSUME NEW f \in Faces
               PROVE  hits[f] \in Nat /\ hits[f] <= S - 1
    OBVIOUS
  <2>1. PICK a : a = Cardinality(Components(edges[f]))
    OBVIOUS
  <2>2. a \in 1 .. S
    BY <2>1, ComponentsBounded
  <2>3. hits[f] \in Nat /\ hits[f] + 1 <= a
    BY <1>1, <2>1 DEF FacesOf
  <2> QED  BY <2>2, <2>3, SizeAssumption
<1>3. n <= 9 * (S - 1) + idle
  <2>1. PICK a, b, c : a = hits[0] /\ b = hits[1] /\ c = hits[2]
    OBVIOUS
  <2>2. a \in Nat /\ b \in Nat /\ c \in Nat /\ a <= S - 1 /\ b <= S - 1 /\ c <= S - 1
    BY <1>2, <2>1 DEF Faces
  <2>3. n <= 3 * (a + b + c) + idle
    BY <1>1, <2>1 DEF FacesOf
  <2> QED  BY <2>2, <2>3, SizeAssumption
<1>4. (S - 1) * (S - 2) >= 0
  <2>1. CASE S = 1
    BY <2>1
  <2>2. CASE S - 2 \in Nat /\ S - 1 \in Nat
    BY <2>2
  <2> QED  BY <2>1, <2>2, SizeAssumption
<1>5. 9 * (S - 1) + 3 <= 3 * S * S
  BY <1>4, SizeAssumption
<1> QED  BY <1>3, <1>5, SizeAssumption

\* The loop never simplifies more than 3 * s * s faces, whatever the instance:
\* the cap of outer_Kernel_impl, said to guarantee convergence, is enough.
FacesCapped == iter <= 3 * S * S /\ (~Done => iter < 3 * S * S)

THEOREM FacesBounded == Spec => []FacesCapped
<1> DEFINE I == input \subseteq Cells /\ Recorded(tdm, iter, noChange)
<1>1. Init => I
  BY InputsAssumption, RecordStarts DEF Init
<1>2. IInv /\ I /\ [Next]_vars => I'
  <2> SUFFICES ASSUME IInv, I, [Next]_vars PROVE I'
    OBVIOUS
  <2>1. CASE SimplifyFace
    <3>1. /\ tdm \in SUBSET Cells /\ iter \in Nat /\ noChange \in 0 .. 2 /\ iter % 3 \in Faces
      BY <2>1 DEF IInv, TypeOK, SimplifyFace, Faces
    <3>2. /\ tdm' = Keep(tdm, iter % 3) /\ iter' = iter + 1 /\ input' = input
          /\ noChange' = IF Keep(tdm, iter % 3) = tdm THEN noChange + 1 ELSE 0
      BY <2>1 DEF SimplifyFace
    <3>3. Recorded(Keep(tdm, iter % 3), iter + 1, IF Keep(tdm, iter % 3) = tdm THEN noChange + 1 ELSE 0)
      BY <3>1, RecordStep
    <3> QED  BY <3>2, <3>3
  <2>2. CASE UNCHANGED vars
    BY <2>2 DEF vars
  <2> QED  BY <2>1, <2>2 DEF Next
<1>3. IInv /\ I => FacesCapped
  <2> SUFFICES ASSUME IInv, I PROVE FacesCapped
    OBVIOUS
  <2>1. iter \in Nat /\ noChange \in 0 .. 3 /\ (~Done => noChange < 3)
    BY DEF IInv, TypeOK, Done
  <2> QED  BY <2>1, RecordBounded DEF FacesCapped
<1> QED  BY <1>1, <1>2, <1>3, Invariance, PTL DEF Spec

-----------------------------------------------------------------------------
(* Induction.                                                              *)

-----------------------------------------------------------------------------
(* The lists.  The node before e on a list is the closest node listed on   *)
(* one side of it, the node after e the closest on the other side; s is 1  *)
(* for the side before and -1 for the side after.                          *)

Signs == {1, -1}
Pos(s, d, e)   == IF s = 1 THEN Along(d, e) ELSE -Along(d, e)
Ahead(s, L, d, e) == {g \in SameLine(d, e) : g \in L /\ Pos(s, d, g) < Pos(s, d, e)}
Closest(s, d, G)  == CHOOSE g \in G : \A h \in G : Pos(s, d, h) <= Pos(s, d, g)
Side(s, L, d, e)  == IF e \in L /\ Ahead(s, L, d, e) # {}
                     THEN Closest(s, d, Ahead(s, L, d, e)) ELSE None

LEMMA PosFacts ==
  ASSUME NEW s \in Signs, NEW d \in Dirs, NEW e \in Nodes, NEW g \in Nodes
  PROVE  /\ Pos(s, d, e) \in Int
         /\ -s \in Signs /\ -(-s) = s
         /\ Pos(-s, d, e) = -Pos(s, d, e)
         /\ Along(d, e) \in Rows /\ Along(d, e) \in Int
         /\ g \in SameLine(d, e) <=> e \in SameLine(d, g)
         /\ g \in SameLine(d, e) /\ Pos(s, d, g) = Pos(s, d, e) => g = e
<1>1. Along(d, e) \in Rows /\ Along(d, e) \in Int /\ Along(d, g) \in Int
  BY SizeAssumption DEF Along, Nodes, Rows, Dirs
<1>2. Pos(s, d, g) = Pos(s, d, e) => Along(d, g) = Along(d, e)
  BY <1>1 DEF Pos
<1>3. g \in SameLine(d, e) /\ Along(d, g) = Along(d, e) => g = e
  BY DEF Along, SameLine, Nodes
<1> QED  BY <1>1, <1>2, <1>3 DEF Pos, Signs, SameLine

LEMMA SameLineTransitive ==
  ASSUME NEW d, NEW e \in Nodes, NEW g \in SameLine(d, e)
  PROVE  SameLine(d, g) = SameLine(d, e) /\ g \in Nodes
BY DEF SameLine

\* The closest of some nodes of one line.
LEMMA ClosestFacts ==
  ASSUME NEW s \in Signs, NEW d \in Dirs, NEW e \in Nodes,
         NEW G \in SUBSET SameLine(d, e), G # {}
  PROVE  /\ Closest(s, d, G) \in G
         /\ \A h \in G : Pos(s, d, h) <= Pos(s, d, Closest(s, d, G))
         /\ \A g \in G : (\A h \in G : Pos(s, d, h) <= Pos(s, d, g)) => g = Closest(s, d, G)
<1>1. \A g \in G : g \in Nodes /\ Along(d, g) \in Rows
  BY PosFacts DEF SameLine
<1>2. \E g \in G : \A h \in G : Pos(s, d, h) <= Pos(s, d, g)
  <2>1. CASE s = -1
    <3> DEFINE R == {Along(d, g) : g \in G}
    <3>1. R \in SUBSET Rows /\ R # {}
      BY <1>1
    <3> HIDE DEF R
    <3>2. PICK x \in R : \A y \in R : x <= y
      BY <3>1, LeastExists
    <3>3. PICK g \in G : x = Along(d, g)
      BY <3>2 DEF R
    <3>4. ASSUME NEW h \in G
          PROVE  Pos(s, d, h) <= Pos(s, d, g)
      <4>1. Along(d, h) \in R
        BY DEF R
      <4>2. Along(d, g) <= Along(d, h)
        BY <4>1, <3>2, <3>3
      <4>3. Along(d, g) \in Int /\ Along(d, h) \in Int
        BY <1>1, SizeAssumption DEF Rows
      <4> QED  BY <4>2, <4>3, <2>1 DEF Pos
    <3> QED  BY <3>4
  <2>2. CASE s = 1
    <3> DEFINE R == {S - 1 - Along(d, g) : g \in G}
    <3>1. R \in SUBSET Rows /\ R # {}
      BY <1>1, SizeAssumption DEF Rows
    <3> HIDE DEF R
    <3>2. PICK x \in R : \A y \in R : x <= y
      BY <3>1, LeastExists
    <3>3. PICK g \in G : x = S - 1 - Along(d, g)
      BY <3>2 DEF R
    <3>4. ASSUME NEW h \in G
          PROVE  Pos(s, d, h) <= Pos(s, d, g)
      <4>1. S - 1 - Along(d, h) \in R
        BY DEF R
      <4>2. S - 1 - Along(d, g) <= S - 1 - Along(d, h)
        BY <4>1, <3>2, <3>3
      <4>3. Along(d, g) \in Int /\ Along(d, h) \in Int /\ S \in Int
        BY <1>1, SizeAssumption DEF Rows
      <4> QED  BY <4>2, <4>3, <2>2 DEF Pos
    <3> QED  BY <3>4
  <2> QED  BY <2>1, <2>2 DEF Signs
<1>3. Closest(s, d, G) \in G /\ \A h \in G : Pos(s, d, h) <= Pos(s, d, Closest(s, d, G))
  BY <1>2 DEF Closest
<1>4. ASSUME NEW g \in G, \A h \in G : Pos(s, d, h) <= Pos(s, d, g)
      PROVE  g = Closest(s, d, G)
  <2>1. PICK k \in G : k = Closest(s, d, G)
    BY <1>3
  <2>2. Pos(s, d, g) <= Pos(s, d, k) /\ Pos(s, d, k) <= Pos(s, d, g)
    BY <2>1, <1>3, <1>4
  <2>3. g \in Nodes /\ k \in Nodes /\ g \in SameLine(d, k)
    BY <1>1, SameLineTransitive
  <2>4. Pos(s, d, g) \in Int /\ Pos(s, d, k) \in Int
    BY <2>3, PosFacts
  <2>5. Pos(s, d, g) = Pos(s, d, k)
    BY <2>2, <2>4
  <2> QED  BY <2>1, <2>3, <2>5, PosFacts
<1> QED  BY <1>3, <1>4

LEMMA SideFacts ==
  ASSUME NEW s \in Signs, NEW d \in Dirs, NEW L \in SUBSET Nodes, NEW e \in Nodes
  PROVE  /\ Side(s, L, d, e) = None
              <=> ~(e \in L /\ Ahead(s, L, d, e) # {})
         /\ Side(s, L, d, e) # None =>
              /\ Side(s, L, d, e) \in Ahead(s, L, d, e)
              /\ \A h \in Ahead(s, L, d, e) : Pos(s, d, h) <= Pos(s, d, Side(s, L, d, e))
         /\ Side(s, L, d, e) \in Nodes \cup {None}
<1>1. Ahead(s, L, d, e) \in SUBSET SameLine(d, e) /\ Ahead(s, L, d, e) \in SUBSET Nodes
  BY DEF Ahead
<1>2. CASE e \in L /\ Ahead(s, L, d, e) # {}
  <2>1. Side(s, L, d, e) = Closest(s, d, Ahead(s, L, d, e))
    BY <1>2 DEF Side
  <2>2. /\ Side(s, L, d, e) \in Ahead(s, L, d, e)
        /\ \A h \in Ahead(s, L, d, e) : Pos(s, d, h) <= Pos(s, d, Side(s, L, d, e))
    BY <2>1, <1>1, <1>2, ClosestFacts
  <2> QED  BY <2>2, <1>1, <1>2, NoneAssumption
<1>3. CASE ~(e \in L /\ Ahead(s, L, d, e) # {})
  BY <1>3 DEF Side
<1> QED  BY <1>2, <1>3

\* Taking a node off a list: the nodes beside it become neighbours, and no
\* other node notices.
LEMMA SideWithout ==
  ASSUME NEW s \in Signs, NEW d \in Dirs, NEW L \in SUBSET Nodes,
         NEW e \in L, NEW g \in Nodes
  PROVE  Side(s, L \ {e}, d, g)
           = IF g = e THEN None
             ELSE IF g = Side(-s, L, d, e) THEN Side(s, L, d, e) ELSE Side(s, L, d, g)
<1> DEFINE M == L \ {e}
<1>0. -s \in Signs /\ e \in Nodes /\ M \in SUBSET Nodes
  BY PosFacts
<1>1. CASE g = e
  BY <1>1 DEF Side
<1>2. CASE g # e /\ e \notin Ahead(s, L, d, g)
  <2>1. Ahead(s, M, d, g) = Ahead(s, L, d, g)
    BY <1>2 DEF Ahead
  <2>2. Side(s, M, d, g) = Side(s, L, d, g)
    BY <1>2, <2>1 DEF Side
  <2>3. CASE g = Side(-s, L, d, e)
    <3>1. g \in Ahead(-s, L, d, e)
      BY <2>3, <1>0, SideFacts, NoneAssumption
    <3>2. g \in L /\ Pos(-s, d, g) < Pos(-s, d, e) /\ g \in SameLine(d, e)
      BY <3>1 DEF Ahead
    <3>3. e \in SameLine(d, g) /\ Pos(s, d, e) < Pos(s, d, g)
      BY <3>2, <1>0, PosFacts
    <3> QED  BY <3>3, <1>2 DEF Ahead
  <2> QED  BY <2>2, <2>3, <1>2
<1>3. CASE g # e /\ e \in Ahead(s, L, d, g)
  <2>1. e \in SameLine(d, g) /\ Pos(s, d, e) < Pos(s, d, g) /\ g \in SameLine(d, e)
    BY <1>3, <1>0, PosFacts DEF Ahead
  <2>2. CASE g \notin L
    <3>1. g # Side(-s, L, d, e)
      <4> SUFFICES ASSUME g = Side(-s, L, d, e) PROVE FALSE
        OBVIOUS
      <4>1. g \in Ahead(-s, L, d, e)
        BY <1>0, SideFacts, NoneAssumption
      <4> QED  BY <4>1, <2>2 DEF Ahead
    <3> QED  BY <3>1, <2>2, <1>3 DEF Side
  <2>3. CASE g \in L
    <3>1. g \in Ahead(-s, L, d, e)
      BY <2>1, <2>3, <1>0, PosFacts DEF Ahead
    <3>2. PICK n \in Ahead(-s, L, d, e) :
            /\ n = Side(-s, L, d, e)
            /\ \A h \in Ahead(-s, L, d, e) : Pos(-s, d, h) <= Pos(-s, d, n)
      BY <3>1, <1>0, SideFacts
    <3>3. n \in Nodes /\ n \in SameLine(d, e) /\ n \in L /\ Pos(-s, d, n) < Pos(-s, d, e)
      BY <3>2 DEF Ahead
    <3>4. /\ Pos(s, d, n) \in Int /\ Pos(s, d, e) \in Int /\ Pos(s, d, g) \in Int
          /\ Pos(s, d, e) < Pos(s, d, n)
      BY <3>3, <1>0, PosFacts
    <3>5. SameLine(d, g) = SameLine(d, e) /\ SameLine(d, n) = SameLine(d, e)
      BY <2>1, <3>3, <1>0, SameLineTransitive
    <3>6. CASE g = n
      <4>1. ASSUME NEW h \in Nodes, h \in L, h # e, h \in SameLine(d, e)
            PROVE  Pos(s, d, h) < Pos(s, d, g) <=> Pos(s, d, h) < Pos(s, d, e)
        <5>1. Pos(s, d, h) \in Int /\ Pos(s, d, h) # Pos(s, d, e)
          BY <4>1, <1>0, PosFacts
        <5>2. Pos(s, d, e) < Pos(s, d, h) => Pos(s, d, n) <= Pos(s, d, h)
          <6> SUFFICES ASSUME Pos(s, d, e) < Pos(s, d, h)
                       PROVE  Pos(s, d, n) <= Pos(s, d, h)
            OBVIOUS
          <6>1. h \in Ahead(-s, L, d, e)
            BY <4>1, <5>1, <3>4, <1>0, PosFacts DEF Ahead
          <6>2. Pos(-s, d, h) <= Pos(-s, d, n)
            BY <6>1, <3>2
          <6> QED  BY <6>2, <5>1, <3>3, <3>4, PosFacts
        <5> QED  BY <5>1, <5>2, <3>4, <3>6
      <4>2. Ahead(s, M, d, g) = Ahead(s, L, d, e)
        <5>1. ASSUME NEW h
              PROVE  h \in Ahead(s, M, d, g) <=> h \in Ahead(s, L, d, e)
          <6>1. SameLine(d, e) \subseteq Nodes
            BY DEF SameLine
          <6>2. h = e => ~(Pos(s, d, h) < Pos(s, d, e))
            BY <3>4
          <6> QED  BY <4>1, <6>1, <6>2, <3>5 DEF Ahead
        <5> QED  BY <5>1
      <4>3. Side(s, M, d, g) = Side(s, L, d, e)
        BY <4>2, <2>3, <1>3 DEF Side
      <4> QED  BY <4>3, <3>2, <3>6, <1>3
    <3>7. CASE g # n
      <4>1. Pos(s, d, n) < Pos(s, d, g)
        <5>1. Pos(-s, d, g) <= Pos(-s, d, n)
          BY <3>1, <3>2
        <5>2. Pos(s, d, n) <= Pos(s, d, g)
          BY <5>1, <3>3, <3>4, PosFacts
        <5>3. Pos(s, d, n) # Pos(s, d, g)
          BY <3>3, <3>5, <3>7, <2>1, PosFacts
        <5> QED  BY <5>2, <5>3, <3>4
      <4>2. n \in Ahead(s, L, d, g)
        BY <4>1, <3>3, <3>5 DEF Ahead
      <4>3. PICK q \in Ahead(s, L, d, g) :
              /\ q = Side(s, L, d, g)
              /\ \A h \in Ahead(s, L, d, g) : Pos(s, d, h) <= Pos(s, d, q)
        BY <4>2, <2>3, SideFacts
      <4>4. q \in Nodes /\ q \in SameLine(d, e) /\ Pos(s, d, q) \in Int
        BY <4>3, <3>5, PosFacts DEF Ahead
      <4>5. Pos(s, d, e) < Pos(s, d, q)
        <5>1. Pos(s, d, n) <= Pos(s, d, q)
          BY <4>2, <4>3
        <5> QED  BY <5>1, <4>4, <3>4
      <4>6. q # e
        BY <4>5, <3>4
      <4>7. Ahead(s, M, d, g) = Ahead(s, L, d, g) \ {e}
        BY DEF Ahead
      <4>8. q \in Ahead(s, M, d, g) /\ Ahead(s, M, d, g) \subseteq SameLine(d, g)
        BY <4>3, <4>6, <4>7 DEF Ahead
      <4>9. \A h \in Ahead(s, M, d, g) : Pos(s, d, h) <= Pos(s, d, q)
        BY <4>3, <4>7
      <4>10. q = Closest(s, d, Ahead(s, M, d, g))
        BY <4>8, <4>9, ClosestFacts
      <4>11. Side(s, M, d, g) = q
        <5>1. g \in M
          BY <2>3, <1>3
        <5> HIDE DEF M
        <5> QED  BY <5>1, <4>8, <4>10 DEF Side
      <4> QED  BY <4>3, <4>11, <3>2, <3>7, <1>3
    <3> QED  BY <3>6, <3>7
  <2> QED  BY <2>2, <2>3
<1> QED  BY <1>1, <1>2, <1>3

-----------------------------------------------------------------------------
(* The nodes of a face: what init_adj_nodes makes of some counts, and that *)
(* dec_adj_node keeps it so.                                               *)

Links   == [Dirs -> Nodes \cup {None}]
Node    == [count : Int, prev : Links, next : Links]
Counted(cnt)   == {e \in Nodes : cnt[e] > 0}
Listed(C, d)   == {e \in Nodes : e \in C \/ Along(d, e) = 0}

Adj(cnt) ==
  [e \in Nodes |->
    [count |-> cnt[e],
     prev  |-> [d \in Dirs |-> Side(1, Listed(Counted(cnt), d), d, e)],
     next  |-> [d \in Dirs |-> Side(-1, Listed(Counted(cnt), d), d, e)]]]

Threaded(P, L, d) ==
  \A g \in Nodes : P[g].prev[d] = Side(1, L, d, g) /\ P[g].next[d] = Side(-1, L, d, g)

\* Q is P with a list of direction d that has just the nodes of L.
Relinked(P, Q, L, d) ==
  /\ Q \in [Nodes -> Node]
  /\ Threaded(Q, L, d)
  /\ \A g \in Nodes : /\ Q[g].count = P[g].count
                      /\ \A k \in Dirs \ {d} : /\ Q[g].prev[k] = P[g].prev[k]
                                               /\ Q[g].next[k] = P[g].next[k]

\* One entry less, or none, shows at e.
Fewer(cnt, e)  == [cnt EXCEPT ![e] = @ - 1]
Nowhere(cnt, e) == [cnt EXCEPT ![e] = 0]

LEMMA SideType ==
  ASSUME NEW C, NEW d \in Dirs, NEW e \in Nodes
  PROVE  /\ Side(1, Listed(C, d), d, e) \in Nodes \cup {None}
         /\ Side(-1, Listed(C, d), d, e) \in Nodes \cup {None}
<1>1. Listed(C, d) \in SUBSET Nodes
  BY DEF Listed
<1>2. 1 \in Signs /\ -1 \in Signs
  BY DEF Signs
<1> QED  BY <1>1, <1>2, SideFacts

LEMMA AdjFacts ==
  ASSUME NEW cnt \in [Nodes -> Nat]
  PROVE  /\ Adj(cnt) \in [Nodes -> Node]
         /\ \A e \in Nodes : Adj(cnt)[e].count = cnt[e]
         /\ \A d \in Dirs : Threaded(Adj(cnt), Listed(Counted(cnt), d), d)
<1>1. ASSUME NEW e \in Nodes
      PROVE  Adj(cnt)[e] \in Node
  <2>1. [d \in Dirs |-> Side(1, Listed(Counted(cnt), d), d, e)] \in Links
    BY SideType DEF Links
  <2>2. [d \in Dirs |-> Side(-1, Listed(Counted(cnt), d), d, e)] \in Links
    BY SideType DEF Links
  <2>3. cnt[e] \in Int
    OBVIOUS
  <2> QED  BY <2>1, <2>2, <2>3 DEF Adj, Node
<1>2. Adj(cnt) \in [Nodes -> Node]
  BY <1>1 DEF Adj
<1>3. \A e \in Nodes : Adj(cnt)[e].count = cnt[e]
  BY DEF Adj
<1>4. \A d \in Dirs : Threaded(Adj(cnt), Listed(Counted(cnt), d), d)
  BY DEF Adj, Threaded
<1> QED  BY <1>2, <1>3, <1>4

LEMMA AdjUnique ==
  ASSUME NEW cnt \in [Nodes -> Nat], NEW P \in [Nodes -> Node],
         \A e \in Nodes : P[e].count = cnt[e],
         \A d \in Dirs : Threaded(P, Listed(Counted(cnt), d), d)
  PROVE  P = Adj(cnt)
<1> SUFFICES ASSUME NEW e \in Nodes PROVE P[e] = Adj(cnt)[e]
  BY AdjFacts
<1>1. P[e] \in Node /\ Adj(cnt)[e] \in Node
  BY AdjFacts
<1>2. P[e].count = Adj(cnt)[e].count
  BY AdjFacts
<1>3. ASSUME NEW d \in Dirs
      PROVE  P[e].prev[d] = Adj(cnt)[e].prev[d] /\ P[e].next[d] = Adj(cnt)[e].next[d]
  BY AdjFacts DEF Threaded
<1>4. P[e].prev \in Links /\ P[e].next \in Links
      /\ Adj(cnt)[e].prev \in Links /\ Adj(cnt)[e].next \in Links
  BY <1>1 DEF Node
<1>5. P[e].prev = Adj(cnt)[e].prev /\ P[e].next = Adj(cnt)[e].next
  BY <1>3, <1>4 DEF Links
<1> QED  BY <1>1, <1>2, <1>5 DEF Node

\* Unlinking a node takes it off one list and leaves the rest.
LEMMA UnlinkEffect ==
  ASSUME NEW P \in [Nodes -> Node], NEW d \in Dirs, NEW L \in SUBSET Nodes,
         NEW e \in L, Along(d, e) # 0, Threaded(P, L, d)
  PROVE  Relinked(P, Unlink(P, e, d), L \ {e}, d)
<1> DEFINE p == P[e].prev[d]
           n == P[e].next[d]
           At(g) == IF g = e THEN [P[g] EXCEPT !.prev[d] = None, !.next[d] = None]
                    ELSE IF g = p THEN [P[g] EXCEPT !.next[d] = n]
                    ELSE IF g = n THEN [P[g] EXCEPT !.prev[d] = p]
                    ELSE P[g]
           Q == Unlink(P, e, d)
<1>1. Q = [g \in Nodes |-> At(g)]
  BY DEF Unlink
<1> HIDE DEF Q, At
<1>a. Q = [g \in Nodes |-> Q[g]] /\ \A g \in Nodes : Q[g] = At(g)
  BY <1>1
<1>2. e \in Nodes /\ p = Side(1, L, d, e) /\ n = Side(-1, L, d, e)
  BY DEF Threaded
<1>s. 1 \in Signs /\ -1 \in Signs
  BY DEF Signs
<1>m. PICK m \in Signs : m = -1 /\ -m = 1
  BY <1>s
<1>3. p \in Nodes \cup {None} /\ n \in Nodes \cup {None}
  BY <1>2, <1>s, SideFacts
<1>4. ASSUME NEW g \in Nodes, g = p
      PROVE  g # n /\ g # e
  <2>1. g \in Ahead(1, L, d, e)
    BY <1>2, <1>4, <1>s, SideFacts, NoneAssumption
  <2>2. Pos(1, d, g) < Pos(1, d, e) /\ Pos(1, d, g) \in Int /\ Pos(1, d, e) \in Int
    BY <2>1, <1>2, <1>s, PosFacts DEF Ahead
  <2>3. ASSUME g = n
        PROVE  FALSE
    <3>1. g \in Ahead(-1, L, d, e)
      BY <1>2, <2>3, <1>s, SideFacts, NoneAssumption
    <3>2. Pos(-1, d, g) < Pos(-1, d, e)
      BY <3>1 DEF Ahead
    <3>3. Pos(-1, d, g) = -Pos(1, d, g) /\ Pos(-1, d, e) = -Pos(1, d, e)
      BY <1>2, <1>s, PosFacts
    <3> QED  BY <3>2, <3>3, <2>2
  <2> QED  BY <2>2, <2>3
<1>5. ASSUME NEW g \in Nodes
      PROVE  /\ P[g] \in Node
             /\ P[g].prev \in Links /\ P[g].next \in Links /\ P[g].count \in Int
             /\ P[g] = [count |-> P[g].count, prev |-> P[g].prev, next |-> P[g].next]
  BY DEF Node
<1>6. ASSUME NEW g \in Nodes
      PROVE  At(g) = [count |-> P[g].count,
                      prev  |-> [P[g].prev EXCEPT ![d] = IF g = e THEN None
                                                         ELSE IF g = n THEN p ELSE @],
                      next  |-> [P[g].next EXCEPT ![d] = IF g = e THEN None
                                                         ELSE IF g = p THEN n ELSE @]]
  <2> USE DEF At
  <2> HIDE DEF p, n
  <2>1. P[g].prev = [P[g].prev EXCEPT ![d] = P[g].prev[d]]
        /\ P[g].next = [P[g].next EXCEPT ![d] = P[g].next[d]]
    BY <1>5 DEF Links
  <2>2. CASE g = e
    <3>1. PICK a, b : /\ a = [P[g].prev EXCEPT ![d] = None]
                      /\ b = [P[g].next EXCEPT ![d] = None]
      OBVIOUS
    <3>2. PICK r : r = [P[g] EXCEPT !.prev = a]
      OBVIOUS
    <3>3. r = [count |-> P[g].count, prev |-> a, next |-> P[g].next]
      BY <3>2, <1>5
    <3>4. [r EXCEPT !.next = b] = [count |-> P[g].count, prev |-> a, next |-> b]
      BY <3>3
    <3>5. r.next = P[g].next
      BY <3>3
    <3>6. At(g) = [r EXCEPT !.next = b]
      BY <3>1, <3>2, <3>5, <2>2
    <3> QED  BY <3>1, <3>4, <3>6, <2>2
  <2>3. CASE g # e /\ g = p
    BY <2>1, <2>3, <1>4, <1>5
  <2>4. CASE g # e /\ g # p /\ g = n
    BY <2>1, <2>4, <1>5
  <2>5. CASE g # e /\ g # p /\ g # n
    BY <2>1, <2>5, <1>5
  <2> QED  BY <2>2, <2>3, <2>4, <2>5
<1>7. ASSUME NEW g \in Nodes
      PROVE  /\ Q[g] \in Node
             /\ Q[g].count = P[g].count
             /\ Q[g].prev[d] = (IF g = e THEN None ELSE IF g = n THEN p ELSE P[g].prev[d])
             /\ Q[g].next[d] = (IF g = e THEN None ELSE IF g = p THEN n ELSE P[g].next[d])
             /\ \A k \in Dirs \ {d} : /\ Q[g].prev[k] = P[g].prev[k]
                                      /\ Q[g].next[k] = P[g].next[k]
  <2> HIDE DEF p, n
  <2>1. PICK a, b : /\ a = [P[g].prev EXCEPT ![d] = IF g = e THEN None
                                                   ELSE IF g = n THEN p ELSE @]
                    /\ b = [P[g].next EXCEPT ![d] = IF g = e THEN None
                                                   ELSE IF g = p THEN n ELSE @]
    OBVIOUS
  <2>2. /\ a \in Links /\ b \in Links
        /\ a[d] = (IF g = e THEN None ELSE IF g = n THEN p ELSE P[g].prev[d])
        /\ b[d] = (IF g = e THEN None ELSE IF g = p THEN n ELSE P[g].next[d])
        /\ \A k \in Dirs \ {d} : a[k] = P[g].prev[k] /\ b[k] = P[g].next[k]
    BY <2>1, <1>3, <1>5 DEF Links
  <2>3. Q[g] = [count |-> P[g].count, prev |-> a, next |-> b]
    BY <2>1, <1>a, <1>6
  <2> QED  BY <2>2, <2>3, <1>5 DEF Node
<1>8. Q \in [Nodes -> Node]
  BY <1>a, <1>7
<1> HIDE DEF p, n
<1>9. Threaded(Q, L \ {e}, d)
  <2> SUFFICES ASSUME NEW g \in Nodes
               PROVE  /\ Q[g].prev[d] = Side(1, L \ {e}, d, g)
                      /\ Q[g].next[d] = Side(-1, L \ {e}, d, g)
    BY DEF Threaded
  <2>1. Side(1, L \ {e}, d, g)
          = IF g = e THEN None ELSE IF g = n THEN p ELSE Side(1, L, d, g)
    BY <1>2, <1>s, SideWithout
  <2>2. Side(-1, L \ {e}, d, g)
          = IF g = e THEN None ELSE IF g = p THEN n ELSE Side(-1, L, d, g)
    BY <1>2, <1>m, SideWithout
  <2>3. P[g].prev[d] = Side(1, L, d, g) /\ P[g].next[d] = Side(-1, L, d, g)
    BY DEF Threaded
  <2> QED  BY <2>1, <2>2, <2>3, <1>7
<1> QED  BY <1>7, <1>8, <1>9 DEF Q, Relinked

\* The same, when the list is that of the counted nodes and its head.
LEMMA UnlinkLine ==
  ASSUME NEW P \in [Nodes -> Node], NEW d \in Dirs, NEW C \in SUBSET Nodes,
         NEW e \in C, Threaded(P, Listed(C, d), d)
  PROVE  Relinked(P, Unlink(P, e, d), Listed(C \ {e}, d), d)
<1>1. CASE Along(d, e) = 0
  <2>1. Unlink(P, e, d) = P
    BY <1>1 DEF Unlink
  <2>2. Listed(C \ {e}, d) = Listed(C, d)
    BY <1>1 DEF Listed
  <2> QED  BY <2>1, <2>2 DEF Relinked
<1>2. CASE Along(d, e) # 0
  <2>1. Listed(C \ {e}, d) = Listed(C, d) \ {e}
    BY <1>2 DEF Listed
  <2>2. Listed(C, d) \in SUBSET Nodes /\ e \in Listed(C, d)
    BY DEF Listed
  <2> QED  BY <1>2, <2>1, <2>2, UnlinkEffect
<1> QED  BY <1>1, <1>2

\* dec_adj_node: one entry less shows at e.
LEMMA DecAdjNodeKeeps ==
  ASSUME NEW cnt \in [Nodes -> Nat], NEW e \in Nodes, cnt[e] > 0
  PROVE  /\ Fewer(cnt, e) \in [Nodes -> Nat]
         /\ DecAdjNode(Adj(cnt), e) = Adj(Fewer(cnt, e))
<1> DEFINE P == Adj(cnt)
           Q == [P EXCEPT ![e].count = @ - 1]
           m == Fewer(cnt, e)
           C == Counted(cnt)
<1>1. /\ P \in [Nodes -> Node] /\ \A g \in Nodes : P[g].count = cnt[g]
      /\ \A d \in Dirs : Threaded(P, Listed(C, d), d)
  BY AdjFacts
<1> HIDE DEF P
<1>2. m \in [Nodes -> Nat] /\ m[e] = cnt[e] - 1 /\ \A g \in Nodes \ {e} : m[g] = cnt[g]
  BY DEF Fewer
<1>3. ASSUME NEW g \in Nodes
      PROVE  /\ Q[g] \in Node /\ Q[g].count = m[g]
             /\ Q[g].prev = P[g].prev /\ Q[g].next = P[g].next
  <2> HIDE DEF m
  <2> QED  BY <1>1, <1>2 DEF Node
<1>4. Q \in [Nodes -> Node]
  <2>1. Q = [g \in Nodes |-> Q[g]]
    BY <1>1
  <2> HIDE DEF Q
  <2> QED  BY <2>1, <1>3
<1>5. DecAdjNode(P, e) = IF Q[e].count = 0 THEN Unlink(Unlink(Q, e, 0), e, 1) ELSE Q
  BY DEF DecAdjNode
<1> HIDE DEF Q, m
<1>6. \A d \in Dirs : Threaded(Q, Listed(C, d), d)
  BY <1>1, <1>3 DEF Threaded
<1>7. C \in SUBSET Nodes /\ e \in C
  BY DEF Counted
<1>8. CASE cnt[e] > 1
  <2>1. Counted(m) = C
    BY <1>2, <1>8 DEF Counted
  <2>2. Q = Adj(m)
    <3> HIDE DEF C
    <3> QED  BY <2>1, <1>2, <1>3, <1>4, <1>6, AdjUnique
  <2>3. Q[e].count # 0
    BY <1>2, <1>3, <1>8
  <2> QED  BY <2>2, <2>3, <1>2, <1>5 DEF P, m
<1>9. CASE cnt[e] = 1
  <2> DEFINE R0 == Unlink(Q, e, 0)
             R1 == Unlink(R0, e, 1)
  <2>1. Counted(m) = C \ {e}
    BY <1>2, <1>9 DEF Counted
  <2> HIDE DEF C
  <2>0. 0 \in Dirs /\ 1 \in Dirs /\ 1 \in Dirs \ {0} /\ 0 \in Dirs \ {1}
    BY DEF Dirs
  <2>2. /\ R0 \in [Nodes -> Node]
        /\ Threaded(R0, Listed(C \ {e}, 0), 0)
        /\ \A g \in Nodes : /\ R0[g].count = Q[g].count
                            /\ R0[g].prev[1] = Q[g].prev[1]
                            /\ R0[g].next[1] = Q[g].next[1]
    <3>1. Relinked(Q, R0, Listed(C \ {e}, 0), 0)
      BY <2>0, <1>4, <1>6, <1>7, UnlinkLine
    <3> HIDE DEF R0
    <3> QED  BY <2>0, <3>1 DEF Relinked
  <2> HIDE DEF R0
  <2>3. Threaded(R0, Listed(C, 1), 1)
    BY <2>0, <2>2, <1>6 DEF Threaded
  <2>4. /\ R1 \in [Nodes -> Node]
        /\ Threaded(R1, Listed(C \ {e}, 1), 1)
        /\ \A g \in Nodes : /\ R1[g].count = R0[g].count
                            /\ R1[g].prev[0] = R0[g].prev[0]
                            /\ R1[g].next[0] = R0[g].next[0]
    <3>1. Relinked(R0, R1, Listed(C \ {e}, 1), 1)
      BY <2>0, <2>2, <2>3, <1>7, UnlinkLine
    <3> HIDE DEF R1
    <3> QED  BY <2>0, <3>1 DEF Relinked
  <2> HIDE DEF R1
  <2>5. Threaded(R1, Listed(C \ {e}, 0), 0)
    BY <2>2, <2>4 DEF Threaded
  <2>6. \A d \in Dirs : Threaded(R1, Listed(Counted(m), d), d)
    BY <2>1, <2>4, <2>5 DEF Dirs
  <2>7. \A g \in Nodes : R1[g].count = m[g]
    BY <2>2, <2>4, <1>3
  <2>8. R1 = Adj(m)
    BY <2>4, <2>6, <2>7, <1>2, AdjUnique
  <2>9. Q[e].count = 0
    BY <1>2, <1>3, <1>9
  <2> QED  BY <2>8, <2>9, <1>2, <1>5 DEF P, m, R0, R1
<1> QED  BY <1>8, <1>9

\* del_adj_node: no entry shows at e any more.
LEMMA DelAdjNodeKeeps ==
  ASSUME NEW cnt \in [Nodes -> Nat], NEW e \in Nodes, cnt[e] > 0
  PROVE  DelAdjNode(Adj(cnt), e) = Adj(Nowhere(cnt, e))
<1> DEFINE P == Adj(cnt)
           Q == [P EXCEPT ![e].count = 1]
           m == [cnt EXCEPT ![e] = 1]
<1>1. /\ P \in [Nodes -> Node] /\ \A g \in Nodes : P[g].count = cnt[g]
      /\ \A d \in Dirs : Threaded(P, Listed(Counted(cnt), d), d)
  BY AdjFacts
<1> HIDE DEF P
<1>2. m \in [Nodes -> Nat] /\ m[e] = 1
  OBVIOUS
<1>3. ASSUME NEW g \in Nodes
      PROVE  /\ Q[g] \in Node /\ Q[g].count = m[g]
             /\ Q[g].prev = P[g].prev /\ Q[g].next = P[g].next
  BY <1>1 DEF Node
<1>4. Q \in [Nodes -> Node]
  <2>1. Q = [g \in Nodes |-> Q[g]]
    BY <1>1
  <2> HIDE DEF Q
  <2> QED  BY <2>1, <1>3
<1>5. DelAdjNode(P, e) = DecAdjNode(Q, e)
  BY DEF DelAdjNode
<1>6. Counted(m) = Counted(cnt)
  BY DEF Counted
<1>7. Fewer(m, e) = Nowhere(cnt, e)
  BY DEF Fewer, Nowhere
<1> HIDE DEF Q, m
<1>8. \A d \in Dirs : Threaded(Q, Listed(Counted(m), d), d)
  BY <1>1, <1>3, <1>6 DEF Threaded
<1>9. Q = Adj(m)
  BY <1>2, <1>3, <1>4, <1>8, AdjUnique
<1>10. DecAdjNode(Adj(m), e) = Adj(Fewer(m, e))
  BY <1>2, DecAdjNodeKeeps
<1> QED  BY <1>5, <1>7, <1>9, <1>10 DEF P

-----------------------------------------------------------------------------
(* The counts of a face.                                                   *)

Shown(T, f, e) == {c \in T : Edge(f, c) = e}

LEMMA CellsFinite == IsFiniteSet(Cells)
<1>1. IsFiniteSet(Rows \X Rows)
  BY RowsFinite, FS_Product
<1>2. IsFiniteSet((Rows \X Rows) \X Rows)
  BY <1>1, RowsFinite, FS_Product
<1> DEFINE back == [c \in Cells |-> <<<<c[1], c[2]>>, c[3]>>]
<1>3. back \in Injection(Cells, (Rows \X Rows) \X Rows)
  BY DEF Injection, IsInjective, Cells
<1> QED  BY <1>2, <1>3, FS_Injection

LEMMA CountsFacts ==
  ASSUME NEW T \in SUBSET Cells, NEW f
  PROVE  /\ Counts(T, f) \in [Nodes -> Nat]
         /\ \A e \in Nodes : Counts(T, f)[e] = Cardinality(Shown(T, f, e))
         /\ Counted(Counts(T, f)) = Projection(T, f)
<1>1. ASSUME NEW e \in Nodes
      PROVE  /\ IsFiniteSet(Shown(T, f, e)) /\ Cardinality(Shown(T, f, e)) \in Nat
             /\ Cardinality(Shown(T, f, e)) = 0 <=> Shown(T, f, e) = {}
  <2>1. Shown(T, f, e) \in SUBSET Cells
    BY DEF Shown
  <2>2. IsFiniteSet(Shown(T, f, e))
    BY <2>1, CellsFinite, FS_Subset
  <2> QED  BY <2>2, FS_CardinalityType, FS_EmptySet
<1>2. \A e \in Nodes : Counts(T, f)[e] = Cardinality(Shown(T, f, e))
  BY DEF Counts, Shown
<1>3. Counts(T, f) \in [Nodes -> Nat]
  <2>1. Counts(T, f) = [e \in Nodes |-> Cardinality(Shown(T, f, e))]
    BY DEF Counts, Shown
  <2> QED  BY <2>1, <1>1
<1>4. ASSUME NEW e \in Nodes
      PROVE  e \in Projection(T, f) <=> Counts(T, f)[e] > 0
  <2>1. e \in Projection(T, f) <=> Shown(T, f, e) # {}
    BY DEF Projection, Shown
  <2>2. PICK n : n = Cardinality(Shown(T, f, e))
    OBVIOUS
  <2>3. n \in Nat /\ Counts(T, f)[e] = n /\ (n = 0 <=> Shown(T, f, e) = {})
    BY <2>2, <1>1, <1>2
  <2> QED  BY <2>1, <2>3
<1>5. Projection(T, f) \in SUBSET Nodes
  BY EdgeIsPair DEF Projection, Nodes
<1>6. Counted(Counts(T, f)) = Projection(T, f)
  BY <1>4, <1>5 DEF Counted
<1> QED  BY <1>2, <1>3, <1>6

\* Without one entry, its edge shows one entry less.
LEMMA CountsWithout ==
  ASSUME NEW T \in SUBSET Cells, NEW f, NEW c \in T
  PROVE  /\ Edge(f, c) \in Nodes
         /\ Counts(T, f)[Edge(f, c)] > 0
         /\ Counts(T \ {c}, f) = Fewer(Counts(T, f), Edge(f, c))
<1> DEFINE e == Edge(f, c)
           U == T \ {c}
<1>1. e \in Projection(T, f)
  BY DEF Projection
<1>2. e \in Nodes /\ Counts(T, f)[e] > 0
  BY <1>1, CountsFacts DEF Counted
<1>3. U \in SUBSET Cells
  OBVIOUS
<1>4. Shown(U, f, e) = Shown(T, f, e) \ {c} /\ c \in Shown(T, f, e)
  BY DEF Shown
<1>5. \A g \in Nodes \ {e} : Shown(U, f, g) = Shown(T, f, g)
  BY DEF Shown
<1> HIDE DEF e, U
<1>6. IsFiniteSet(Shown(T, f, e))
  BY CellsFinite, FS_Subset DEF Shown
<1>7. Counts(U, f)[e] = Counts(T, f)[e] - 1
  <2>1. Cardinality(Shown(T, f, e) \ {c}) = Cardinality(Shown(T, f, e)) - 1
    BY <1>4, <1>6, FS_RemoveElement
  <2> QED  BY <2>1, <1>2, <1>3, <1>4, CountsFacts
<1>8. \A g \in Nodes \ {e} : Counts(U, f)[g] = Counts(T, f)[g]
  BY <1>3, <1>5, CountsFacts
<1>9. Counts(U, f) = Fewer(Counts(T, f), e)
  <2>1. Counts(U, f) \in [Nodes -> Nat] /\ Counts(T, f) \in [Nodes -> Nat]
    BY <1>3, CountsFacts
  <2> QED  BY <2>1, <1>2, <1>7, <1>8 DEF Fewer
<1> QED  BY <1>2, <1>9 DEF e, U

\* Without the entries that show at an edge, it shows none.
LEMMA CountsWithoutEdge ==
  ASSUME NEW T \in SUBSET Cells, NEW f, NEW e \in Nodes
  PROVE  Counts(T \ Shown(T, f, e), f) = Nowhere(Counts(T, f), e)
<1> DEFINE U == T \ Shown(T, f, e)
<1>1. U \in SUBSET Cells
  OBVIOUS
<1>2. Shown(U, f, e) = {} /\ \A g \in Nodes \ {e} : Shown(U, f, g) = Shown(T, f, g)
  BY DEF Shown
<1> HIDE DEF U
<1>3. Counts(U, f)[e] = 0
  BY <1>1, <1>2, CountsFacts, FS_EmptySet
<1>4. \A g \in Nodes \ {e} : Counts(U, f)[g] = Counts(T, f)[g]
  BY <1>1, <1>2, CountsFacts
<1>5. Counts(U, f) \in [Nodes -> Nat] /\ Counts(T, f) \in [Nodes -> Nat]
  BY <1>1, CountsFacts
<1> QED  BY <1>3, <1>4, <1>5 DEF Nowhere, U

\* init_adj_nodes makes the nodes of the counts.
LEMMA InitIsAdj ==
  ASSUME NEW T \in SUBSET Cells, NEW f
  PROVE  InitAdjNodes(T, f) = Adj(Counts(T, f))
<1> DEFINE C == Projection(T, f)
           linked(d, e) == e \in C \/ Along(d, e) = 0
           before(d, e) == {g \in SameLine(d, e) : linked(d, g) /\ Along(d, g) < Along(d, e)}
           after(d, e)  == {g \in SameLine(d, e) : linked(d, g) /\ Along(d, g) > Along(d, e)}
           last(d, G)   == CHOOSE g \in G : \A h \in G : Along(d, h) <= Along(d, g)
           first(d, G)  == CHOOSE g \in G : \A h \in G : Along(d, h) >= Along(d, g)
           prev(d, e)   == IF linked(d, e) /\ before(d, e) # {}
                           THEN last(d, before(d, e)) ELSE None
           next(d, e)   == IF linked(d, e) /\ after(d, e) # {}
                           THEN first(d, after(d, e)) ELSE None
<1>1. InitAdjNodes(T, f) = [e \in Nodes |-> [count |-> Counts(T, f)[e],
                                             prev  |-> [d \in Dirs |-> prev(d, e)],
                                             next  |-> [d \in Dirs |-> next(d, e)]]]
  BY DEF InitAdjNodes
<1>2. C = Counted(Counts(T, f))
  BY CountsFacts
<1> HIDE DEF C
<1>3. ASSUME NEW e \in Nodes, NEW d \in Dirs
      PROVE  /\ prev(d, e) = Side(1, Listed(C, d), d, e)
             /\ next(d, e) = Side(-1, Listed(C, d), d, e)
  <2> DEFINE L == Listed(C, d)
  <2>1. 1 \in Signs /\ -1 \in Signs
    BY DEF Signs
  <2>2. \A g \in Nodes : linked(d, g) <=> g \in L
    BY DEF Listed
  <2>3. \A g \in SameLine(d, e) : g \in Nodes /\ Along(d, g) \in Int
    BY <2>1, PosFacts DEF SameLine
  <2>4. Along(d, e) \in Int
    BY <2>1, PosFacts
  <2>5. before(d, e) = Ahead(1, L, d, e)
    BY <2>2, <2>3 DEF Ahead, Pos
  <2>6. after(d, e) = Ahead(-1, L, d, e)
    BY <2>2, <2>3, <2>4 DEF Ahead, Pos
  <2>7. ASSUME NEW G \in SUBSET SameLine(d, e), G # {}
        PROVE  last(d, G) = Closest(1, d, G) /\ first(d, G) = Closest(-1, d, G)
    <3>1. /\ Closest(1, d, G) \in G
          /\ \A h \in G : Pos(1, d, h) <= Pos(1, d, Closest(1, d, G))
          /\ \A g \in G : (\A h \in G : Pos(1, d, h) <= Pos(1, d, g)) => g = Closest(1, d, G)
      BY <2>1, <2>7, ClosestFacts
    <3>2. /\ Closest(-1, d, G) \in G
          /\ \A h \in G : Pos(-1, d, h) <= Pos(-1, d, Closest(-1, d, G))
          /\ \A g \in G : (\A h \in G : Pos(-1, d, h) <= Pos(-1, d, g)) => g = Closest(-1, d, G)
      BY <2>1, <2>7, ClosestFacts
    <3>3. \A g \in G, h \in G : /\ Pos(1, d, h) <= Pos(1, d, g) <=> Along(d, h) <= Along(d, g)
                                /\ Pos(-1, d, h) <= Pos(-1, d, g) <=> Along(d, h) >= Along(d, g)
      BY <2>3 DEF Pos
    <3>4. last(d, G) \in G /\ \A h \in G : Along(d, h) <= Along(d, last(d, G))
      BY <3>1, <3>3
    <3>5. first(d, G) \in G /\ \A h \in G : Along(d, h) >= Along(d, first(d, G))
      BY <3>2, <3>3
    <3> HIDE DEF last, first
    <3> QED  BY <3>1, <3>2, <3>3, <3>4, <3>5
  <2>8. Ahead(1, L, d, e) \in SUBSET SameLine(d, e) /\ Ahead(-1, L, d, e) \in SUBSET SameLine(d, e)
    BY DEF Ahead
  <2> HIDE DEF last, first, before, after, L
  <2>9. linked(d, e) <=> e \in L
    BY <2>2
  <2> HIDE DEF linked
  <2>10. prev(d, e) = Side(1, L, d, e)
    BY <2>5, <2>7, <2>8, <2>9 DEF Side
  <2>11. next(d, e) = Side(-1, L, d, e)
    BY <2>6, <2>7, <2>8, <2>9 DEF Side
  <2> QED  BY <2>10, <2>11 DEF L
<1> HIDE DEF prev, next
<1> QED  BY <1>1, <1>2, <1>3 DEF Adj

-----------------------------------------------------------------------------
(* Sequences of removals and walks.                                        *)

\* h is what dec_adj_node makes of P, edge by edge.
Removes(h, P, n, es) ==
  /\ h[0] = P
  /\ \A i \in 0 .. n - 1 : h[i + 1] = DecAdjNode(h[i], es[i + 1])

\* dec_adj_node for a sequence of edges goes through any states that start and
\* continue as it does.
LEMMA DecAllStates ==
  ASSUME NEW P, NEW n \in Nat, NEW es \in [1 .. n -> Nodes], NEW h, Removes(h, P, n, es)
  PROVE  DecAll(P, es) = h[n]
<1> DEFINE Is(g) == g = [i \in 0 .. n |-> IF i = 0 THEN P ELSE DecAdjNode(g[i - 1], es[i])]
           w == [i \in 0 .. n |-> h[i]]
           g == CHOOSE x : Is(x)
<1>0. h[0] = P /\ \A i \in 0 .. n - 1 : h[i + 1] = DecAdjNode(h[i], es[i + 1])
  BY DEF Removes
<1>1. Len(es) = n
  OBVIOUS
<1>2. Is(w)
  <2>1. ASSUME NEW i \in 0 .. n
        PROVE  h[i] = IF i = 0 THEN P ELSE DecAdjNode(w[i - 1], es[i])
    <3>1. CASE i # 0
      <4>1. i - 1 \in 0 .. n - 1 /\ i - 1 \in 0 .. n /\ (i - 1) + 1 = i
        BY <3>1
      <4>2. w[i - 1] = h[i - 1]
        BY <4>1
      <4>3. h[(i - 1) + 1] = DecAdjNode(h[i - 1], es[(i - 1) + 1])
        BY <4>1, <1>0
      <4> QED  BY <3>1, <4>1, <4>2, <4>3
    <3> QED  BY <3>1, <1>0
  <2> QED  BY <2>1
<1>3. Is(g)
  BY <1>2
<1>4. DecAll(P, es) = g[n]
  BY <1>1 DEF DecAll
<1>5. ASSUME NEW f, Is(f), NEW j \in 0 .. n
      PROVE  f[j] = IF j = 0 THEN P ELSE DecAdjNode(f[j - 1], es[j])
  <2>1. [i \in 0 .. n |-> IF i = 0 THEN P ELSE DecAdjNode(f[i - 1], es[i])][j]
          = IF j = 0 THEN P ELSE DecAdjNode(f[j - 1], es[j])
    OBVIOUS
  <2> QED  BY <1>5, <2>1
<1> HIDE DEF g
<1> DEFINE X == {j \in Nat : j <= n => g[j] = w[j]}
<1>6. 0 \in X
  <2> HIDE DEF Is, w
  <2> QED  BY <1>2, <1>3, <1>5
<1>7. ASSUME NEW j \in Nat, j \in X
      PROVE  j + 1 \in X
  <2> SUFFICES ASSUME j + 1 <= n PROVE g[j + 1] = w[j + 1]
    OBVIOUS
  <2> DEFINE k == j + 1
  <2>1. k \in 0 .. n /\ k # 0 /\ k - 1 = j /\ g[j] = w[j]
    BY <1>7
  <2> HIDE DEF k, Is, w
  <2>2. g[k] = w[k]
    BY <2>1, <1>2, <1>3, <1>5
  <2> QED  BY <2>2 DEF k
<1>8. Nat \subseteq X
  <2> HIDE DEF X
  <2> QED  BY <1>6, <1>7, SetInduction
<1>9. g[n] = w[n]
  <2> HIDE DEF w
  <2> QED  BY <1>8
<1>10. w[n] = h[n]
  OBVIOUS
<1> QED  BY <1>4, <1>9, <1>10

\* Removing the entries q[1], q[2], ... of T one by one keeps the nodes of face f
\* those of what is left.
LEMMA DecAllKeeps ==
  ASSUME NEW T \in SUBSET Cells, NEW f, NEW n \in Nat, NEW q \in [1 .. n -> T],
         \A i, j \in 1 .. n : i # j => q[i] # q[j]
  PROVE  DecAll(Adj(Counts(T, f)), [i \in 1 .. n |-> Edge(f, q[i])])
           = Adj(Counts(T \ {q[i] : i \in 1 .. n}, f))
<1> DEFINE left(i) == T \ {q[j] : j \in 1 .. i}
           h == [i \in 0 .. n |-> Adj(Counts(left(i), f))]
           es == [i \in 1 .. n |-> Edge(f, q[i])]
<1>1. ASSUME NEW i \in 1 .. n
      PROVE  es[i] \in Nodes
  BY CountsWithout
<1>2. es \in [1 .. n -> Nodes]
  BY <1>1
<1>3. left(0) = T
  OBVIOUS
<1>4. h[0] = Adj(Counts(T, f))
  <2> HIDE DEF left
  <2> QED  BY <1>3
<1>5. ASSUME NEW i \in 0 .. n - 1
      PROVE  h[i + 1] = DecAdjNode(h[i], es[i + 1])
  <2> DEFINE k == i + 1
             U == left(i)
             c == q[k]
  <2>1. k \in 1 .. n /\ i \in 0 .. n /\ k \in 0 .. n /\ \A j \in 1 .. k : j = k \/ j \in 1 .. i
    OBVIOUS
  <2>2. c \in U
    <3>1. c \in T
      BY <2>1
    <3>2. ASSUME NEW j \in 1 .. i
          PROVE  q[j] # c
      <4>1. j \in 1 .. n /\ j # k
        OBVIOUS
      <4> HIDE DEF k
      <4> QED  BY <2>1, <4>1
    <3> HIDE DEF c
    <3> QED  BY <3>1, <3>2
  <2>3. left(k) = U \ {c}
    <3>1. {q[j] : j \in 1 .. k} = {q[j] : j \in 1 .. i} \cup {c}
      <4>1. \A j \in 1 .. i : j \in 1 .. k
        OBVIOUS
      <4>2. k \in 1 .. k
        OBVIOUS
      <4> HIDE DEF k
      <4> QED  BY <2>1, <4>1, <4>2
    <3> HIDE DEF k, c
    <3> QED  BY <3>1
  <2>4. U \in SUBSET Cells
    OBVIOUS
  <2>5. h[i] = Adj(Counts(U, f)) /\ h[k] = Adj(Counts(left(k), f)) /\ es[k] = Edge(f, c)
    BY <2>1
  <2> HIDE DEF h, left, es, U, c, k
  <2>6. /\ Counts(U, f) \in [Nodes -> Nat] /\ Edge(f, c) \in Nodes
        /\ Counts(U, f)[Edge(f, c)] > 0
        /\ Counts(U \ {c}, f) = Fewer(Counts(U, f), Edge(f, c))
    BY <2>2, <2>4, CountsFacts, CountsWithout
  <2>7. DecAdjNode(Adj(Counts(U, f)), Edge(f, c)) = Adj(Fewer(Counts(U, f), Edge(f, c)))
    BY <2>6, DecAdjNodeKeeps
  <2>8. h[k] = DecAdjNode(h[i], es[k])
    BY <2>3, <2>5, <2>6, <2>7
  <2> QED  BY <2>8 DEF k
<1>6. h[n] = Adj(Counts(left(n), f))
  OBVIOUS
<1> HIDE DEF h, left, es
<1>7. DecAll(Adj(Counts(T, f)), es) = h[n]
  <2>1. Removes(h, Adj(Counts(T, f)), n, es)
    BY <1>4, <1>5 DEF Removes
  <2> QED  BY <2>1, <1>2, DecAllStates
<1> QED  BY <1>6, <1>7 DEF es, left

\* A walk of the row lists finds exactly the edges with a count.
LEMMA WalkFinds ==
  ASSUME NEW cnt \in [Nodes -> Nat]
  PROVE  Walk(Adj(cnt)) = Counted(cnt)
<1> DEFINE P == Adj(cnt)
           L == Listed(Counted(cnt), 0)
           next(e) == P[e].next[0]
           Is(g) == g = [e \in Nodes |-> {e} \cup IF next(e) = None THEN {} ELSE g[next(e)]]
           w == [e \in Nodes |-> {e} \cup IF e \in L THEN Ahead(-1, L, 0, e) ELSE {}]
           g == CHOOSE x : Is(x)
<1>0. 0 \in Dirs /\ -1 \in Signs /\ L \in SUBSET Nodes
  BY DEF Dirs, Signs, Listed
<1>1. \A e \in Nodes : next(e) = Side(-1, L, 0, e) /\ P[e].count = cnt[e]
  BY <1>0, AdjFacts DEF Threaded
<1>2. Walk(P) = {e \in UNION {g[<<x, 0>>] : x \in Rows} : P[e].count > 0}
  BY DEF Walk
<1> HIDE DEF P, L, next
<1>3. ASSUME NEW e \in Nodes, next(e) # None
      PROVE  /\ e \in L /\ next(e) \in L /\ next(e) \in Nodes
             /\ Along(0, e) < Along(0, next(e))
             /\ Ahead(-1, L, 0, e) = {next(e)} \cup Ahead(-1, L, 0, next(e))
  <2>1. PICK m \in Ahead(-1, L, 0, e) :
          m = next(e) /\ \A h \in Ahead(-1, L, 0, e) : Pos(-1, 0, h) <= Pos(-1, 0, m)
    BY <1>0, <1>1, <1>3, SideFacts
  <2>2. e \in L
    BY <1>0, <1>1, <1>3, SideFacts
  <2>3. m \in Nodes /\ m \in SameLine(0, e) /\ m \in L /\ Pos(-1, 0, m) < Pos(-1, 0, e)
    BY <1>0, <2>1 DEF Ahead
  <2>4. /\ Pos(-1, 0, m) \in Int /\ Pos(-1, 0, e) \in Int
        /\ Along(0, m) \in Int /\ Along(0, e) \in Int
        /\ Pos(-1, 0, m) = -Along(0, m) /\ Pos(-1, 0, e) = -Along(0, e)
    BY <1>0, <2>3, PosFacts DEF Pos
  <2>5. SameLine(0, m) = SameLine(0, e)
    BY <2>3, SameLineTransitive
  <2>6. ASSUME NEW h \in SameLine(0, e), h \in L
        PROVE  Pos(-1, 0, h) < Pos(-1, 0, e) <=> h = m \/ Pos(-1, 0, h) < Pos(-1, 0, m)
    <3>1. h \in Nodes /\ Pos(-1, 0, h) \in Int
      BY <1>0, <2>6, PosFacts
    <3>2. Pos(-1, 0, h) < Pos(-1, 0, e) => Pos(-1, 0, h) <= Pos(-1, 0, m)
      BY <2>1, <2>6 DEF Ahead
    <3>3. Pos(-1, 0, h) = Pos(-1, 0, m) => h = m
      BY <1>0, <2>3, <2>5, <3>1, PosFacts
    <3> QED  BY <3>1, <3>2, <3>3, <2>3, <2>4
  <2>7. Ahead(-1, L, 0, e) = {m} \cup Ahead(-1, L, 0, m)
    BY <2>3, <2>5, <2>6 DEF Ahead
  <2>8. Along(0, e) < Along(0, m)
    BY <2>3, <2>4
  <2> QED  BY <2>1, <2>2, <2>3, <2>7, <2>8
<1>4. Is(w)
  <2>1. ASSUME NEW e \in Nodes
        PROVE  w[e] = {e} \cup IF next(e) = None THEN {} ELSE w[next(e)]
    <3>1. CASE next(e) = None
      BY <1>0, <1>1, <3>1, SideFacts
    <3>2. CASE next(e) # None
      <4>1. w[next(e)] = {next(e)} \cup Ahead(-1, L, 0, next(e))
        BY <1>3, <3>2
      <4> QED  BY <4>1, <1>3, <3>2
    <3> QED  BY <3>1, <3>2
  <2>2. w = [e \in Nodes |-> w[e]]
    OBVIOUS
  <2> HIDE DEF w
  <2> QED  BY <2>1, <2>2
<1>5. Is(g)
  <2> HIDE DEF Is
  <2> QED  BY <1>4
<1> HIDE DEF g
<1>6. ASSUME NEW x, Is(x), NEW e \in Nodes
      PROVE  x[e] = {e} \cup IF next(e) = None THEN {} ELSE x[next(e)]
  <2>1. [k \in Nodes |-> {k} \cup IF next(k) = None THEN {} ELSE x[next(k)]][e]
          = {e} \cup IF next(e) = None THEN {} ELSE x[next(e)]
    OBVIOUS
  <2> QED  BY <1>6, <2>1
<1> DEFINE X == {k \in Nat : \A e \in Nodes : S - Along(0, e) <= k => g[e] = w[e]}
<1>a. \A e \in Nodes : Along(0, e) \in Int /\ Along(0, e) < S
  <2>1. \A e \in Nodes : Along(0, e) \in Rows
    BY <1>0, PosFacts
  <2> QED  BY <2>1, SizeAssumption DEF Rows
<1>7. 0 \in X
  BY <1>a, SizeAssumption
<1>8. ASSUME NEW k \in Nat, k \in X
      PROVE  k + 1 \in X
  <2> SUFFICES ASSUME NEW e \in Nodes, S - Along(0, e) <= k + 1
               PROVE  g[e] = w[e]
    OBVIOUS
  <2>1. g[e] = {e} \cup IF next(e) = None THEN {} ELSE g[next(e)]
    <3> HIDE DEF Is
    <3> QED  BY <1>5, <1>6
  <2>2. w[e] = {e} \cup IF next(e) = None THEN {} ELSE w[next(e)]
    <3> HIDE DEF Is, w
    <3> QED  BY <1>4, <1>6
  <2>3. CASE next(e) = None
    <3> HIDE DEF w
    <3> QED  BY <2>1, <2>2, <2>3
  <2>4. CASE next(e) # None
    <3>1. next(e) \in Nodes /\ Along(0, e) < Along(0, next(e))
      BY <1>3, <2>4
    <3>2. S - Along(0, next(e)) <= k
      BY <3>1, <1>a, SizeAssumption
    <3>3. g[next(e)] = w[next(e)]
      BY <1>8, <3>1, <3>2
    <3> HIDE DEF w
    <3> QED  BY <2>1, <2>2, <2>4, <3>3
  <2> QED  BY <2>3, <2>4
<1>9. Nat \subseteq X
  <2> HIDE DEF X
  <2> QED  BY <1>7, <1>8, SetInduction
<1>10. ASSUME NEW e \in Nodes
       PROVE  g[e] = w[e]
  <2>1. PICK k \in Nat : S - Along(0, e) = k
    BY <1>a, SizeAssumption
  <2>2. k \in X
    BY <1>9
  <2> HIDE DEF w
  <2> QED  BY <2>1, <2>2
<1>11. ASSUME NEW x \in Rows
       PROVE  g[<<x, 0>>] = {<<x, 0>>} \cup Ahead(-1, L, 0, <<x, 0>>)
  <2>1. <<x, 0>> \in Nodes
    BY SizeAssumption DEF Nodes, Rows
  <2>2. <<x, 0>> \in L
    BY <2>1 DEF L, Listed, Along
  <2> QED  BY <2>1, <2>2, <1>10
<1>12. ASSUME NEW e \in Nodes, e \in L
       PROVE  e \in g[<<e[1], 0>>] /\ e[1] \in Rows
  <2>1. e[1] \in Rows /\ e[2] \in Rows /\ e = <<e[1], e[2]>>
    BY DEF Nodes
  <2>2. CASE e[2] = 0
    BY <2>1, <2>2, <1>11
  <2>3. CASE e[2] # 0
    <3>1. 0 < e[2] /\ e[2] \in Int
      BY <2>1, <2>3, SizeAssumption DEF Rows
    <3>2. e \in SameLine(0, <<e[1], 0>>)
      BY DEF SameLine
    <3>3. Pos(-1, 0, e) < Pos(-1, 0, <<e[1], 0>>)
      BY <3>1 DEF Pos, Along
    <3>4. e \in Ahead(-1, L, 0, <<e[1], 0>>)
      BY <3>2, <3>3, <1>12 DEF Ahead
    <3> QED  BY <3>4, <2>1, <1>11
  <2> QED  BY <2>2, <2>3
<1>13. ASSUME NEW x \in Rows, NEW e \in g[<<x, 0>>]
       PROVE  e \in Nodes
  <2>1. <<x, 0>> \in Nodes
    BY SizeAssumption DEF Nodes, Rows
  <2>2. Ahead(-1, L, 0, <<x, 0>>) \subseteq Nodes
    BY DEF Ahead, SameLine
  <2> QED  BY <2>1, <2>2, <1>11
<1>14. Counted(cnt) \subseteq L
  BY DEF L, Listed, Counted
<1>15. ASSUME NEW e
       PROVE  e \in Walk(P) <=> e \in Counted(cnt)
  <2>1. ASSUME e \in Walk(P)
        PROVE  e \in Counted(cnt)
    <3>1. PICK x \in Rows : e \in g[<<x, 0>>] /\ P[e].count > 0
      BY <1>2, <2>1
    <3> QED  BY <3>1, <1>1, <1>13 DEF Counted
  <2>2. ASSUME e \in Counted(cnt)
        PROVE  e \in Walk(P)
    <3>1. e \in Nodes /\ cnt[e] > 0 /\ e \in L
      BY <2>2, <1>14 DEF Counted
    <3>2. e \in UNION {g[<<x, 0>>] : x \in Rows}
      BY <3>1, <1>12
    <3> QED  BY <3>1, <3>2, <1>1, <1>2
  <2> QED  BY <2>1, <2>2
<1> QED  BY <1>15 DEF P

-----------------------------------------------------------------------------
(* The invariant: the nodes are those of the instance that is left, and    *)
(* the edges still to remove are those between its components.             *)

Between(T, f) == {e \in Projection(T, f) : ~SameScc(Projection(T, f), e[1], e[2])}

CpuInv ==
  /\ cpuTdm \subseteq Cells
  /\ cpuIter \in Nat
  /\ cpuNoChange \in 0 .. 3
  /\ ProjectionsCurrent
  /\ proj = [f \in Faces |-> proj[f]]
  /\ todo # {} => todo = Between(cpuTdm, CpuFace)

LEMMA BetweenWithout ==
  ASSUME NEW T \in SUBSET Cells, NEW f, NEW e \in Between(T, f)
  PROVE  /\ e \in Nodes
         /\ Between(T \ Shown(T, f, e), f) = Between(T, f) \ {e}
<1> DEFINE E == Projection(T, f)
           U == T \ Shown(T, f, e)
<1>1. E \in SUBSET Nodes
  BY EdgeIsPair DEF Projection, Nodes
<1>2. Projection(U, f) = E \ {e}
  BY DEF Projection, Shown
<1>3. e \in E /\ ~SameScc(E, e[1], e[2])
  BY DEF Between
<1> HIDE DEF E, U
<1>4. e[1] \in Rows /\ e[2] \in Rows /\ e = <<e[1], e[2]>>
  BY <1>1, <1>3 DEF Nodes
<1>5. ASSUME NEW g \in E
      PROVE  SameScc(E \ {e}, g[1], g[2]) <=> SameScc(E, g[1], g[2])
  <2>1. g[1] \in Rows /\ g[2] \in Rows
    BY <1>1 DEF Nodes
  <2>2. E \in SUBSET (Rows \X Rows)
    BY <1>1 DEF Nodes
  <2> QED  BY <2>1, <2>2, <1>3, <1>4, ComponentsKept
<1>6. Between(U, f) = {g \in E \ {e} : ~SameScc(E \ {e}, g[1], g[2])}
  BY <1>2 DEF Between
<1>7. Between(T, f) = {g \in E : ~SameScc(E, g[1], g[2])}
  BY DEF Between, E
<1>8. Between(U, f) = Between(T, f) \ {e}
  BY <1>3, <1>5, <1>6, <1>7
<1> QED  BY <1>1, <1>3, <1>8 DEF U

\* What a face keeps does not show at an edge between components.
LEMMA KeepIsRest ==
  ASSUME NEW T, NEW f
  PROVE  Keep(T, f) = {c \in T : Edge(f, c) \notin Between(T, f)}
BY DEF Keep, Between, Projection

\* The search for components sees the projection of what is left.
LEMMA WalkIsProjection ==
  ASSUME NEW T \in SUBSET Cells, NEW f
  PROVE  Walk(InitAdjNodes(T, f)) = Projection(T, f)
<1>1. Counts(T, f) \in [Nodes -> Nat] /\ Counted(Counts(T, f)) = Projection(T, f)
  BY CountsFacts
<1> QED  BY <1>1, InitIsAdj, WalkFinds

\* The order in which the entries of an edge are removed lists them all.
LEMMA OrderExists ==
  ASSUME NEW L \in SUBSET Cells
  PROVE  LET q == CHOOSE o \in [1 .. Cardinality(L) -> L] :
                    \A i, j \in DOMAIN o : i # j => o[i] # o[j]
         IN  /\ Cardinality(L) \in Nat
             /\ q \in [1 .. Cardinality(L) -> L]
             /\ \A i, j \in 1 .. Cardinality(L) : i # j => q[i] # q[j]
             /\ {q[i] : i \in 1 .. Cardinality(L)} = L
<1> DEFINE n == Cardinality(L)
           Ok(o) == \A i, j \in DOMAIN o : i # j => o[i] # o[j]
           q == CHOOSE o \in [1 .. n -> L] : Ok(o)
<1>1. IsFiniteSet(L)
  BY CellsFinite, FS_Subset
<1>2. n \in Nat /\ ExistsBijection(1 .. n, L)
  BY <1>1, FS_CardinalityType
<1> HIDE DEF n
<1>3. PICK o \in Bijection(1 .. n, L) : TRUE
  BY <1>2 DEF ExistsBijection
<1>4. o \in [1 .. n -> L] /\ Ok(o)
  BY <1>3 DEF Bijection, Injection, IsInjective
<1>5. q \in [1 .. n -> L] /\ Ok(q)
  <2> HIDE DEF Ok
  <2> QED  BY <1>4
<1> HIDE DEF q
<1>6. \A i, j \in 1 .. n : i # j => q[i] # q[j]
  BY <1>5
<1>7. q \in Injection(1 .. n, L)
  BY <1>5, <1>6 DEF Injection, IsInjective
<1>8. Cardinality(1 .. n) = n
  <2>1. 1 \in Int /\ n \in Int
    BY <1>2
  <2>2. Cardinality(1 .. n) = IF 1 > n THEN 0 ELSE n - 1 + 1
    BY <2>1, FS_Interval
  <2> QED  BY <2>2, <1>2
<1>9. q \in Surjection(1 .. n, L)
  BY <1>1, <1>7, <1>8, FS_Injection DEF n
<1>10. {q[i] : i \in 1 .. n} = L
  BY <1>5, <1>9 DEF Surjection
<1> QED  BY <1>2, <1>5, <1>6, <1>10 DEF n, q

LEMMA InitCpuInv == CpuInit => CpuInv
<1> SUFFICES ASSUME CpuInit PROVE CpuInv
  OBVIOUS
<1>1. cpuTdm \subseteq Cells /\ cpuIter = 0 /\ cpuNoChange = 0 /\ todo = {}
  BY InputsAssumption DEF CpuInit
<1>2. ProjectionsCurrent /\ proj = [f \in Faces |-> proj[f]]
  BY DEF CpuInit, ProjectionsCurrent
<1> QED  BY <1>1, <1>2 DEF CpuInv

LEMMA IdleFaceInv == CpuInv /\ IdleFace => CpuInv'
<1> SUFFICES ASSUME CpuInv, IdleFace PROVE CpuInv'
  OBVIOUS
<1>1. /\ cpuNoChange < 3 /\ todo = {} /\ cpuNoChange' = cpuNoChange + 1
      /\ cpuIter' = cpuIter + 1 /\ cpuTdm' = cpuTdm /\ proj' = proj /\ todo' = todo
  BY DEF IdleFace
<1>2. cpuNoChange' \in 0 .. 3 /\ cpuIter' \in Nat
  BY <1>1 DEF CpuInv
<1> QED  BY <1>1, <1>2 DEF CpuInv, ProjectionsCurrent

LEMMA BeginFaceInv == CpuInv /\ BeginFace => CpuInv' /\ todo' = Between(cpuTdm, CpuFace)
<1> SUFFICES ASSUME CpuInv, BeginFace PROVE CpuInv' /\ todo' = Between(cpuTdm, CpuFace)
  OBVIOUS
<1>1. CpuFace \in Faces
  BY DEF CpuInv, CpuFace, Faces
<1>2. Walk(proj[CpuFace]) = Projection(cpuTdm, CpuFace)
  BY <1>1, WalkIsProjection DEF CpuInv, ProjectionsCurrent
<1>3. todo' = Between(cpuTdm, CpuFace)
  BY <1>2 DEF BeginFace, Between
<1>4. UNCHANGED <<cpuTdm, cpuIter, cpuNoChange, proj>>
  BY DEF BeginFace
<1> QED  BY <1>3, <1>4 DEF CpuInv, ProjectionsCurrent, CpuFace

\* The nodes of all three faces follow the removal of an edge of one of them.
LEMMA RemoveEdgeCurrent ==
  ASSUME CpuInv, NEW e \in Nodes, RemoveEdge(e)
  PROVE  /\ cpuTdm' = cpuTdm \ Shown(cpuTdm, CpuFace, e)
         /\ ProjectionsCurrent' /\ proj' = [f \in Faces |-> proj'[f]]
<1> DEFINE lost == Shown(cpuTdm, CpuFace, e)
           n == Cardinality(lost)
           q == CHOOSE o \in [1 .. n -> lost] : \A i, j \in DOMAIN o : i # j => o[i] # o[j]
<1>1. cpuTdm' = cpuTdm \ lost
  BY DEF RemoveEdge, Shown
<1>2. proj' = [f \in Faces |-> IF f = CpuFace THEN DelAdjNode(proj[f], e)
                               ELSE DecAll(proj[f], [i \in DOMAIN q |-> Edge(f, q[i])])]
  BY DEF RemoveEdge, Shown
<1>3. cpuTdm \in SUBSET Cells /\ lost \in SUBSET cpuTdm /\ e \in Between(cpuTdm, CpuFace)
  BY DEF CpuInv, RemoveEdge, Shown
<1> HIDE DEF lost
<1>4. /\ n \in Nat /\ q \in [1 .. n -> lost] /\ {q[i] : i \in 1 .. n} = lost
      /\ \A i, j \in 1 .. n : i # j => q[i] # q[j]
  BY <1>3, OrderExists
<1> HIDE DEF n, q
<1>5. DOMAIN q = 1 .. n /\ q \in [1 .. n -> cpuTdm]
  BY <1>3, <1>4
<1>6. cpuTdm' \in SUBSET Cells
  BY <1>1, <1>3
<1>7. ASSUME NEW f \in Faces
      PROVE  proj'[f] = InitAdjNodes(cpuTdm', f)
  <2>1. proj[f] = Adj(Counts(cpuTdm, f))
    BY <1>3, InitIsAdj DEF CpuInv, ProjectionsCurrent
  <2>2. InitAdjNodes(cpuTdm', f) = Adj(Counts(cpuTdm \ lost, f))
    BY <1>1, <1>6, InitIsAdj
  <2>3. CASE f = CpuFace
    <3>1. e \in Projection(cpuTdm, f) /\ Counts(cpuTdm, f) \in [Nodes -> Nat]
      BY <1>3, <2>3, CountsFacts DEF Between
    <3>2. Counts(cpuTdm, f)[e] > 0
      BY <3>1, <1>3, CountsFacts DEF Counted
    <3>3. Counts(cpuTdm \ lost, f) = Nowhere(Counts(cpuTdm, f), e)
      BY <1>3, <2>3, CountsWithoutEdge DEF lost
    <3>4. DelAdjNode(Adj(Counts(cpuTdm, f)), e) = Adj(Nowhere(Counts(cpuTdm, f), e))
      BY <3>1, <3>2, DelAdjNodeKeeps
    <3>5. proj'[f] = DelAdjNode(proj[f], e)
      BY <1>2, <2>3
    <3> QED  BY <2>1, <2>2, <3>3, <3>4, <3>5
  <2>4. CASE f # CpuFace
    <3>1. proj'[f] = DecAll(proj[f], [i \in 1 .. n |-> Edge(f, q[i])])
      BY <1>2, <1>5, <2>4
    <3>2. DecAll(Adj(Counts(cpuTdm, f)), [i \in 1 .. n |-> Edge(f, q[i])])
            = Adj(Counts(cpuTdm \ {q[i] : i \in 1 .. n}, f))
      BY <1>3, <1>4, <1>5, DecAllKeeps
    <3> QED  BY <2>1, <2>2, <3>1, <3>2, <1>4
  <2> QED  BY <2>3, <2>4
<1>8. proj' = [f \in Faces |-> proj'[f]]
  BY <1>2
<1> QED  BY <1>1, <1>7, <1>8 DEF ProjectionsCurrent, lost

LEMMA RemoveEdgeInv ==
  ASSUME CpuInv, NEW e \in Nodes, RemoveEdge(e)
  PROVE  /\ CpuInv'
         /\ todo # {} /\ todo' = todo \ {e} /\ input' = input
         /\ cpuTdm' = cpuTdm \ Shown(cpuTdm, CpuFace, e)
         /\ IF todo' = {} THEN cpuNoChange' = 0 /\ cpuIter' = cpuIter + 1
                          ELSE cpuNoChange' = cpuNoChange /\ cpuIter' = cpuIter
<1>1. /\ e \in todo /\ todo' = todo \ {e} /\ input' = input
      /\ IF todo' = {} THEN cpuNoChange' = 0 /\ cpuIter' = cpuIter + 1
                       ELSE cpuNoChange' = cpuNoChange /\ cpuIter' = cpuIter
  BY DEF RemoveEdge
<1>2. /\ cpuTdm' = cpuTdm \ Shown(cpuTdm, CpuFace, e)
      /\ ProjectionsCurrent' /\ proj' = [f \in Faces |-> proj'[f]]
  BY RemoveEdgeCurrent
<1>3. cpuTdm' \subseteq Cells /\ cpuIter' \in Nat /\ cpuNoChange' \in 0 .. 3
  BY <1>1, <1>2 DEF CpuInv
<1>4. ASSUME todo' # {}
      PROVE  todo' = Between(cpuTdm', CpuFace')
  <2>1. CpuFace' = CpuFace
    BY <1>1, <1>4 DEF CpuFace
  <2>2. todo = Between(cpuTdm, CpuFace) /\ cpuTdm \in SUBSET Cells
    BY <1>1 DEF CpuInv
  <2> QED  BY <1>1, <1>2, <2>1, <2>2, BetweenWithout
<1>5. CpuInv'
  BY <1>2, <1>3, <1>4 DEF CpuInv
<1> QED  BY <1>1, <1>2, <1>5

LEMMA NextCpuInv == CpuInv /\ [CpuNext]_cpuVars => CpuInv'
<1> SUFFICES ASSUME CpuInv, [CpuNext]_cpuVars PROVE CpuInv'
  OBVIOUS
<1>1. CASE UNCHANGED cpuVars
  BY <1>1 DEF CpuInv, cpuVars, ProjectionsCurrent, CpuFace
<1> QED  BY <1>1, IdleFaceInv, BeginFaceInv, RemoveEdgeInv DEF CpuNext

\* No count drifts, and no removal order leaves a dead edge on a list or a
\* live one off it.
THEOREM ProjectionsStayCurrent == CpuSpec => []ProjectionsCurrent
<1>1. CpuInv => ProjectionsCurrent
  BY DEF CpuInv
<1> QED  BY InitCpuInv, NextCpuInv, <1>1, PTL DEF CpuSpec

-----------------------------------------------------------------------------
(* simplify_cpu implements the loop of TdmSimplify: the step is taken when *)
(* the search has found the edges between components, and removing them    *)
(* one by one only carries it out.                                         *)

CpuRest == {c \in cpuTdm : Edge(CpuFace, c) \notin todo}

LEMMA CpuLoopKeep ==
  ASSUME NEW T, NEW f
  PROVE  CpuLoop!Keep(T, f) = Keep(T, f)
BY DEF CpuLoop!Keep, Keep, CpuLoop!Projection, Projection, CpuLoop!SameScc, SameScc,
       CpuLoop!Reaches, Reaches, CpuLoop!IsClosed, IsClosed, CpuLoop!Edge, Edge,
       CpuLoop!Rows, Rows

LEMMA CpuLoopInit == CpuInit => CpuLoop!Init
BY DEF CpuInit, CpuLoop!Init

LEMMA IdleFaceSimplifies ==
  ASSUME CpuInv, IdleFace
  PROVE  CpuLoop!SimplifyFace
<1>1. /\ cpuNoChange < 3 /\ todo = {} /\ cpuNoChange' = cpuNoChange + 1
      /\ cpuIter' = cpuIter + 1 /\ cpuTdm' = cpuTdm /\ todo' = {} /\ input' = input
      /\ \A e \in Walk(proj[CpuFace]) : SameScc(Walk(proj[CpuFace]), e[1], e[2])
  BY DEF IdleFace
<1>2. CpuFace \in Faces
  BY DEF CpuInv, CpuFace, Faces
<1>3. Walk(proj[CpuFace]) = Projection(cpuTdm, CpuFace)
  BY <1>2, WalkIsProjection DEF CpuInv, ProjectionsCurrent
<1>4. Between(cpuTdm, CpuFace) = {}
  BY <1>1, <1>3 DEF Between
<1>5. Keep(cpuTdm, CpuFace) = cpuTdm
  BY <1>4, KeepIsRest
<1>6. CpuRest = cpuTdm /\ CpuRest' = cpuTdm
  BY <1>1 DEF CpuRest
<1>7. CpuRest' = CpuLoop!Keep(CpuRest, cpuIter % 3)
  BY <1>5, <1>6, CpuLoopKeep DEF CpuFace
<1> QED  BY <1>1, <1>6, <1>7 DEF CpuLoop!SimplifyFace, CpuRest

LEMMA BeginFaceSimplifies ==
  ASSUME CpuInv, BeginFace
  PROVE  CpuLoop!SimplifyFace
<1>1. /\ cpuNoChange < 3 /\ todo = {} /\ todo' # {}
      /\ UNCHANGED <<input, cpuTdm, cpuIter, cpuNoChange>>
  BY DEF BeginFace
<1>2. todo' = Between(cpuTdm, CpuFace)
  BY BeginFaceInv
<1>3. CpuRest = cpuTdm
  BY <1>1 DEF CpuRest
<1>4. CpuRest' = {c \in cpuTdm : Edge(CpuFace, c) \notin Between(cpuTdm, CpuFace)}
  BY <1>1, <1>2 DEF CpuRest, CpuFace
<1>5. CpuRest' = Keep(cpuTdm, CpuFace)
  BY <1>4, KeepIsRest
<1>6. CpuRest' # CpuRest
  <2>1. PICK e : e \in Between(cpuTdm, CpuFace)
    BY <1>1, <1>2
  <2>2. PICK c \in cpuTdm : Edge(CpuFace, c) = e
    BY <2>1 DEF Between, Projection
  <2> QED  BY <2>1, <2>2, <1>3, <1>4
<1>7. CpuRest' = CpuLoop!Keep(CpuRest, cpuIter % 3)
  BY <1>3, <1>5, CpuLoopKeep DEF CpuFace
<1> QED  BY <1>1, <1>6, <1>7 DEF CpuLoop!SimplifyFace, CpuRest

LEMMA RemoveEdgeStutters ==
  ASSUME CpuInv, NEW e \in Nodes, RemoveEdge(e)
  PROVE  UNCHANGED CpuLoop!vars
<1>1. /\ todo # {} /\ todo' = todo \ {e} /\ input' = input
      /\ cpuTdm' = cpuTdm \ Shown(cpuTdm, CpuFace, e)
      /\ IF todo' = {} THEN cpuNoChange' = 0 /\ cpuIter' = cpuIter + 1
                       ELSE cpuNoChange' = cpuNoChange /\ cpuIter' = cpuIter
  BY RemoveEdgeInv
<1>2. e \in todo
  BY DEF RemoveEdge
<1>3. CpuRest' = CpuRest
  <2>1. CASE todo' = {}
    <3>1. todo = {e} /\ CpuRest' = cpuTdm'
      BY <1>1, <1>2, <2>1 DEF CpuRest
    <3> QED  BY <3>1, <1>1 DEF CpuRest, Shown
  <2>2. CASE todo' # {}
    <3>1. CpuFace' = CpuFace
      BY <1>1, <2>2 DEF CpuFace
    <3> QED  BY <3>1, <1>1, <1>2 DEF CpuRest, Shown
  <2> QED  BY <2>1, <2>2
<1> QED  BY <1>1, <1>3 DEF CpuLoop!vars, CpuRest

\* The incremental version computes what simplifying whole faces computes.
THEOREM IncrementalImplementsLoop == CpuSpec => CpuImplementsLoop
<1>1. CpuInit => CpuLoop!Init
  BY CpuLoopInit
<1>2. CpuInv /\ [CpuNext]_cpuVars => [CpuLoop!Next]_(CpuLoop!vars)
  <2> SUFFICES ASSUME CpuInv, [CpuNext]_cpuVars
               PROVE  CpuLoop!Next \/ UNCHANGED CpuLoop!vars
    OBVIOUS
  <2>1. CASE IdleFace
    BY <2>1, IdleFaceSimplifies DEF CpuLoop!Next
  <2>2. CASE BeginFace
    BY <2>2, BeginFaceSimplifies DEF CpuLoop!Next
  <2>3. ASSUME NEW e \in Nodes, RemoveEdge(e)
        PROVE  UNCHANGED CpuLoop!vars
    BY <2>3, RemoveEdgeStutters
  <2>4. CASE UNCHANGED cpuVars
    BY <2>4 DEF cpuVars, CpuLoop!vars, CpuFace
  <2> QED  BY <2>1, <2>2, <2>3, <2>4 DEF CpuNext
<1>3. CpuInv /\ [CpuNext]_cpuVars => CpuInv'
  BY NextCpuInv
<1> QED  BY <1>1, <1>2, <1>3, InitCpuInv, PTL DEF CpuSpec, CpuImplementsLoop, CpuLoop!Spec
=============================================================================
