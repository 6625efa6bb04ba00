---------------------------- MODULE Checks_proofs ----------------------------
(***************************************************************************)
(* Proofs about what runs beside each other in MCChecks.  First the        *)
(* heuristic searches for a witness, for every set of puzzles of any       *)
(* height and width: behind the sets of used rows there is a partial       *)
(* matching; its entries are in the instance, and a layer that it does not *)
(* match yet has the count of entries that are still free.                 *)
(*                                                                         *)
(* Then the two tests of an edge, for every face of a puzzle of any        *)
(* height.  allowed_matching_edges is Kosaraju's algorithm; its proof      *)
(* compares the ends of the first search with reachability, and shows that *)
(* a tree of the second is a component.  has_perfect_bipartite_matching    *)
(* keeps a matching in the reversed edges of its network, one surplus node *)
(* moving along the path while it is turned round; when no path is left,   *)
(* the rows that the source reaches show that no matching is perfect.      *)
(***************************************************************************)
EXTENDS WitnessSearch, EdgeCriteria, TdmFacts, SequenceTheorems

All == RowsOf(N)

\* f and g place the layers D in the rows that are used.
PartialMatching(D, f, g) ==
  /\ D \in SUBSET All /\ f \in [D -> All] /\ g \in [D -> All]
  /\ Cardinality(D) = step
  /\ used2 = {f[i] : i \in D} /\ used3 = {g[i] : i \in D}
  /\ \A i, j \in D : f[i] = f[j] \/ g[i] = g[j] => i = j
  /\ \A i \in D : <<i, f[i], g[i]>> \in tdm
  /\ isIdent <=> \A i \in D : f[i] = i /\ g[i] = i

\* Which layers these are.
Tracked(D) ==
  /\ method = "random" => \A i \in D : i < step
  /\ method = "greedy" =>
       \A l \in All : layerCounts[l] = IF l \in D THEN TooBig ELSE Cardinality(Free(l))

SearchTypes ==
  /\ p \in Puzzles0 /\ tdm = Instance(p, TRUE)
  /\ method \in {"none", "random", "greedy"}
  /\ isIdent \in BOOLEAN

WitnessInv ==
  /\ SearchTypes
  /\ method # "none" => \E D, f, g : PartialMatching(D, f, g) /\ Tracked(D)
  /\ WitnessReal

-----------------------------------------------------------------------------
(* Rows and counts.                                                        *)

LEMMA RowFacts ==
  ASSUME SearchTypes
  PROVE  /\ N \in Nat /\ All = DOMAIN p /\ IsFiniteSet(All) /\ Cardinality(All) = N
         /\ \A D \in SUBSET All : /\ IsFiniteSet(D) /\ Cardinality(D) \in 0 .. N
                                  /\ Cardinality(D) = N => D = All
<1>1. IsFiniteSet(DOMAIN p) /\ DOMAIN p = All /\ Cardinality(DOMAIN p) = N
  BY PuzzlesAssumption DEF SearchTypes, All, N, Height
<1>2. N \in Nat
  BY <1>1, FS_CardinalityType
<1>3. ASSUME NEW D \in SUBSET All
      PROVE  /\ IsFiniteSet(D) /\ Cardinality(D) \in 0 .. N
             /\ Cardinality(D) = N => D = All
  <2>1. /\ IsFiniteSet(D) /\ Cardinality(D) <= Cardinality(All)
        /\ Cardinality(D) = Cardinality(All) => D = All
    BY <1>1, FS_Subset
  <2>2. Cardinality(D) \in Nat
    BY <2>1, FS_CardinalityType
  <2> QED  BY <1>1, <1>2, <2>1, <2>2
<1> QED  BY <1>1, <1>2, <1>3

\* Free of a layer, with other rows used.
FreeBut(l, U, V) == {e \in (All \ U) \X (All \ V) : <<l, e[1], e[2]>> \in tdm}

LEMMA FreeBounded ==
  ASSUME SearchTypes, NEW l, NEW U, NEW V
  PROVE  /\ IsFiniteSet(FreeBut(l, U, V))
         /\ Cardinality(FreeBut(l, U, V)) \in Nat
         /\ Cardinality(FreeBut(l, U, V)) < TooBig
<1>1. IsFiniteSet(All \X All) /\ Cardinality(All \X All) = N * N /\ N \in Nat
  BY RowFacts, FS_Product
<1>2. FreeBut(l, U, V) \subseteq All \X All
  BY DEF FreeBut
<1>3. /\ IsFiniteSet(FreeBut(l, U, V))
      /\ Cardinality(FreeBut(l, U, V)) <= Cardinality(All \X All)
  BY <1>1, <1>2, FS_Subset
<1>4. Cardinality(FreeBut(l, U, V)) \in Nat
  BY <1>3, FS_CardinalityType
<1>5. PICK n \in Nat : n = N * N
  BY <1>1
<1> QED  BY <1>1, <1>3, <1>4, <1>5 DEF TooBig

LEMMA DisjointCounts ==
  ASSUME NEW A, NEW B, IsFiniteSet(A), IsFiniteSet(B), A \cap B = {}
  PROVE  /\ IsFiniteSet(A \cup B) /\ Cardinality(A \cup B) = Cardinality(A) + Cardinality(B)
         /\ Cardinality(A) \in Nat /\ Cardinality(B) \in Nat
<1>1. /\ IsFiniteSet(A \cup B)
      /\ Cardinality(A \cup B) = Cardinality(A) + Cardinality(B) - Cardinality(A \cap B)
  BY FS_Union
<1>2. Cardinality(A) \in Nat /\ Cardinality(B) \in Nat
  BY FS_CardinalityType
<1>3. Cardinality(A \cap B) = 0
  BY FS_EmptySet
<1> QED  BY <1>1, <1>2, <1>3

\* Lost is what a layer loses.
LEMMA LostCounts ==
  ASSUME SearchTypes, NEW l, NEW e \in (All \ used2) \X (All \ used3)
  PROVE  Cardinality(FreeBut(l, used2 \cup {e[1]}, used3 \cup {e[2]}))
           = Cardinality(FreeBut(l, used2, used3)) - Lost(l, e)
<1> DEFINE A == {j \in All \ (used2 \cup {e[1]}) : <<l, j, e[2]>> \in tdm}
           B == {k \in All \ (used3 \cup {e[2]}) : <<l, e[1], k>> \in tdm}
           C == IF <<l, e[1], e[2]>> \in tdm THEN {e} ELSE {}
           F == FreeBut(l, used2 \cup {e[1]}, used3 \cup {e[2]})
<1>1. IsFiniteSet(A) /\ IsFiniteSet(B) /\ IsFiniteSet(F)
  <2>1. A \in SUBSET All /\ B \in SUBSET All
    OBVIOUS
  <2> HIDE DEF A, B
  <2> QED  BY <2>1, RowFacts, FreeBounded
<1>2. /\ IsFiniteSet({e[1]}) /\ Cardinality({e[1]}) = 1
      /\ IsFiniteSet({e[2]}) /\ Cardinality({e[2]}) = 1
      /\ IsFiniteSet({e}) /\ Cardinality({e}) = 1
      /\ IsFiniteSet({}) /\ Cardinality({}) = 0
  BY FS_Singleton, FS_EmptySet
<1>3. IsFiniteSet(C) /\ Cardinality(C) = IF <<l, e[1], e[2]>> \in tdm THEN 1 ELSE 0
  BY <1>2
<1>c. C = {} \/ C = {e}
  OBVIOUS
<1>4. /\ A \cap {e[1]} = {} /\ B \cap {e[2]} = {}
      /\ \A d \in F : d[1] # e[1] /\ d[2] # e[2]
  BY DEF FreeBut
<1>5. FreeBut(l, used2, used3) = ((F \cup (A \X {e[2]})) \cup ({e[1]} \X B)) \cup C
  <2>1. ASSUME NEW d \in FreeBut(l, used2, used3)
        PROVE  d \in ((F \cup (A \X {e[2]})) \cup ({e[1]} \X B)) \cup C
    <3>1. /\ d = <<d[1], d[2]>> /\ d[1] \in All \ used2 /\ d[2] \in All \ used3
          /\ <<l, d[1], d[2]>> \in tdm /\ e = <<e[1], e[2]>>
      BY DEF FreeBut
    <3>2. CASE d[1] = e[1] /\ d[2] = e[2]
      BY <3>1, <3>2
    <3>3. CASE d[1] = e[1] /\ d[2] # e[2]
      BY <3>1, <3>3
    <3>4. CASE d[1] # e[1] /\ d[2] = e[2]
      BY <3>1, <3>4
    <3>5. CASE d[1] # e[1] /\ d[2] # e[2]
      BY <3>1, <3>5 DEF FreeBut
    <3> QED  BY <3>2, <3>3, <3>4, <3>5
  <2>2. ASSUME NEW d \in ((F \cup (A \X {e[2]})) \cup ({e[1]} \X B)) \cup C
        PROVE  d \in FreeBut(l, used2, used3)
    <3>1. CASE d \in F
      BY <3>1 DEF FreeBut
    <3>2. CASE d \in A \X {e[2]}
      BY <3>2 DEF FreeBut
    <3>3. CASE d \in {e[1]} \X B
      BY <3>3 DEF FreeBut
    <3>4. CASE d \in C
      BY <3>4 DEF FreeBut
    <3> QED  BY <2>2, <3>1, <3>2, <3>3, <3>4
  <2> HIDE DEF A, B, C, F
  <2> QED  BY <2>1, <2>2
<1>6. Lost(l, e) = Cardinality(A) + Cardinality(B) + Cardinality(C)
  BY <1>3 DEF Lost, All
<1> HIDE DEF A, B, C, F
<1>7. /\ IsFiniteSet(A \X {e[2]}) /\ Cardinality(A \X {e[2]}) = Cardinality(A) * 1
      /\ IsFiniteSet({e[1]} \X B) /\ Cardinality({e[1]} \X B) = 1 * Cardinality(B)
  <2>1. PICK X, Y : X = {e[1]} /\ Y = {e[2]}
    OBVIOUS
  <2>2. /\ IsFiniteSet(X) /\ Cardinality(X) = 1 /\ IsFiniteSet(Y) /\ Cardinality(Y) = 1
    BY <1>2, <2>1
  <2>3. IsFiniteSet(A \X Y) /\ Cardinality(A \X Y) = Cardinality(A) * 1
    BY <1>1, <2>2, FS_Product
  <2>4. IsFiniteSet(X \X B) /\ Cardinality(X \X B) = 1 * Cardinality(B)
    BY <1>1, <2>2, FS_Product
  <2> QED  BY <2>1, <2>3, <2>4
<1>8. /\ F \cap (A \X {e[2]}) = {}
      /\ (F \cup (A \X {e[2]})) \cap ({e[1]} \X B) = {}
      /\ ((F \cup (A \X {e[2]})) \cup ({e[1]} \X B)) \cap C = {}
  <2>1. F \cap (A \X {e[2]}) = {} /\ F \cap ({e[1]} \X B) = {}
    BY <1>4
  <2>2. (A \X {e[2]}) \cap ({e[1]} \X B) = {}
    BY <1>4
  <2>3. e \notin F /\ e \notin A \X {e[2]} /\ e \notin {e[1]} \X B
    BY <1>4
  <2> QED  BY <2>1, <2>2, <2>3, <1>c
<1>9. /\ Cardinality(F \cup (A \X {e[2]})) = Cardinality(F) + Cardinality(A \X {e[2]})
      /\ IsFiniteSet(F \cup (A \X {e[2]}))
  BY <1>1, <1>7, <1>8, DisjointCounts
<1>10. /\ Cardinality((F \cup (A \X {e[2]})) \cup ({e[1]} \X B))
            = Cardinality(F \cup (A \X {e[2]})) + Cardinality({e[1]} \X B)
       /\ IsFiniteSet((F \cup (A \X {e[2]})) \cup ({e[1]} \X B))
  BY <1>7, <1>8, <1>9, DisjointCounts
<1>11. Cardinality(FreeBut(l, used2, used3))
         = Cardinality((F \cup (A \X {e[2]})) \cup ({e[1]} \X B)) + Cardinality(C)
  BY <1>3, <1>5, <1>8, <1>10, DisjointCounts
<1>12. /\ Cardinality(A) \in Nat /\ Cardinality(B) \in Nat
       /\ Cardinality(C) \in Nat /\ Cardinality(F) \in Nat
  BY <1>1, <1>3, FS_CardinalityType
<1>13. PICK a, b, c, n \in Nat : /\ a = Cardinality(A) /\ b = Cardinality(B)
                                 /\ c = Cardinality(C) /\ n = Cardinality(F)
  BY <1>12
<1>14. Cardinality(FreeBut(l, used2, used3)) = n + a + b + c
  BY <1>7, <1>9, <1>10, <1>11, <1>13
<1> QED  BY <1>6, <1>13, <1>14 DEF F

-----------------------------------------------------------------------------
(* The steps of a search.                                                  *)

LEMMA InitWitnessInv == Init => WitnessInv
<1> SUFFICES ASSUME Init PROVE WitnessInv
  OBVIOUS
<1>1. SearchTypes /\ method = "none" /\ verdict = "maybe"
  BY DEF Init, SearchTypes
<1> QED  BY <1>1 DEF WitnessInv, WitnessReal

LEMMA BeginStep ==
  ASSUME WitnessInv, NEW m \in {"random", "greedy"}, Begin(m)
  PROVE  WitnessInv'
<1>1. SearchTypes /\ WitnessReal
  BY DEF WitnessInv
<1>u. /\ method' = m /\ step' = 0 /\ used2' = {} /\ used3' = {} /\ isIdent' = TRUE
      /\ UNCHANGED <<p, tdm, verdict>>
      /\ layerCounts' = [layer \in All |->
           IF m = "greedy" THEN Cardinality({c \in tdm : c[1] = layer}) ELSE 0]
  BY DEF Begin, All
<1>2. SearchTypes'
  BY <1>1, <1>u DEF SearchTypes
<1>3. WitnessReal'
  BY <1>1, <1>u DEF WitnessReal
<1>a. N' = N /\ All' = All /\ TooBig' = TooBig
  BY <1>u DEF N, All, TooBig
<1>4. PICK h : h = [i \in {} |-> 0]
  OBVIOUS
<1>5. PartialMatching({}, h, h)'
  <2>1. h \in [{} -> All] /\ {h[i] : i \in {}} = {}
    BY <1>4
  <2>2. Cardinality({}) = 0
    BY FS_EmptySet
  <2> QED  BY <2>1, <2>2, <1>u, <1>a DEF PartialMatching
<1>6. Tracked({})'
  <2> SUFFICES ASSUME m = "greedy", NEW l \in All
               PROVE  layerCounts'[l] = Cardinality(Free(l)')
    BY <1>u, <1>a DEF Tracked
  <2> DEFINE T == {c \in tdm : c[1] = l}
             W == FreeBut(l, {}, {})
             g == [e \in W |-> <<l, e[1], e[2]>>]
  <2>1. Free(l)' = W
    BY <1>u, <1>a DEF Free, FreeBut, All
  <2>2. layerCounts'[l] = Cardinality(T)
    BY <1>u
  <2>3. IsFiniteSet(W)
    BY <1>1, FreeBounded
  <2>4. \A c \in tdm : /\ c = <<c[1], c[2], c[3]>>
                       /\ c[2] \in All /\ c[3] \in All
    BY <1>1, RowFacts DEF SearchTypes, Instance
  <2>5. \A e \in W : e = <<e[1], e[2]>> /\ g[e] = <<l, e[1], e[2]>> /\ g[e] \in T
    BY DEF FreeBut
  <2>6. \A c \in T : <<c[2], c[3]>> \in W /\ g[<<c[2], c[3]>>] = c
    BY <2>4 DEF FreeBut
  <2>7. g \in [W -> T]
    BY <2>5
  <2> HIDE DEF T, W
  <2>8. g \in Injection(W, T)
    <3>1. \A x, y \in W : g[x] = g[y] => x = y
      BY <2>5
    <3> HIDE DEF g
    <3> QED  BY <3>1, <2>7 DEF Injection, IsInjective
  <2>9. g \in Surjection(W, T)
    <3> HIDE DEF g
    <3> QED  BY <2>6, <2>7 DEF Surjection
  <2>10. g \in Bijection(W, T)
    BY <2>8, <2>9 DEF Bijection
  <2>11. Cardinality(T) = Cardinality(W)
    <3> HIDE DEF g
    <3> QED  BY <2>3, <2>10, FS_Bijection DEF ExistsBijection
  <2> QED  BY <2>1, <2>2, <2>11
<1> QED  BY <1>2, <1>3, <1>5, <1>6 DEF WitnessInv

\* A free entry of a layer that is not matched yet extends the matching.
LEMMA InsertStep ==
  ASSUME SearchTypes, NEW D, NEW f, NEW g, PartialMatching(D, f, g),
         NEW layer \in All \ D, NEW e \in Free(layer), Insert(layer, e),
         p' = p, tdm' = tdm
  PROVE  PartialMatching(D \cup {layer},
                         [i \in D \cup {layer} |-> IF i = layer THEN e[1] ELSE f[i]],
                         [i \in D \cup {layer} |-> IF i = layer THEN e[2] ELSE g[i]])'
<1> DEFINE C == D \cup {layer}
           f1 == [i \in C |-> IF i = layer THEN e[1] ELSE f[i]]
           g1 == [i \in C |-> IF i = layer THEN e[2] ELSE g[i]]
<1>a. N' = N /\ All' = All
  BY DEF N, All
<1>e. /\ e[1] \in All \ used2 /\ e[2] \in All \ used3 /\ <<layer, e[1], e[2]>> \in tdm
      /\ e = <<e[1], e[2]>>
  BY DEF Free, All
<1>p. /\ D \in SUBSET All /\ f \in [D -> All] /\ g \in [D -> All]
      /\ Cardinality(D) = step
      /\ used2 = {f[i] : i \in D} /\ used3 = {g[i] : i \in D}
      /\ \A i, j \in D : f[i] = f[j] \/ g[i] = g[j] => i = j
      /\ \A i \in D : <<i, f[i], g[i]>> \in tdm
      /\ isIdent <=> \A i \in D : f[i] = i /\ g[i] = i
  BY DEF PartialMatching
<1>u. /\ used2' = used2 \cup {e[1]} /\ used3' = used3 \cup {e[2]} /\ step' = step + 1
      /\ isIdent' = (isIdent /\ e = <<layer, layer>>)
  BY DEF Insert
<1>v. /\ f1[layer] = e[1] /\ g1[layer] = e[2]
      /\ \A i \in D : f1[i] = f[i] /\ g1[i] = g[i]
  OBVIOUS
<1>1. C \in SUBSET All /\ f1 \in [C -> All] /\ g1 \in [C -> All]
  BY <1>e, <1>p
<1>2. Cardinality(C) = step'
  <2>1. IsFiniteSet(D)
    BY <1>p, RowFacts
  <2>2. Cardinality(C) = Cardinality(D) + 1
    BY <2>1, FS_AddElement
  <2> QED  BY <2>2, <1>p, <1>u
<1> HIDE DEF f1, g1
<1>3. used2' = {f1[i] : i \in C} /\ used3' = {g1[i] : i \in C}
  BY <1>p, <1>u, <1>v
<1>4. ASSUME NEW i \in C, NEW j \in C, f1[i] = f1[j] \/ g1[i] = g1[j]
      PROVE  i = j
  <2>1. CASE i \in D /\ j \in D
    BY <2>1, <1>4, <1>p, <1>v
  <2>2. CASE i = layer /\ j \in D
    BY <2>2, <1>4, <1>e, <1>p, <1>v
  <2>3. CASE i \in D /\ j = layer
    BY <2>3, <1>4, <1>e, <1>p, <1>v
  <2> QED  BY <2>1, <2>2, <2>3
<1>5. \A i \in C : <<i, f1[i], g1[i]>> \in tdm
  BY <1>e, <1>p, <1>v
<1>6. isIdent' <=> \A i \in C : f1[i] = i /\ g1[i] = i
  <2>1. e = <<layer, layer>> <=> f1[layer] = layer /\ g1[layer] = layer
    BY <1>e, <1>v
  <2>2. isIdent <=> \A i \in D : f1[i] = i /\ g1[i] = i
    BY <1>p, <1>v
  <2> QED  BY <2>1, <2>2, <1>u
<1>7. PartialMatching(C, f1, g1)'
  <2>1. /\ C \in SUBSET All' /\ f1 \in [C -> All'] /\ g1 \in [C -> All']
        /\ \A i \in C : <<i, f1[i], g1[i]>> \in tdm'
    BY <1>1, <1>5, <1>a
  <2> HIDE DEF C
  <2> QED  BY <2>1, <1>2, <1>3, <1>4, <1>6 DEF PartialMatching
<1> QED  BY <1>7 DEF f1, g1

LEMMA TakeRandomStep ==
  ASSUME WitnessInv, NEW e, TakeRandom(e)
  PROVE  WitnessInv'
<1>1. SearchTypes /\ WitnessReal
  BY DEF WitnessInv
<1>u. /\ method = "random" /\ step < N /\ e \in Free(step) /\ Insert(step, e)
      /\ UNCHANGED <<p, tdm, method, layerCounts, verdict>>
  BY DEF TakeRandom
<1>2. PICK D, f, g : PartialMatching(D, f, g) /\ Tracked(D)
  BY <1>u DEF WitnessInv
<1>3. step \in All \ D /\ step \in Nat
  <2>1. step \in 0 .. N /\ N \in Nat
    BY <1>1, <1>2, RowFacts DEF PartialMatching
  <2>2. step \in All
    BY <2>1, <1>u DEF All, RowsOf
  <2> QED  BY <2>1, <2>2, <1>2, <1>u DEF Tracked
<1>4. PICK C, f1, g1 : C = D \cup {step} /\ PartialMatching(C, f1, g1)'
  BY <1>1, <1>2, <1>3, <1>u, InsertStep
<1>5. Tracked(C)'
  <2>1. \A i \in C : i < step + 1
    <3>1. \A i \in D : i < step /\ i \in Nat
      BY <1>1, <1>2, <1>u, RowFacts DEF Tracked, PartialMatching, All, RowsOf
    <3> QED  BY <3>1, <1>3, <1>4
  <2> QED  BY <2>1, <1>u DEF Tracked, Insert
<1>6. SearchTypes'
  BY <1>1, <1>u DEF SearchTypes, Insert
<1>7. WitnessReal'
  BY <1>1, <1>u DEF WitnessReal
<1> QED  BY <1>4, <1>5, <1>6, <1>7 DEF WitnessInv

\* A set of numbers that is not empty has a least one.
LEMMA MinFacts ==
  ASSUME NEW T \in SUBSET Nat, T # {}
  PROVE  Min(T) \in T /\ \A n \in T : Min(T) <= n
<1> DEFINE R == OpToRel(<, Nat)
<1>1. IsWellFoundedOn(R, Nat)
  BY NatLessThanWellFounded
<1>2. PICK m \in T : \A n \in T : ~(<<n, m>> \in R)
  <2> HIDE DEF R
  <2> QED  BY <1>1, WFMin
<1>3. \A n \in T : m <= n
  <2>1. \A n \in T : ~(n < m)
    BY <1>2 DEF OpToRel
  <2> QED  BY <2>1
<1> QED  BY <1>3 DEF Min

\* The tightest layer is not matched yet.
LEMMA BestIsOpen ==
  ASSUME SearchTypes, NEW D, NEW f, NEW g, PartialMatching(D, f, g), Tracked(D),
         method = "greedy", step < N
  PROVE  /\ Best \in Nat
         /\ \A layer \in All : layerCounts[layer] = Best => layer \notin D
<1>1. /\ \A l \in All : layerCounts[l] = IF l \in D THEN TooBig ELSE Cardinality(Free(l))
      /\ D \in SUBSET All /\ Cardinality(D) = step
  BY DEF Tracked, PartialMatching
<1>2. TooBig \in Nat /\ N \in Nat /\ Cardinality(All) = N
  <2>1. N \in Nat /\ Cardinality(All) = N
    BY RowFacts
  <2>2. PICK n \in Nat : n = N * N
    BY <2>1
  <2> QED  BY <2>1, <2>2 DEF TooBig
<1>3. \A l \in All : Cardinality(Free(l)) \in Nat /\ Cardinality(Free(l)) < TooBig
  <2>1. \A l \in All : Free(l) = FreeBut(l, used2, used3)
    BY DEF Free, FreeBut, All
  <2> QED  BY <2>1, FreeBounded
<1>4. PICK l \in All : l \notin D
  <2>1. D # All
    BY <1>1, <1>2
  <2> QED  BY <2>1, <1>1
<1>5. PICK T : T = {layerCounts[layer] : layer \in All}
  OBVIOUS
<1>6. T \in SUBSET Nat /\ layerCounts[l] \in T
  BY <1>1, <1>2, <1>3, <1>5
<1>7. Min(T) \in T /\ Min(T) <= layerCounts[l]
  BY <1>6, MinFacts
<1>8. Best = Min(T)
  BY <1>5 DEF Best, All
<1>9. Best \in Nat /\ Best < TooBig
  <2>1. layerCounts[l] < TooBig /\ layerCounts[l] \in Nat
    BY <1>1, <1>3, <1>4
  <2>2. PICK best, count, limit \in Nat :
          best = Best /\ count = layerCounts[l] /\ limit = TooBig
    BY <1>2, <1>6, <1>7, <1>8, <2>1
  <2>3. best <= count /\ count < limit
    BY <1>7, <1>8, <2>1, <2>2
  <2> QED  BY <2>2, <2>3
<1> QED
  <2>1. \A layer \in D : layerCounts[layer] = TooBig
    BY <1>1
  <2>2. Best # TooBig
    BY <1>2, <1>9
  <2> QED  BY <1>9, <2>1, <2>2

LEMMA TakeGreedyStep ==
  ASSUME WitnessInv, NEW layer \in All, NEW e, TakeGreedy(layer, e)
  PROVE  WitnessInv'
<1>1. SearchTypes /\ WitnessReal
  BY DEF WitnessInv
<1>u. /\ method = "greedy" /\ step < N /\ layerCounts[layer] = Best
      /\ e \in Free(layer) /\ Insert(layer, e)
      /\ layerCounts' = [l \in All |->
           IF l = layer \/ layerCounts[l] = TooBig THEN TooBig ELSE layerCounts[l] - Lost(l, e)]
      /\ UNCHANGED <<p, tdm, method, verdict>>
  BY DEF TakeGreedy, All
<1>a. N' = N /\ All' = All /\ TooBig' = TooBig
  BY <1>u DEF N, All, TooBig
<1>2. PICK D, f, g : PartialMatching(D, f, g) /\ Tracked(D)
  BY <1>u DEF WitnessInv
<1>3. layer \in All \ D
  BY <1>1, <1>2, <1>u, BestIsOpen
<1>4. PICK C, f1, g1 : C = D \cup {layer} /\ PartialMatching(C, f1, g1)'
  BY <1>1, <1>2, <1>3, <1>u, InsertStep
<1>5. Tracked(C)'
  <2> SUFFICES ASSUME NEW l \in All
               PROVE  layerCounts'[l] = IF l \in C THEN TooBig ELSE Cardinality(Free(l)')
    BY <1>u, <1>a DEF Tracked
  <2>1. layerCounts[l] = IF l \in D THEN TooBig ELSE Cardinality(Free(l))
    BY <1>2, <1>u DEF Tracked
  <2>2. layerCounts'[l] = IF l = layer \/ layerCounts[l] = TooBig THEN TooBig
                          ELSE layerCounts[l] - Lost(l, e)
    BY <1>u
  <2>3. CASE l \in C
    BY <2>1, <2>2, <2>3, <1>4
  <2>4. CASE l \notin C
    <3>1. Free(l) = FreeBut(l, used2, used3)
      BY DEF Free, FreeBut, All
    <3>2. Free(l)' = FreeBut(l, used2 \cup {e[1]}, used3 \cup {e[2]})
      BY <1>u, <1>a DEF Free, FreeBut, All, Insert
    <3>3. Cardinality(Free(l)) < TooBig /\ Cardinality(Free(l)) \in Nat /\ TooBig \in Int
      <4>1. N \in Nat
        BY <1>1, RowFacts
      <4> QED  BY <4>1, <1>1, <3>1, FreeBounded DEF TooBig
    <3>4. e \in (All \ used2) \X (All \ used3)
      BY <1>u DEF Free, All
    <3>5. Cardinality(Free(l)') = Cardinality(Free(l)) - Lost(l, e)
      BY <1>1, <3>1, <3>2, <3>4, LostCounts
    <3>6. l # layer /\ l \notin D /\ layerCounts[l] # TooBig
      BY <2>1, <2>4, <1>4, <3>3
    <3> QED  BY <2>1, <2>2, <2>4, <3>5, <3>6
  <2> QED  BY <2>3, <2>4
<1>6. SearchTypes'
  BY <1>1, <1>u DEF SearchTypes, Insert
<1>7. WitnessReal'
  BY <1>1, <1>u DEF WitnessReal
<1> QED  BY <1>4, <1>5, <1>6, <1>7 DEF WitnessInv

LEMMA StuckStep == WitnessInv /\ Stuck => WitnessInv'
BY DEF Stuck, WitnessInv, SearchTypes, WitnessReal

\* A matching of all layers is a pair of permutations.
LEMMA CompleteStep == WitnessInv /\ Complete => WitnessInv'
<1> SUFFICES ASSUME WitnessInv, Complete PROVE WitnessInv'
  OBVIOUS
<1>1. SearchTypes /\ WitnessReal
  BY DEF WitnessInv
<1>u. /\ method # "none" /\ step = N /\ method' = "none"
      /\ verdict' = IF isIdent THEN "maybe" ELSE "no"
      /\ UNCHANGED <<p, tdm, isIdent>>
  BY DEF Complete
<1>2. SearchTypes'
  BY <1>1, <1>u DEF SearchTypes
<1>3. PICK D, f, g : PartialMatching(D, f, g)
  BY <1>u DEF WitnessInv
<1>4. ASSUME ~isIdent
      PROVE  ~IsUSP(p, TRUE)
  <2>1. D = All
    BY <1>1, <1>3, <1>u, RowFacts DEF PartialMatching
  <2>2. f \in PermsOf(N) /\ g \in PermsOf(N)
    BY <2>1, <1>3 DEF PartialMatching, PermsOf, All
  <2>3. ~(Ident(f) /\ Ident(g))
    BY <2>1, <1>3, <1>4 DEF PartialMatching, Ident
  <2>4. \A i \in DOMAIN p : ~IsWitness(p, <<i, f[i], g[i]>>, TRUE)
    <3>1. \A i \in All : <<i, f[i], g[i]>> \in Instance(p, TRUE)
      BY <2>1, <1>1, <1>3 DEF PartialMatching, SearchTypes
    <3> QED  BY <3>1, <1>1, RowFacts DEF Instance
  <2> QED  BY <2>2, <2>3, <2>4 DEF IsUSP, N
<1>5. WitnessReal'
  BY <1>4, <1>u DEF WitnessReal
<1> QED  BY <1>2, <1>5, <1>u DEF WitnessInv

LEMMA NextWitnessInv == WitnessInv /\ [Next]_vars => WitnessInv'
<1>1. WitnessInv /\ UNCHANGED vars => WitnessInv'
  <2> SUFFICES ASSUME WitnessInv, UNCHANGED vars PROVE WitnessInv'
    OBVIOUS
  <2>1. All' = All /\ TooBig' = TooBig /\ \A l : Free(l)' = Free(l)
    BY DEF vars, All, N, TooBig, Free
  <2>2. SearchTypes' /\ WitnessReal'
    BY DEF WitnessInv, SearchTypes, WitnessReal, vars
  <2>3. ASSUME method' # "none"
        PROVE  \E D, f, g : PartialMatching(D, f, g)' /\ Tracked(D)'
    <3>1. PICK D, f, g : PartialMatching(D, f, g) /\ Tracked(D)
      BY <2>3 DEF WitnessInv, vars
    <3>2. PartialMatching(D, f, g)'
      BY <2>1, <3>1 DEF PartialMatching, vars
    <3>3. Tracked(D)'
      BY <2>1, <3>1 DEF Tracked, vars
    <3> QED  BY <3>2, <3>3
  <2> QED  BY <2>2, <2>3 DEF WitnessInv
<1> QED  BY <1>1, BeginStep, TakeRandomStep, TakeGreedyStep, StuckStep, CompleteStep
         DEF Next, All

\* The rows a search has used are those of a partial matching of entries, and the
\* greedy search's counts are those of the layers it has not matched.
THEOREM SearchInvariance == Spec => []WitnessInv
<1> QED  BY InitWitnessInv, NextWitnessInv, PTL DEF Spec

\* SearchSound of heuristic_random_witness and heuristic_greedy, for every puzzle of
\* any height and width: the counts are exact, however the entries were chosen, and
\* a search that says no has found two permutations that are not both the identity.
THEOREM SearchIsSound == Spec => []SearchSound
<1>1. WitnessInv => SearchSound
  BY DEF WitnessInv, Tracked, All, CountsExact, SearchSound
<1> QED  BY <1>1, SearchInvariance, PTL

-----------------------------------------------------------------------------
(* Reachability.                                                           *)

LEMMA ReachesTrans ==
  ASSUME NEW E, NEW u, NEW v, NEW w
  PROVE  /\ Reaches(E, u, u)
         /\ Reaches(E, u, v) /\ Reaches(E, v, w) => Reaches(E, u, w)
         /\ SameScc(E, u, u)
         /\ SameScc(E, u, v) => SameScc(E, v, u)
         /\ SameScc(E, u, v) /\ SameScc(E, v, w) => SameScc(E, u, w)
BY DEF SameScc, Reaches

LEMMA ReachesEdge ==
  ASSUME NEW E, NEW u, NEW v, <<u, v>> \in E
  PROVE  Reaches(E, u, v)
BY DEF Reaches, IsClosed

\* A set that no edge enters has all rows from which it is reached.
LEMMA PredecessorsClosed ==
  ASSUME NEW E \in SUBSET (Rows \X Rows), NEW R \in SUBSET Rows,
         \A e \in E : e[2] \in R => e[1] \in R,
         NEW u \in Rows, NEW v \in R, Reaches(E, u, v)
  PROVE  u \in R
<1>1. SUFFICES ASSUME u \notin R PROVE FALSE
  OBVIOUS
<1>2. IsClosed(E, Rows \ R)
  BY DEF IsClosed
<1>3. v \in Rows \ R
  BY <1>1, <1>2 DEF Reaches
<1> QED  BY <1>3

-----------------------------------------------------------------------------
(* The two depth-first searches.                                           *)

DfsTypes ==
  /\ edges \in SUBSET (Rows \X Rows)
  /\ \A r \in Rows : <<r, r>> \in edges
  /\ dir \in {0, 1}
  /\ roots \in Seq(Rows)
  /\ color \in [Rows -> {"white", "gray", "black"}]
  /\ discovery \in [Rows -> Nat] /\ finish \in [Rows -> Nat]
  /\ time \in Nat /\ treeTime \in Nat /\ treeTime <= time
  /\ stack \in Seq([node : Rows, rest : SUBSET Rows])
  /\ newOrder \in Seq(Rows)
  /\ toRemove \in Seq(Rows \X Rows)

\* The frames are the gray nodes in the order of their discovery; what a frame
\* has walked is not white any more.
GrayStack ==
  /\ \A r \in Rows : color[r] = "gray" <=> \E k \in 1 .. Len(stack) : stack[k].node = r
  /\ \A k, l \in 1 .. Len(stack) :
       k < l => discovery[stack[k].node] < discovery[stack[l].node]
  /\ \A k \in 1 .. Len(stack) :
       /\ stack[k].rest \subseteq List(stack[k].node)
       /\ \A j \in List(stack[k].node) \ stack[k].rest : color[j] # "white"

\* A node that is done was done after all its successors were discovered.
Timed ==
  /\ \A r \in Rows : color[r] # "white" => discovery[r] <= time
  /\ \A r \in Rows : color[r] = "black" => discovery[r] < finish[r] /\ finish[r] <= time
  /\ \A b \in Rows : color[b] = "black" =>
       \A c \in List(b) : color[c] # "white" /\ discovery[c] < finish[b]

\* Every node that is left has a turn as a root.
Rooted == \A r \in Rows : color[r] # "white" \/ \E i \in 1 .. Len(roots) : roots[i] = r

\* Of the rows that reach a node which is done, one in the component of each is
\* done later, or not yet.
LaterFinish ==
  \A u, v \in Rows :
    color[v] = "black" /\ Reaches(edges, u, v) =>
      \E w \in Rows : SameScc(edges, u, w) /\ (color[w] # "black" \/ finish[w] >= finish[v])

Forward ==
  dir = 0 =>
    /\ toRemove = << >>
    /\ \A k \in 1 .. Len(newOrder) : color[newOrder[k]] = "black"
    /\ \A r \in Rows : color[r] = "black" => \E k \in 1 .. Len(newOrder) : newOrder[k] = r
    /\ \A j, k \in 1 .. Len(newOrder) : j < k => finish[newOrder[j]] < finish[newOrder[k]]
    /\ \A y, b \in Rows :
         /\ color[y] = "gray" /\ color[b] # "white" /\ discovery[y] <= discovery[b]
              => Reaches(edges, y, b)
         /\ color[y] = "gray" /\ color[b] = "black" /\ discovery[b] < discovery[y]
              => finish[b] < discovery[y]
    /\ LaterFinish

\* The order that the first search leaves behind.
Ordered ==
  /\ \A r \in Rows : \E k \in 1 .. Len(newOrder) : newOrder[k] = r
  /\ \A u \in Rows, j \in 1 .. Len(newOrder) :
       Reaches(edges, u, newOrder[j]) =>
         \E k \in 1 .. Len(newOrder) : j <= k /\ SameScc(edges, u, newOrder[k])

Walked(i, j) ==
  \/ color[i] = "black"
  \/ \E k \in 1 .. Len(stack) : stack[k].node = i /\ j \notin stack[k].rest

\* The nodes of earlier trees, and those of the present one.
Old == {r \in Rows : color[r] = "black" /\ finish[r] <= treeTime}
New == {r \in Rows : color[r] # "white"} \ Old

\* The edges to remove, as far as they are known.
Listed ==
  /\ \A j, i \in Rows :
       <<j, i>> \in ToSet(toRemove) <=>
         <<j, i>> \in edges /\ Walked(i, j) /\ ~SameScc(edges, j, i)
  /\ \A k, l \in 1 .. Len(toRemove) : toRemove[k] = toRemove[l] => k = l

\* The components found so far.
Found ==
  /\ \A e \in edges : e[2] \in Old => e[1] \in Old
  /\ \A a \in New, v \in Rows \ Old : Reaches(edges, v, a) => SameScc(edges, v, a)
  /\ \A a, b \in New : SameScc(edges, a, b)

Turns ==
  /\ Len(roots) <= Len(newOrder)
  /\ \A i \in 1 .. Len(roots) : roots[i] = newOrder[Len(roots) + 1 - i]
  /\ \A k \in Len(roots) + 1 .. Len(newOrder) : color[newOrder[k]] # "white"

Backwards == dir = 1 => Ordered /\ Turns /\ Found /\ Listed

DfsInv == DfsTypes /\ GrayStack /\ Timed /\ Rooted /\ Forward /\ Backwards

\* The states of the search, for one of its nodes.
LEMMA Colors ==
  ASSUME DfsTypes, NEW r \in Rows
  PROVE  /\ color[r] \in {"white", "gray", "black"}
         /\ discovery[r] \in Nat /\ finish[r] \in Nat
         /\ r \in Old <=> color[r] = "black" /\ finish[r] <= treeTime
         /\ r \in New <=> color[r] # "white" /\ r \notin Old
BY DEF DfsTypes, Old, New

LEMMA LeastRow ==
  ASSUME NEW R \in SUBSET Rows, R # {}
  PROVE  Min(R) \in R
BY LeastExists DEF Min

LEMMA TopFacts ==
  ASSUME DfsTypes, GrayStack, stack # << >>
  PROVE  /\ Len(stack) \in Nat \ {0} /\ Len(stack) \in 1 .. Len(stack)
         /\ Top.node \in Rows /\ Top.rest \in SUBSET Rows
         /\ color[Top.node] = "gray"
         /\ Top.rest \subseteq List(Top.node)
         /\ \A j \in List(Top.node) \ Top.rest : color[j] # "white"
         /\ Top.rest # {} => Current \in Top.rest /\ Current \in Rows
<1>1. Len(stack) \in Nat \ {0} /\ Len(stack) \in 1 .. Len(stack)
  BY DEF DfsTypes
<1>2. stack[Len(stack)] \in [node : Rows, rest : SUBSET Rows]
  BY <1>1, ElementOfSeq DEF DfsTypes
<1>3. Top.node \in Rows /\ Top.rest \in SUBSET Rows
  BY <1>2 DEF Top
<1>4. Top.rest # {} => Current \in Top.rest /\ Current \in Rows
  BY <1>3, LeastRow DEF Current
<1>5. color[Top.node] = "gray"
  BY <1>1, <1>3 DEF GrayStack, Top
<1>6. /\ Top.rest \subseteq List(Top.node)
      /\ \A j \in List(Top.node) \ Top.rest : color[j] # "white"
  BY <1>1 DEF GrayStack, Top
<1> QED  BY <1>1, <1>3, <1>4, <1>5, <1>6

\* A frame is of one of the nodes.
LEMMA FrameFacts ==
  ASSUME DfsTypes, NEW k \in 1 .. Len(stack)
  PROVE  stack[k].node \in Rows /\ stack[k].rest \in SUBSET Rows
<1>1. stack[k] \in [node : Rows, rest : SUBSET Rows]
  BY ElementOfSeq DEF DfsTypes
<1> QED  BY <1>1

\* No node has two frames.
LEMMA OneFrame ==
  ASSUME DfsTypes, GrayStack, NEW k \in 1 .. Len(stack), NEW l \in 1 .. Len(stack),
         stack[k].node = stack[l].node
  PROVE  k = l
<1>1. discovery[stack[k].node] \in Nat
  BY FrameFacts DEF DfsTypes
<1>2. k \in Nat /\ l \in Nat
  BY DEF DfsTypes
<1>3. k < l \/ l < k \/ k = l
  BY <1>2
<1> QED  BY <1>1, <1>3 DEF GrayStack

\* What StartTree and VisitWhite do to enter node j.
Entered(j) ==
  /\ color[j] = "white"
  /\ Enter(j)
  /\ Len(stack') = Len(stack) + 1
  /\ \A k \in 1 .. Len(stack) : stack'[k] = stack[k]
  /\ stack'[Len(stack) + 1] = [node |-> j, rest |-> List(j)]
  /\ UNCHANGED <<edges, dir, finish, newOrder, toRemove>>

LEMMA EnteredTypes ==
  ASSUME DfsTypes, NEW j \in Rows, Entered(j)
  PROVE  /\ \A r \in Rows : color'[r] = IF r = j THEN "gray" ELSE color[r]
         /\ \A r \in Rows : discovery'[r] = IF r = j THEN time + 1 ELSE discovery[r]
         /\ color' \in [Rows -> {"white", "gray", "black"}]
         /\ discovery' \in [Rows -> Nat] /\ time' = time + 1 /\ time \in Nat
         /\ \A i : List(i)' = List(i)
         /\ Len(stack) \in Nat
BY DEF DfsTypes, Entered, Enter, List

LEMMA EnteredStack ==
  ASSUME DfsTypes, GrayStack, Timed, NEW j \in Rows, Entered(j)
  PROVE  GrayStack'
<1>t. /\ \A r \in Rows : color'[r] = IF r = j THEN "gray" ELSE color[r]
      /\ \A r \in Rows : discovery'[r] = IF r = j THEN time + 1 ELSE discovery[r]
      /\ color' \in [Rows -> {"white", "gray", "black"}]
      /\ discovery' \in [Rows -> Nat] /\ time' = time + 1 /\ time \in Nat
      /\ \A i : List(i)' = List(i)
      /\ Len(stack) \in Nat
  BY EnteredTypes
<1> USE <1>t
<1>0. /\ Len(stack) \in Nat /\ Len(stack') = Len(stack) + 1
      /\ \A k \in 1 .. Len(stack) : stack'[k] = stack[k]
      /\ stack'[Len(stack) + 1].node = j /\ stack'[Len(stack) + 1].rest = List(j)
  BY DEF Entered
<1>1. \A k \in 1 .. Len(stack') : k \in 1 .. Len(stack) \/ k = Len(stack) + 1
  BY <1>0
<1>2. \A k \in 1 .. Len(stack) : k \in 1 .. Len(stack')
  BY <1>0
<1>3. Len(stack) + 1 \in 1 .. Len(stack')
  BY <1>0
<1>4. \A r \in Rows : color'[r] = "gray" <=> \E k \in 1 .. Len(stack') : stack'[k].node = r
  <2> TAKE r \in Rows
  <2>1. CASE r = j
    BY <2>1, <1>0, <1>3
  <2>2. CASE r # j
    <3>1. color'[r] = color[r]
      BY <2>2
    <3>2. (\E k \in 1 .. Len(stack') : stack'[k].node = r)
            <=> (\E k \in 1 .. Len(stack) : stack[k].node = r)
      BY <2>2, <1>0, <1>1, <1>2
    <3> QED  BY <3>1, <3>2 DEF GrayStack
  <2> QED  BY <2>1, <2>2
<1>5. \A k \in 1 .. Len(stack) : /\ stack[k].node \in Rows /\ color[stack[k].node] = "gray"
                                 /\ stack[k].node # j
                                 /\ discovery[stack[k].node] <= time
                                 /\ discovery'[stack[k].node] = discovery[stack[k].node]
                                 /\ discovery[stack[k].node] \in Nat
  <2> TAKE k \in 1 .. Len(stack)
  <2>1. stack[k].node \in Rows
    BY FrameFacts
  <2>2. color[stack[k].node] = "gray"
    BY <2>1 DEF GrayStack
  <2>3. stack[k].node # j
    BY <2>2 DEF Entered
  <2> QED  BY <2>1, <2>2, <2>3 DEF Timed, DfsTypes
<1>6. \A k, l \in 1 .. Len(stack') :
        k < l => (discovery[stack[k].node] < discovery[stack[l].node])'
  <2> SUFFICES ASSUME NEW k \in 1 .. Len(stack'), NEW l \in 1 .. Len(stack'), k < l
               PROVE  discovery'[stack'[k].node] < discovery'[stack'[l].node]
    OBVIOUS
  <2>1. k \in 1 .. Len(stack) /\ stack'[k] = stack[k]
    BY <1>0
  <2>2. CASE l \in 1 .. Len(stack)
    BY <2>1, <2>2, <1>0, <1>5 DEF GrayStack
  <2>3. CASE l = Len(stack) + 1
    <3>1. discovery'[stack'[l].node] = time + 1
      BY <2>3, <1>0
    <3>2. discovery'[stack'[k].node] <= time /\ discovery'[stack'[k].node] \in Nat
      BY <2>1, <1>5
    <3> QED  BY <3>1, <3>2 DEF DfsTypes
  <2> QED  BY <2>2, <2>3, <1>1
<1>7. \A k \in 1 .. Len(stack') :
        /\ stack'[k].rest \subseteq List(stack[k].node)'
        /\ \A i \in List(stack[k].node)' \ stack'[k].rest : color'[i] # "white"
  <2> TAKE k \in 1 .. Len(stack')
  <2>1. CASE k \in 1 .. Len(stack)
    <3>1. stack'[k] = stack[k] /\ List(stack[k].node)' = List(stack[k].node)
      BY <2>1, <1>0
    <3>2. \A i \in List(stack[k].node) \ stack[k].rest : i \in Rows /\ color[i] # "white"
      BY <2>1 DEF GrayStack, List
    <3>3. stack[k].rest \subseteq List(stack[k].node)
      BY <2>1 DEF GrayStack
    <3> QED  BY <3>1, <3>2, <3>3
  <2>2. CASE k = Len(stack) + 1
    <3>1. List(stack[k].node)' = List(j) /\ stack'[k].rest = List(j)
      BY <2>2, <1>0
    <3> QED  BY <3>1
  <2> QED  BY <2>1, <2>2, <1>1
<1> QED  BY <1>4, <1>6, <1>7 DEF GrayStack

LEMMA EnteredTimed ==
  ASSUME DfsTypes, Timed, NEW j \in Rows, Entered(j)
  PROVE  Timed'
<1>t. /\ \A r \in Rows : color'[r] = IF r = j THEN "gray" ELSE color[r]
      /\ \A r \in Rows : discovery'[r] = IF r = j THEN time + 1 ELSE discovery[r]
      /\ color' \in [Rows -> {"white", "gray", "black"}]
      /\ discovery' \in [Rows -> Nat] /\ time' = time + 1 /\ time \in Nat
      /\ \A i : List(i)' = List(i)
      /\ Len(stack) \in Nat
  BY EnteredTypes
<1> USE <1>t
<1>0. /\ color[j] = "white" /\ finish' = finish /\ \A r \in Rows : List(r) \subseteq Rows
      /\ \A r \in Rows : finish[r] \in Nat /\ discovery[r] \in Nat
  BY DEF Entered, List, DfsTypes
<1>1. \A r \in Rows : color'[r] # "white" => discovery'[r] <= time'
  BY <1>0 DEF Timed
<1>2. \A r \in Rows : color'[r] = "black" =>
        /\ discovery'[r] < finish'[r] /\ finish'[r] <= time'
        /\ \A c \in List(r)' : color'[c] # "white" /\ discovery'[c] < finish'[r]
  <2> SUFFICES ASSUME NEW r \in Rows, color'[r] = "black"
               PROVE  /\ discovery'[r] < finish'[r] /\ finish'[r] <= time'
                      /\ \A c \in List(r)' : color'[c] # "white" /\ discovery'[c] < finish'[r]
    OBVIOUS
  <2>1. r # j /\ color[r] = "black" /\ discovery'[r] = discovery[r]
    BY DEF Entered
  <2>2. discovery[r] < finish[r] /\ finish[r] <= time
    BY <2>1 DEF Timed
  <2>3. \A c \in List(r) : c \in Rows /\ color[c] # "white" /\ discovery[c] < finish[r]
    BY <2>1, <1>0 DEF Timed
  <2>4. \A c \in List(r) : c # j
    BY <2>3, <1>0
  <2> QED  BY <2>1, <2>2, <2>3, <2>4, <1>0
<1> QED  BY <1>1, <1>2 DEF Timed

LEMMA EnteredForward ==
  ASSUME DfsTypes, Timed, Forward, NEW j \in Rows, Entered(j),
         dir = 0 => \A y \in Rows : color[y] = "gray" => Reaches(edges, y, j)
  PROVE  Forward'
<1>t. /\ \A r \in Rows : color'[r] = IF r = j THEN "gray" ELSE color[r]
      /\ \A r \in Rows : discovery'[r] = IF r = j THEN time + 1 ELSE discovery[r]
      /\ time' = time + 1 /\ time \in Nat
  BY EnteredTypes
<1>0. /\ color[j] = "white" /\ finish' = finish /\ edges' = edges /\ dir' = dir
      /\ newOrder' = newOrder /\ toRemove' = toRemove
  BY DEF Entered
<1>1. SUFFICES ASSUME dir = 0
               PROVE  (/\ toRemove = << >>
                       /\ \A k \in 1 .. Len(newOrder) : color[newOrder[k]] = "black"
                       /\ \A r \in Rows : color[r] = "black" => \E k \in 1 .. Len(newOrder) : newOrder[k] = r
                       /\ \A i, k \in 1 .. Len(newOrder) : i < k => finish[newOrder[i]] < finish[newOrder[k]]
                       /\ \A y, b \in Rows :
                            /\ color[y] = "gray" /\ color[b] # "white" /\ discovery[y] <= discovery[b]
                                 => Reaches(edges, y, b)
                            /\ color[y] = "gray" /\ color[b] = "black" /\ discovery[b] < discovery[y]
                                 => finish[b] < discovery[y]
                       /\ LaterFinish)'
  BY <1>0 DEF Forward
<1>2. \A k \in 1 .. Len(newOrder) : newOrder[k] \in Rows
  BY ElementOfSeq DEF DfsTypes
<1>3. \A r \in Rows : color'[r] = "black" <=> color[r] = "black"
  BY <1>t, <1>0
<1>4. /\ toRemove' = << >>
      /\ \A k \in 1 .. Len(newOrder') : color'[newOrder'[k]] = "black"
      /\ \A r \in Rows : color'[r] = "black" => \E k \in 1 .. Len(newOrder') : newOrder'[k] = r
      /\ \A i, k \in 1 .. Len(newOrder') : i < k => finish'[newOrder'[i]] < finish'[newOrder'[k]]
  BY <1>0, <1>1, <1>2, <1>3 DEF Forward
<1>5. ASSUME NEW y \in Rows, NEW b \in Rows
      PROVE  /\ color'[y] = "gray" /\ color'[b] # "white" /\ discovery'[y] <= discovery'[b]
                  => Reaches(edges', y, b)
             /\ color'[y] = "gray" /\ color'[b] = "black" /\ discovery'[b] < discovery'[y]
                  => finish'[b] < discovery'[y]
  <2>0. discovery[y] \in Nat /\ discovery[b] \in Nat /\ finish[b] \in Nat
    BY DEF DfsTypes
  <2>1. CASE y # j /\ b # j
    BY <2>1, <1>0, <1>1, <1>t DEF Forward
  <2>2. CASE y # j /\ b = j
    BY <2>2, <1>0, <1>1, <1>t
  <2>3. CASE y = j /\ b = j
    BY <2>3, <1>0, <1>t, ReachesTrans
  <2>4. CASE y = j /\ b # j
    BY <2>4, <2>0, <1>0, <1>t DEF Timed
  <2> QED  BY <2>1, <2>2, <2>3, <2>4
<1>6. LaterFinish'
  <2> SUFFICES ASSUME NEW u \in Rows, NEW v \in Rows, color'[v] = "black", Reaches(edges, u, v)
               PROVE  \E w \in Rows : SameScc(edges, u, w) /\ (color'[w] # "black" \/ finish[w] >= finish[v])
    BY <1>0 DEF LaterFinish
  <2> QED  BY <1>1, <1>3 DEF Forward, LaterFinish
<1> QED  BY <1>4, <1>5, <1>6

LEMMA VisitWhiteEnters ==
  ASSUME DfsTypes, GrayStack, Forward, VisitWhite
  PROVE  /\ Current \in Rows /\ Entered(Current)
         /\ Current \in List(Top.node) /\ Top.node \in Rows /\ color[Top.node] = "gray"
         /\ stack' \in Seq([node : Rows, rest : SUBSET Rows])
         /\ dir = 0 => \A y \in Rows : color[y] = "gray" => Reaches(edges, y, Current)
<1>1. stack # << >> /\ Top.rest # {}
  BY DEF VisitWhite
<1>2. /\ Current \in Rows /\ Current \in List(Top.node) /\ Top.node \in Rows
      /\ color[Top.node] = "gray" /\ Len(stack) \in 1 .. Len(stack)
  BY <1>1, TopFacts
<1> DEFINE fr == [node |-> Current, rest |-> List(Current)]
<1>3. fr \in [node : Rows, rest : SUBSET Rows]
  BY <1>2 DEF List
<1>4. stack' = Append(stack, fr)
  BY DEF VisitWhite
<1>5. /\ stack' \in Seq([node : Rows, rest : SUBSET Rows])
      /\ Len(stack') = Len(stack) + 1
      /\ \A k \in 1 .. Len(stack) : stack'[k] = stack[k]
      /\ stack'[Len(stack) + 1] = fr
  <2> HIDE DEF fr
  <2> QED  BY <1>3, <1>4, AppendProperties DEF DfsTypes
<1>6. Entered(Current)
  BY <1>5 DEF VisitWhite, Entered
<1>7. ASSUME dir = 0, NEW y \in Rows, color[y] = "gray"
      PROVE  Reaches(edges, y, Current)
  <2>1. PICK k \in 1 .. Len(stack) : stack[k].node = y
    BY <1>7 DEF GrayStack
  <2>2. k = Len(stack) \/ k < Len(stack)
    BY DEF DfsTypes
  <2>3. discovery[y] <= discovery[Top.node]
    <3>1. Top.node = stack[Len(stack)].node
      BY DEF Top
    <3>2. discovery[y] \in Nat /\ discovery[Top.node] \in Nat
      BY <1>2 DEF DfsTypes
    <3>3. k < Len(stack) => discovery[y] < discovery[Top.node]
      BY <2>1, <1>2, <3>1 DEF GrayStack
    <3> QED  BY <2>1, <2>2, <3>1, <3>2, <3>3
  <2>4. Reaches(edges, y, Top.node)
    BY <1>7, <1>2, <2>3 DEF Forward
  <2>5. <<Top.node, Current>> \in edges
    BY <1>2, <1>7 DEF List
  <2> QED  BY <2>4, <2>5, ReachesEdge, ReachesTrans
<1> QED  BY <1>2, <1>5, <1>6, <1>7

LEMMA StartTreeCases ==
  ASSUME DfsTypes, GrayStack, StartTree
  PROVE  /\ stack = << >> /\ roots # << >> /\ Head(roots) \in Rows
         /\ \A r \in Rows : color[r] # "gray"
         /\ roots' = Tail(roots) /\ roots' \in Seq(Rows) /\ roots[1] = Head(roots)
         /\ Len(roots') = Len(roots) - 1
         /\ \A i \in 1 .. Len(roots') : roots'[i] = roots[i + 1]
         /\ \/ /\ Entered(Head(roots)) /\ treeTime' = time
               /\ stack' \in Seq([node : Rows, rest : SUBSET Rows])
            \/ /\ color[Head(roots)] # "white"
               /\ UNCHANGED <<treeTime, time, color, discovery, stack, edges, dir, finish,
                              newOrder, toRemove>>
<1>1. /\ stack = << >> /\ roots # << >> /\ roots' = Tail(roots)
  BY DEF StartTree
<1>2. /\ Head(roots) \in Rows /\ roots' \in Seq(Rows) /\ roots[1] = Head(roots)
      /\ Len(roots') = Len(roots) - 1
      /\ \A i \in 1 .. Len(roots') : roots'[i] = roots[i + 1]
  BY <1>1, HeadTailProperties DEF DfsTypes
<1>3. \A r \in Rows : color[r] # "gray"
  BY <1>1 DEF GrayStack
<1>4. CASE color[Head(roots)] = "white"
  <2> DEFINE fr == [node |-> Head(roots), rest |-> List(Head(roots))]
  <2>1. stack' = <<fr>> /\ Len(stack) = 0
    BY <1>4, <1>1 DEF StartTree
  <2>2. fr \in [node : Rows, rest : SUBSET Rows]
    BY <1>2 DEF List
  <2>3. /\ stack' \in Seq([node : Rows, rest : SUBSET Rows])
        /\ Len(stack') = Len(stack) + 1
        /\ \A k \in 1 .. Len(stack) : stack'[k] = stack[k]
        /\ stack'[Len(stack) + 1] = fr
    <3> HIDE DEF fr
    <3> QED  BY <2>1, <2>2
  <2>4. Entered(Head(roots)) /\ treeTime' = time
    BY <2>3, <1>4 DEF StartTree, Entered
  <2> QED  BY <2>3, <2>4, <1>1, <1>2, <1>3
<1>5. CASE color[Head(roots)] # "white"
  BY <1>5, <1>1, <1>2, <1>3 DEF StartTree
<1> QED  BY <1>4, <1>5

\* What Leave does to the node of the innermost frame.
LEMMA LeaveFacts ==
  ASSUME DfsTypes, GrayStack, Leave, NEW x, x = Top.node
  PROVE  /\ x \in Rows /\ color[x] = "gray" /\ stack # << >>
         /\ Len(stack) \in Nat \ {0} /\ Len(stack) \in 1 .. Len(stack)
         /\ stack[Len(stack)].node = x /\ stack[Len(stack)].rest = {}
         /\ \A j \in List(x) : color[j] # "white"
         /\ \A r \in Rows : color'[r] = IF r = x THEN "black" ELSE color[r]
         /\ \A r \in Rows : finish'[r] = IF r = x THEN time + 1 ELSE finish[r]
         /\ color' \in [Rows -> {"white", "gray", "black"}] /\ finish' \in [Rows -> Nat]
         /\ time' = time + 1 /\ time \in Nat
         /\ \A i : List(i)' = List(i)
         /\ Len(stack') = Len(stack) - 1
         /\ \A k \in 1 .. Len(stack') : stack'[k] = stack[k]
         /\ stack' \in Seq([node : Rows, rest : SUBSET Rows])
         /\ newOrder' = IF dir = 0 THEN Append(newOrder, x) ELSE newOrder
         /\ UNCHANGED <<edges, dir, roots, discovery, treeTime, toRemove>>
<1>1. /\ stack # << >> /\ Top.rest = {} /\ stack' = Front(stack)
      /\ color' = [color EXCEPT ![x] = "black"]
      /\ finish' = [finish EXCEPT ![x] = time + 1] /\ time' = time + 1
      /\ newOrder' = IF dir = 0 THEN Append(newOrder, x) ELSE newOrder
      /\ UNCHANGED <<edges, dir, roots, discovery, treeTime, toRemove>>
  BY DEF Leave
<1>2. /\ x \in Rows /\ color[x] = "gray"
      /\ Len(stack) \in Nat \ {0} /\ Len(stack) \in 1 .. Len(stack)
      /\ \A j \in List(x) : color[j] # "white"
  BY <1>1, TopFacts
<1>3. stack[Len(stack)].node = x /\ stack[Len(stack)].rest = {}
  BY <1>1 DEF Top
<1>4. /\ \A r \in Rows : color'[r] = IF r = x THEN "black" ELSE color[r]
      /\ \A r \in Rows : finish'[r] = IF r = x THEN time + 1 ELSE finish[r]
      /\ color' \in [Rows -> {"white", "gray", "black"}] /\ finish' \in [Rows -> Nat]
      /\ time \in Nat
  BY <1>1, <1>2 DEF DfsTypes
<1>5. /\ Len(stack') = Len(stack) - 1
      /\ \A k \in 1 .. Len(stack') : stack'[k] = stack[k]
      /\ stack' \in Seq([node : Rows, rest : SUBSET Rows])
  <2> DEFINE FrameSet == [node : Rows, rest : SUBSET Rows]
  <2>1. stack \in Seq(FrameSet)
    BY DEF DfsTypes
  <2> HIDE DEF FrameSet
  <2>2. /\ SubSeq(stack, 1, Len(stack) - 1) \in Seq(FrameSet)
        /\ Len(SubSeq(stack, 1, Len(stack) - 1)) = Len(stack) - 1
        /\ \A k \in 1 .. Len(stack) - 1 : SubSeq(stack, 1, Len(stack) - 1)[k] = stack[k]
    <3> DEFINE n == Len(stack) - 1
    <3>1. n \in Nat /\ 1 \in Int /\ n \in Int /\ \A i \in 1 .. n : i \in 1 .. Len(stack)
      BY <1>2
    <3> HIDE DEF n
    <3>2. \A i \in 1 .. n : stack[i] \in FrameSet
      BY <2>1, <3>1, ElementOfSeq
    <3>3. /\ SubSeq(stack, 1, n) \in Seq(FrameSet)
          /\ Len(SubSeq(stack, 1, n)) = IF 1 <= n THEN n - 1 + 1 ELSE 0
          /\ \A i \in 1 .. n - 1 + 1 : SubSeq(stack, 1, n)[i] = stack[1 + i - 1]
      BY <3>1, <3>2, SubSeqProperties
    <3>4. Len(SubSeq(stack, 1, n)) = n /\ \A i \in 1 .. n : SubSeq(stack, 1, n)[i] = stack[i]
      BY <3>1, <3>3
    <3> QED  BY <3>3, <3>4 DEF n
  <2> QED  BY <1>1, <2>2 DEF Front, FrameSet
<1>6. \A i : List(i)' = List(i)
  BY <1>1 DEF List
<1> QED  BY <1>1, <1>2, <1>3, <1>4, <1>5, <1>6

LEMMA LeaveStack ==
  ASSUME DfsTypes, GrayStack, Leave
  PROVE  GrayStack'
<1> DEFINE x == Top.node
<1>f. /\ x \in Rows /\ color[x] = "gray"
      /\ Len(stack) \in Nat \ {0} /\ Len(stack) \in 1 .. Len(stack)
      /\ stack[Len(stack)].node = x
      /\ \A r \in Rows : color'[r] = IF r = x THEN "black" ELSE color[r]
      /\ \A i : List(i)' = List(i)
      /\ Len(stack') = Len(stack) - 1
      /\ \A k \in 1 .. Len(stack') : stack'[k] = stack[k]
      /\ UNCHANGED discovery
  BY LeaveFacts
<1> HIDE DEF x
<1>1. \A k \in 1 .. Len(stack') : k \in 1 .. Len(stack) /\ k # Len(stack)
  BY <1>f
<1>2. \A k \in 1 .. Len(stack) : k \in 1 .. Len(stack') \/ k = Len(stack)
  BY <1>f
<1>3. \A k \in 1 .. Len(stack') : stack[k].node \in Rows /\ stack[k].node # x
  BY <1>1, <1>f, OneFrame, FrameFacts
<1>4. \A r \in Rows : color'[r] = "gray" <=> \E k \in 1 .. Len(stack') : stack'[k].node = r
  <2> TAKE r \in Rows
  <2>1. CASE r = x
    BY <2>1, <1>3, <1>f
  <2>2. CASE r # x
    <3>1. color'[r] = color[r]
      BY <2>2, <1>f
    <3>2. (\E k \in 1 .. Len(stack') : stack'[k].node = r)
            <=> (\E k \in 1 .. Len(stack) : stack[k].node = r)
      BY <2>2, <1>1, <1>2, <1>f
    <3> QED  BY <3>1, <3>2 DEF GrayStack
  <2> QED  BY <2>1, <2>2
<1>5. \A k, l \in 1 .. Len(stack') :
        k < l => (discovery[stack[k].node] < discovery[stack[l].node])'
  BY <1>1, <1>f DEF GrayStack
<1>6. \A k \in 1 .. Len(stack') :
        /\ stack'[k].rest \subseteq List(stack[k].node)'
        /\ \A i \in List(stack[k].node)' \ stack'[k].rest : color'[i] # "white"
  <2> TAKE k \in 1 .. Len(stack')
  <2>1. stack'[k] = stack[k] /\ List(stack[k].node)' = List(stack[k].node)
    BY <1>f
  <2>2. \A i \in List(stack[k].node) \ stack[k].rest : i \in Rows /\ color[i] # "white"
    BY <1>1 DEF GrayStack, List
  <2>3. stack[k].rest \subseteq List(stack[k].node)
    BY <1>1 DEF GrayStack
  <2> QED  BY <2>1, <2>2, <2>3, <1>f
<1> QED  BY <1>4, <1>5, <1>6 DEF GrayStack

LEMMA LeaveTimed ==
  ASSUME DfsTypes, GrayStack, Timed, Leave
  PROVE  Timed'
<1> DEFINE x == Top.node
<1>f. /\ x \in Rows /\ color[x] = "gray"
      /\ \A j \in List(x) : color[j] # "white"
      /\ \A r \in Rows : color'[r] = IF r = x THEN "black" ELSE color[r]
      /\ \A r \in Rows : finish'[r] = IF r = x THEN time + 1 ELSE finish[r]
      /\ time' = time + 1 /\ time \in Nat
      /\ \A i : List(i)' = List(i)
      /\ UNCHANGED discovery
  BY LeaveFacts
<1> HIDE DEF x
<1>0. /\ \A r \in Rows : finish[r] \in Nat /\ discovery[r] \in Nat
      /\ \A r : \A c \in List(r) : c \in Rows
  BY DEF DfsTypes, List
<1>1. \A r \in Rows : color'[r] # "white" => discovery'[r] <= time'
  BY <1>0, <1>f DEF Timed
<1>2. \A r \in Rows : color'[r] = "black" => discovery'[r] < finish'[r] /\ finish'[r] <= time'
  BY <1>0, <1>f DEF Timed
<1>3. \A r \in Rows : color'[r] = "black" =>
        \A c \in List(r)' : color'[c] # "white" /\ discovery'[c] < finish'[r]
  <2> SUFFICES ASSUME NEW r \in Rows, color'[r] = "black", NEW c \in List(r)
               PROVE  color'[c] # "white" /\ discovery'[c] < finish'[r]
    BY <1>f
  <2>1. c \in Rows
    BY <1>0
  <2>2. color[c] # "white" /\ discovery[c] <= time
    BY <2>1, <1>f DEF Timed
  <2> QED  BY <2>1, <2>2, <1>0, <1>f DEF Timed
<1> QED  BY <1>1, <1>2, <1>3 DEF Timed

\* When x is done last, a row that reaches it has the row of its component to
\* show that is found first among the gray ones.
LEMMA GrayRepresentative ==
  ASSUME DfsTypes, Timed, Forward, dir = 0,
         NEW x \in Rows, color[x] = "gray", NEW u \in Rows, Reaches(edges, u, x)
  PROVE  \E y \in Rows : color[y] # "black" /\ SameScc(edges, u, y)
<1>1. CASE color[u] # "black"
  BY <1>1, ReachesTrans
<1>2. CASE color[u] = "black"
  <2> DEFINE D == {d \in Nat : \E y \in Rows : color[y] = "gray" /\ Reaches(edges, u, y) /\ d = discovery[y]}
  <2>1. discovery[x] \in D
    BY DEF DfsTypes
  <2>2. PICK d \in D : \A e \in D : ~(<<e, d>> \in OpToRel(<, Nat))
    <3>1. D \subseteq Nat /\ D # {}
      BY <2>1
    <3>2. IsWellFoundedOn(OpToRel(<, Nat), Nat)
      BY NatLessThanWellFounded
    <3> HIDE DEF D
    <3> QED  BY <3>1, <3>2, WFMin
  <2>3. \A e \in D : ~(e < d)
    BY <2>2 DEF OpToRel
  <2>4. PICK y \in Rows : color[y] = "gray" /\ Reaches(edges, u, y) /\ d = discovery[y]
    OBVIOUS
  <2>5. \A c \in Rows : color[c] = "gray" /\ Reaches(edges, u, c) => ~(discovery[c] < discovery[y])
    BY <2>3, <2>4 DEF DfsTypes
  <2> HIDE DEF D
  <2> DEFINE W == {c \in Rows : color[c] = "black" /\ Reaches(edges, u, c) /\ finish[c] < discovery[y]}
  <2>6. IsClosed(edges, W)
    <3> SUFFICES ASSUME NEW e \in edges, e[1] \in W PROVE e[2] \in W
      BY DEF IsClosed
    <3>1. e[1] \in Rows /\ e[2] \in Rows /\ e = <<e[1], e[2]>>
      BY DEF DfsTypes
    <3>2. e[2] \in List(e[1])
      BY <3>1 DEF List
    <3>3. /\ color[e[2]] # "white" /\ discovery[e[2]] < finish[e[1]]
          /\ finish[e[1]] < discovery[y]
      BY <3>1, <3>2 DEF Timed
    <3>4. Reaches(edges, u, e[2])
      BY <3>1, ReachesEdge, ReachesTrans
    <3>5. discovery[e[2]] \in Nat /\ finish[e[1]] \in Nat /\ discovery[y] \in Nat
      BY <3>1 DEF DfsTypes
    <3>6. discovery[e[2]] < discovery[y]
      BY <3>3, <3>5
    <3>7. color[e[2]] = "black"
      BY <3>1, <3>3, <3>4, <3>6, <2>5, Colors
    <3>8. finish[e[2]] < discovery[y]
      BY <3>1, <3>6, <3>7, <2>4 DEF Forward
    <3> QED  BY <3>1, <3>4, <3>7, <3>8
  <2>7. u \notin W
    <3>1. x \notin W /\ W \in SUBSET Rows
      OBVIOUS
    <3> HIDE DEF W
    <3> QED  BY <3>1, <2>6 DEF Reaches
  <2>8. ~(finish[u] < discovery[y])
    BY <2>7, <1>2, ReachesTrans
  <2>9. ~(discovery[u] < discovery[y])
    BY <2>8, <2>4, <1>2 DEF Forward
  <2>10. discovery[y] <= discovery[u]
    BY <2>9 DEF DfsTypes
  <2>11. Reaches(edges, y, u)
    BY <2>10, <2>4, <1>2 DEF Forward
  <2> QED  BY <2>4, <2>11 DEF SameScc
<1> QED  BY <1>1, <1>2

LEMMA LeaveLaterFinish ==
  ASSUME DfsTypes, GrayStack, Timed, Forward, Leave, dir = 0
  PROVE  LaterFinish'
<1> DEFINE x == Top.node
<1>f. /\ x \in Rows /\ color[x] = "gray"
      /\ \A r \in Rows : color'[r] = IF r = x THEN "black" ELSE color[r]
      /\ \A r \in Rows : finish'[r] = IF r = x THEN time + 1 ELSE finish[r]
      /\ time \in Nat /\ edges' = edges
  BY LeaveFacts
<1> HIDE DEF x
<1>0. \A r \in Rows : finish[r] \in Nat /\ (color[r] = "black" => finish[r] <= time)
  BY DEF DfsTypes, Timed
<1> SUFFICES ASSUME NEW u \in Rows, NEW v \in Rows, color'[v] = "black", Reaches(edges, u, v)
             PROVE  \E w \in Rows : SameScc(edges, u, w) /\ (color'[w] # "black" \/ finish'[w] >= finish'[v])
  BY <1>f DEF LaterFinish
<1>1. CASE v = x
  <2>1. PICK y \in Rows : color[y] # "black" /\ SameScc(edges, u, y)
    BY <1>1, <1>f, GrayRepresentative
  <2>2. color'[y] # "black" \/ finish'[y] >= finish'[v]
    BY <2>1, <1>1, <1>f
  <2> QED  BY <2>1, <2>2
<1>2. CASE v # x
  <2>1. color[v] = "black" /\ finish'[v] = finish[v]
    BY <1>2, <1>f
  <2>2. PICK w \in Rows : SameScc(edges, u, w) /\ (color[w] # "black" \/ finish[w] >= finish[v])
    BY <2>1 DEF Forward, LaterFinish
  <2>3. color'[w] # "black" \/ finish'[w] >= finish'[v]
    BY <2>1, <2>2, <1>0, <1>f
  <2> QED  BY <2>2, <2>3
<1> QED  BY <1>1, <1>2

LEMMA LeaveForward ==
  ASSUME DfsTypes, GrayStack, Timed, Forward, Leave
  PROVE  Forward'
<1> DEFINE x == Top.node
<1>f. /\ x \in Rows /\ color[x] = "gray"
      /\ Len(stack) \in 1 .. Len(stack) /\ stack[Len(stack)].node = x
      /\ \A r \in Rows : color'[r] = IF r = x THEN "black" ELSE color[r]
      /\ \A r \in Rows : finish'[r] = IF r = x THEN time + 1 ELSE finish[r]
      /\ time \in Nat
      /\ newOrder' = IF dir = 0 THEN Append(newOrder, x) ELSE newOrder
      /\ UNCHANGED <<edges, dir, discovery, toRemove>>
  BY LeaveFacts
<1> HIDE DEF x
<1> SUFFICES ASSUME dir = 0
             PROVE  (/\ toRemove = << >>
                     /\ \A k \in 1 .. Len(newOrder) : color[newOrder[k]] = "black"
                     /\ \A r \in Rows : color[r] = "black" => \E k \in 1 .. Len(newOrder) : newOrder[k] = r
                     /\ \A i, k \in 1 .. Len(newOrder) : i < k => finish[newOrder[i]] < finish[newOrder[k]]
                     /\ \A y, b \in Rows :
                          /\ color[y] = "gray" /\ color[b] # "white" /\ discovery[y] <= discovery[b]
                               => Reaches(edges, y, b)
                          /\ color[y] = "gray" /\ color[b] = "black" /\ discovery[b] < discovery[y]
                               => finish[b] < discovery[y]
                     /\ LaterFinish)'
  BY <1>f DEF Forward
<1>0. \A r \in Rows : /\ finish[r] \in Nat /\ discovery[r] \in Nat
                      /\ color[r] = "black" => finish[r] <= time
  BY DEF DfsTypes, Timed
<1>1. /\ Len(newOrder) \in Nat /\ Len(newOrder') = Len(newOrder) + 1
      /\ \A k \in 1 .. Len(newOrder) : newOrder'[k] = newOrder[k] /\ newOrder[k] \in Rows
      /\ newOrder'[Len(newOrder) + 1] = x
  BY <1>f, AppendProperties, ElementOfSeq DEF DfsTypes
<1>2. \A k \in 1 .. Len(newOrder') : k \in 1 .. Len(newOrder) \/ k = Len(newOrder) + 1
  BY <1>1
<1>3. \A k \in 1 .. Len(newOrder) : k \in 1 .. Len(newOrder') /\ color[newOrder[k]] = "black"
  BY <1>1 DEF Forward
<1>4. \A k \in 1 .. Len(newOrder') : color'[newOrder'[k]] = "black"
  BY <1>1, <1>2, <1>3, <1>f
<1>5. \A r \in Rows : color'[r] = "black" => \E k \in 1 .. Len(newOrder') : newOrder'[k] = r
  <2> SUFFICES ASSUME NEW r \in Rows, color'[r] = "black"
               PROVE  \E k \in 1 .. Len(newOrder') : newOrder'[k] = r
    OBVIOUS
  <2>1. CASE r = x
    <3>1. Len(newOrder) + 1 \in 1 .. Len(newOrder')
      BY <1>1
    <3> QED  BY <2>1, <3>1, <1>1
  <2>2. CASE r # x
    <3>1. PICK k \in 1 .. Len(newOrder) : newOrder[k] = r
      BY <2>2, <1>f DEF Forward
    <3> QED  BY <3>1, <1>1, <1>3
  <2> QED  BY <2>1, <2>2
<1>6. \A i, k \in 1 .. Len(newOrder') : i < k => finish'[newOrder'[i]] < finish'[newOrder'[k]]
  <2> SUFFICES ASSUME NEW i \in 1 .. Len(newOrder'), NEW k \in 1 .. Len(newOrder'), i < k
               PROVE  finish'[newOrder'[i]] < finish'[newOrder'[k]]
    OBVIOUS
  <2>1. i \in 1 .. Len(newOrder)
    BY <1>1
  <2>2. newOrder'[i] = newOrder[i] /\ newOrder[i] \in Rows /\ color[newOrder[i]] = "black"
    BY <2>1, <1>1, <1>3
  <2>3. finish'[newOrder'[i]] = finish[newOrder[i]]
    BY <2>2, <1>f
  <2>4. CASE k \in 1 .. Len(newOrder)
    <3>1. newOrder'[k] = newOrder[k] /\ newOrder[k] \in Rows /\ color[newOrder[k]] = "black"
      BY <2>4, <1>1, <1>3
    <3>2. finish'[newOrder'[k]] = finish[newOrder[k]]
      BY <3>1, <1>f
    <3> QED  BY <2>1, <2>3, <2>4, <3>2 DEF Forward
  <2>5. CASE k = Len(newOrder) + 1
    <3>1. finish'[newOrder'[k]] = time + 1
      BY <2>5, <1>1, <1>f
    <3> QED  BY <3>1, <2>2, <2>3, <1>0, <1>f
  <2> QED  BY <2>4, <2>5, <1>2
<1>7. ASSUME NEW y \in Rows, NEW b \in Rows, color'[y] = "gray"
      PROVE  /\ color'[b] # "white" /\ discovery[y] <= discovery[b] => Reaches(edges, y, b)
             /\ color'[b] = "black" /\ discovery[b] < discovery[y] => finish'[b] < discovery[y]
  <2>1. y # x /\ color[y] = "gray"
    BY <1>7, <1>f
  <2>2. color'[b] # "white" <=> color[b] # "white"
    BY <1>f
  <2>3. CASE b # x
    BY <2>1, <2>2, <2>3, <1>f DEF Forward
  <2>4. CASE b = x
    <3>1. PICK k \in 1 .. Len(stack) : stack[k].node = y
      BY <2>1 DEF GrayStack
    <3>2. k < Len(stack)
      BY <3>1, <2>1, <1>f DEF DfsTypes
    <3>3. discovery[y] < discovery[x]
      BY <3>1, <3>2, <1>f DEF GrayStack
    <3> QED  BY <2>1, <2>2, <2>4, <3>3, <1>0 DEF Forward
  <2> QED  BY <2>3, <2>4
<1>8. LaterFinish'
  BY LeaveLaterFinish
<1>9. toRemove' = << >>
  BY <1>f DEF Forward
<1> QED  BY <1>4, <1>5, <1>6, <1>7, <1>8, <1>9, <1>f

LEMMA NextEdgeFacts ==
  ASSUME DfsTypes, GrayStack, NextEdge, NEW i, i = Top.node, NEW j, j = Current
  PROVE  /\ i \in Rows /\ color[i] = "gray" /\ j \in Rows /\ j \in List(i)
         /\ color[j] # "white"
         /\ Len(stack) \in Nat /\ Len(stack) \in 1 .. Len(stack)
         /\ stack[Len(stack)].node = i /\ j \in stack[Len(stack)].rest
         /\ Len(stack') = Len(stack)
         /\ \A k \in 1 .. Len(stack) :
              /\ stack'[k].node = stack[k].node
              /\ stack'[k].rest = IF k = Len(stack) THEN stack[k].rest \ {j} ELSE stack[k].rest
         /\ stack' \in Seq([node : Rows, rest : SUBSET Rows])
         /\ CollectEdge(i, j)
         /\ UNCHANGED <<edges, dir, roots, color, discovery, finish, time, treeTime, newOrder>>
<1>1. /\ stack # << >> /\ Top.rest # {} /\ color[j] # "white" /\ CollectEdge(i, j)
      /\ stack' = [stack EXCEPT ![Len(stack)].rest = @ \ {j}]
      /\ UNCHANGED <<edges, dir, roots, color, discovery, finish, time, treeTime, newOrder>>
  BY DEF NextEdge
<1>2. /\ i \in Rows /\ color[i] = "gray" /\ j \in Rows /\ j \in List(i) /\ j \in Top.rest
      /\ Len(stack) \in Nat /\ Len(stack) \in 1 .. Len(stack)
  BY <1>1, TopFacts
<1>3. stack[Len(stack)].node = i /\ j \in stack[Len(stack)].rest
  BY <1>2 DEF Top
<1> DEFINE top == [node |-> i, rest |-> stack[Len(stack)].rest \ {j}]
<1>4. top \in [node : Rows, rest : SUBSET Rows]
  BY <1>2, FrameFacts
<1>5. stack[Len(stack)] \in [node : Rows, rest : SUBSET Rows]
  BY <1>2, ElementOfSeq DEF DfsTypes
<1>6. stack' = [stack EXCEPT ![Len(stack)] = top]
  <2>1. [stack[Len(stack)] EXCEPT !.rest = @ \ {j}] = top
    BY <1>3, <1>5
  <2> HIDE DEF top
  <2> QED  BY <1>1, <2>1
<1>7. /\ stack' \in Seq([node : Rows, rest : SUBSET Rows]) /\ Len(stack') = Len(stack)
      /\ \A k \in 1 .. Len(stack) : stack'[k] = IF k = Len(stack) THEN top ELSE stack[k]
  <2> DEFINE FrameSet == [node : Rows, rest : SUBSET Rows]
  <2>1. stack \in Seq(FrameSet) /\ top \in FrameSet
    BY <1>4 DEF DfsTypes
  <2> HIDE DEF FrameSet, top
  <2>2. stack' \in Seq(FrameSet) /\ Len(stack') = Len(stack)
    BY <1>2, <1>6, <2>1, ExceptSeq
  <2>3. \A k \in 1 .. Len(stack) : stack'[k] = IF k = Len(stack) THEN top ELSE stack[k]
    BY <1>2, <1>6, <2>1
  <2> QED  BY <2>2, <2>3 DEF FrameSet
<1>8. \A k \in 1 .. Len(stack) :
        /\ stack'[k].node = stack[k].node
        /\ stack'[k].rest = IF k = Len(stack) THEN stack[k].rest \ {j} ELSE stack[k].rest
  <2> TAKE k \in 1 .. Len(stack)
  <2>1. CASE k = Len(stack)
    <3>1. stack'[k] = top /\ k \in 1 .. Len(stack)
      BY <2>1, <1>2, <1>7
    <3>2. top.node = i /\ top.rest = stack[Len(stack)].rest \ {j}
      OBVIOUS
    <3> HIDE DEF top
    <3> QED  BY <2>1, <3>1, <3>2, <1>3
  <2>2. CASE k # Len(stack)
    <3>1. stack'[k] = stack[k]
      BY <2>2, <1>7
    <3> QED  BY <2>2, <3>1
  <2> QED  BY <2>1, <2>2
<1> QED  BY <1>1, <1>2, <1>3, <1>7, <1>8

LEMMA NextEdgeStack ==
  ASSUME DfsTypes, GrayStack, NextEdge
  PROVE  GrayStack'
<1> DEFINE i == Top.node
           j == Current
<1>f. /\ i \in Rows /\ color[i] = "gray" /\ j \in Rows /\ j \in List(i)
      /\ color[j] # "white"
      /\ Len(stack) \in Nat /\ Len(stack) \in 1 .. Len(stack)
      /\ stack[Len(stack)].node = i
      /\ Len(stack') = Len(stack)
      /\ \A k \in 1 .. Len(stack) :
           /\ stack'[k].node = stack[k].node
           /\ stack'[k].rest = IF k = Len(stack) THEN stack[k].rest \ {j} ELSE stack[k].rest
      /\ UNCHANGED <<edges, dir, color, discovery>>
  BY NextEdgeFacts
<1> HIDE DEF i, j
<1>1. \A a : List(a)' = List(a)
  BY <1>f DEF List
<1>2. \A r \in Rows : color'[r] = "gray" <=> \E k \in 1 .. Len(stack') : stack'[k].node = r
  <2> TAKE r \in Rows
  <2>1. (\E k \in 1 .. Len(stack') : stack'[k].node = r)
          <=> (\E k \in 1 .. Len(stack) : stack[k].node = r)
    BY <1>f
  <2>2. color[r] = "gray" <=> \E k \in 1 .. Len(stack) : stack[k].node = r
    BY DEF GrayStack
  <2> QED  BY <2>1, <2>2, <1>f
<1>3. \A k, l \in 1 .. Len(stack') :
        k < l => (discovery[stack[k].node] < discovery[stack[l].node])'
  BY <1>f DEF GrayStack
<1>4. \A k \in 1 .. Len(stack') :
        /\ stack'[k].rest \subseteq List(stack[k].node)'
        /\ \A a \in List(stack[k].node)' \ stack'[k].rest : color'[a] # "white"
  <2> TAKE k \in 1 .. Len(stack')
  <2>1. List(stack[k].node)' = List(stack[k].node)
    BY <1>1, <1>f
  <2>2. k \in 1 .. Len(stack)
    BY <1>f
  <2>3. /\ stack[k].rest \subseteq List(stack[k].node)
        /\ \A a \in List(stack[k].node) \ stack[k].rest : color[a] # "white"
    BY <2>2 DEF GrayStack
  <2>4. /\ stack'[k].rest \subseteq stack[k].rest
        /\ \A a \in stack[k].rest \ stack'[k].rest : a = j
    BY <2>2, <1>f
  <2> QED  BY <2>1, <2>3, <2>4, <1>f
<1> QED  BY <1>2, <1>3, <1>4 DEF GrayStack

LEMMA NextEdgeForward ==
  ASSUME DfsTypes, GrayStack, Forward, NextEdge
  PROVE  Forward'
<1>1. UNCHANGED <<edges, dir, color, discovery, finish, newOrder>> /\ CollectEdge(Top.node, Current)
  BY DEF NextEdge
<1>2. dir = 0 => UNCHANGED toRemove
  BY <1>1 DEF CollectEdge
<1>3. LaterFinish' <=> LaterFinish
  BY <1>1 DEF LaterFinish
<1> QED  BY <1>1, <1>2, <1>3 DEF Forward

-----------------------------------------------------------------------------
(* The second search.                                                      *)

LEMMA BackwardOrdered ==
  ASSUME DfsTypes, GrayStack, Rooted, Forward, Backward
  PROVE  /\ Ordered /\ \A r \in Rows : \E k \in 1 .. Len(newOrder) : newOrder[k] = r
<1>1. dir = 0 /\ stack = << >> /\ roots = << >>
  BY DEF Backward
<1>2. \A r \in Rows : color[r] = "black"
  <2> TAKE r \in Rows
  <2>1. color[r] # "gray"
    BY <1>1 DEF GrayStack
  <2>2. color[r] # "white"
    BY <1>1 DEF Rooted
  <2> QED  BY <2>1, <2>2, Colors
<1>3. \A r \in Rows : \E k \in 1 .. Len(newOrder) : newOrder[k] = r
  BY <1>1, <1>2 DEF Forward
<1>4. \A k \in 1 .. Len(newOrder) : newOrder[k] \in Rows /\ k \in Nat
  BY ElementOfSeq DEF DfsTypes
<1>5. ASSUME NEW u \in Rows, NEW j \in 1 .. Len(newOrder), Reaches(edges, u, newOrder[j])
      PROVE  \E k \in 1 .. Len(newOrder) : j <= k /\ SameScc(edges, u, newOrder[k])
  <2>1. PICK w \in Rows : SameScc(edges, u, w) /\ finish[w] >= finish[newOrder[j]]
    BY <1>1, <1>2, <1>4, <1>5 DEF Forward, LaterFinish
  <2>2. PICK k \in 1 .. Len(newOrder) : newOrder[k] = w
    BY <1>3
  <2>3. finish[newOrder[k]] \in Nat /\ finish[newOrder[j]] \in Nat
    BY <1>4 DEF DfsTypes
  <2>4. ~(k < j)
    BY <2>1, <2>2, <2>3, <1>1 DEF Forward
  <2> QED  BY <2>1, <2>2, <2>4, <1>4
<1> QED  BY <1>3, <1>5 DEF Ordered

LEMMA BackwardBackwards ==
  ASSUME DfsTypes, GrayStack, Rooted, Forward, Backward
  PROVE  Backwards'
<1>1. /\ dir = 0 /\ stack = << >> /\ roots' = Reverse(newOrder) /\ color' = AllWhite
      /\ UNCHANGED <<edges, stack, newOrder, toRemove>> /\ toRemove = << >>
  BY DEF Backward, Forward
<1>2. /\ Len(roots') = Len(newOrder) /\ Len(newOrder) \in Nat
      /\ \A i \in 1 .. Len(roots') : roots'[i] = newOrder'[Len(roots') + 1 - i]
  <2>1. Len(newOrder) \in Nat
    BY DEF DfsTypes
  <2>2. roots' = [i \in 1 .. Len(newOrder) |-> newOrder[(Len(newOrder) - i) + 1]]
    BY <1>1 DEF Reverse
  <2>3. Len(roots') = Len(newOrder)
    BY <2>1, <2>2
  <2>4. ASSUME NEW i \in 1 .. Len(newOrder)
        PROVE  roots'[i] = newOrder[Len(newOrder) + 1 - i]
    <3>1. (Len(newOrder) - i) + 1 = Len(newOrder) + 1 - i
      BY <2>1
    <3> QED  BY <2>2, <3>1
  <2> QED  BY <2>1, <2>3, <2>4, <1>1
<1>3. Old' = {} /\ New' = {}
  BY <1>1 DEF Old, New, AllWhite
<1>4. Ordered'
  BY <1>1, BackwardOrdered DEF Ordered
<1>5. ToSet(toRemove)' = {} /\ Len(toRemove') = 0
  BY <1>1 DEF ToSet
<1>6. \A a, b \in Rows : ~Walked(a, b)'
  BY <1>1 DEF Walked, AllWhite
<1>7. \A k \in Len(roots') + 1 .. Len(newOrder') : FALSE
  BY <1>1, <1>2
<1>8. \A k \in 1 .. Len(toRemove') : FALSE
  BY <1>5
<1>9. Turns'
  BY <1>1, <1>2, <1>7 DEF Turns
<1>10. Found'
  BY <1>1, <1>3 DEF Found
<1>11. Listed'
  BY <1>5, <1>6, <1>8 DEF Listed
<1> QED  BY <1>4, <1>9, <1>10, <1>11 DEF Backwards

\* A node that is entered has not walked any edge yet.
LEMMA EnteredWalked ==
  ASSUME DfsTypes, GrayStack, NEW j \in Rows, Entered(j), dir = 1,
         NEW a \in Rows, NEW b \in Rows, <<b, a>> \in edges
  PROVE  Walked(a, b)' <=> Walked(a, b)
<1>t. /\ \A r \in Rows : color'[r] = IF r = j THEN "gray" ELSE color[r]
      /\ Len(stack) \in Nat
  BY EnteredTypes
<1>0. /\ Len(stack') = Len(stack) + 1 /\ color[j] = "white"
      /\ \A k \in 1 .. Len(stack) : stack'[k] = stack[k]
      /\ stack'[Len(stack) + 1].node = j /\ stack'[Len(stack) + 1].rest = List(j)
  BY DEF Entered
<1>1. \A k \in 1 .. Len(stack') : k \in 1 .. Len(stack) \/ k = Len(stack) + 1
  BY <1>t, <1>0
<1>2. \A k \in 1 .. Len(stack) : k \in 1 .. Len(stack') /\ stack[k].node # j
  BY <1>t, <1>0 DEF GrayStack
<1>3. CASE a = j
  <2>1. b \in List(j)
    BY <1>3 DEF List
  <2>2. ~(\E k \in 1 .. Len(stack') : stack'[k].node = a /\ b \notin stack'[k].rest)
    BY <2>1, <1>3, <1>0, <1>1, <1>2
  <2>3. ~(\E k \in 1 .. Len(stack) : stack[k].node = a /\ b \notin stack[k].rest)
    BY <1>2, <1>3
  <2>4. color'[a] # "black" /\ color[a] # "black"
    BY <1>3, <1>t, <1>0
  <2> QED  BY <2>2, <2>3, <2>4 DEF Walked
<1>4. CASE a # j
  <2>1. (\E k \in 1 .. Len(stack') : stack'[k].node = a /\ b \notin stack'[k].rest)
          <=> (\E k \in 1 .. Len(stack) : stack[k].node = a /\ b \notin stack[k].rest)
    BY <1>4, <1>0, <1>1, <1>2
  <2>2. color'[a] = color[a]
    BY <1>4, <1>t
  <2> QED  BY <2>1, <2>2 DEF Walked
<1> QED  BY <1>3, <1>4

LEMMA WalkedKept ==
  ASSUME Listed, UNCHANGED <<edges, toRemove>>,
         \A a, b \in Rows : <<b, a>> \in edges => (Walked(a, b)' <=> Walked(a, b))
  PROVE  Listed'
BY DEF Listed

LEMMA OldClosed ==
  ASSUME DfsTypes, Found, NEW u \in Rows, NEW v \in Old, Reaches(edges, u, v)
  PROVE  u \in Old
BY PredecessorsClosed DEF Found, DfsTypes, Old

LEMMA OrderedKept ==
  ASSUME Ordered, UNCHANGED <<edges, newOrder>>
  PROVE  Ordered'
BY DEF Ordered

LEMMA VisitWhiteBackwards ==
  ASSUME DfsTypes, GrayStack, Timed, Forward, Backwards, VisitWhite
  PROVE  Backwards'
<1> DEFINE j == Current
           t == Top.node
<1>0. /\ j \in Rows /\ Entered(j) /\ j \in List(t) /\ t \in Rows /\ color[t] = "gray"
  BY VisitWhiteEnters
<1>u. UNCHANGED <<edges, dir, roots, finish, treeTime, newOrder, toRemove>>
  BY DEF VisitWhite
<1> HIDE DEF j, t
<1>t. /\ \A r \in Rows : color'[r] = IF r = j THEN "gray" ELSE color[r]
      /\ Len(stack) \in Nat
  BY <1>0, EnteredTypes
<1>1. SUFFICES ASSUME dir = 1 PROVE (Ordered /\ Turns /\ Found /\ Listed)'
  BY <1>u DEF Backwards
<1>2. Ordered /\ Turns /\ Found /\ Listed
  BY <1>1 DEF Backwards
<1>3. color[j] = "white"
  BY <1>0 DEF Entered
<1>4. Old' = Old
  BY <1>t, <1>u, <1>3 DEF Old
<1>5. New' = New \cup {j} /\ t \in New /\ j \notin Old
  BY <1>t, <1>u, <1>0, <1>3, <1>4 DEF New, Old
<1>6. <<j, t>> \in edges
  BY <1>0, <1>1 DEF List
<1>7. SameScc(edges, j, t) /\ Reaches(edges, j, t)
  BY <1>0, <1>2, <1>5, <1>6, ReachesEdge DEF Found
<1>8. Found'
  <2>1. ASSUME NEW a \in New', NEW v \in Rows \ Old, Reaches(edges, v, a)
        PROVE  SameScc(edges, v, a)
    <3>1. CASE a \in New
      BY <2>1, <3>1, <1>2 DEF Found
    <3>2. CASE a = j
      <4>1. Reaches(edges, v, t)
        BY <2>1, <3>2, <1>7, ReachesTrans
      <4>2. SameScc(edges, v, t)
        BY <4>1, <1>2, <1>5 DEF Found
      <4> QED  BY <4>2, <3>2, <1>7, ReachesTrans
    <3> QED  BY <3>1, <3>2, <1>5
  <2>2. ASSUME NEW a \in New', NEW b \in New'
        PROVE  SameScc(edges, a, b)
    <3>1. SameScc(edges, a, t) /\ SameScc(edges, t, b)
      BY <1>2, <1>5, <1>7, ReachesTrans DEF Found
    <3> QED  BY <3>1, ReachesTrans
  <2> QED  BY <2>1, <2>2, <1>2, <1>4, <1>u DEF Found
<1>9. Listed'
  <2>1. \A a, b \in Rows : <<b, a>> \in edges => (Walked(a, b)' <=> Walked(a, b))
    BY <1>0, <1>1, EnteredWalked
  <2> QED  BY <2>1, <1>2, <1>u, WalkedKept
<1>10. Turns'
  <2>1. \A k \in 1 .. Len(newOrder) : newOrder[k] \in Rows
    BY ElementOfSeq DEF DfsTypes
  <2>2. \A k \in Len(roots) + 1 .. Len(newOrder) : k \in 1 .. Len(newOrder)
    BY DEF DfsTypes
  <2> QED  BY <2>1, <2>2, <1>2, <1>t, <1>u DEF Turns
<1> QED  BY <1>2, <1>8, <1>9, <1>10, <1>u, OrderedKept

LEMMA LeaveBackwards ==
  ASSUME DfsTypes, GrayStack, Timed, Backwards, Leave
  PROVE  Backwards'
<1> DEFINE x == Top.node
<1>f. /\ x \in Rows /\ color[x] = "gray"
      /\ Len(stack) \in Nat \ {0} /\ Len(stack) \in 1 .. Len(stack)
      /\ stack[Len(stack)].node = x /\ stack[Len(stack)].rest = {}
      /\ \A r \in Rows : color'[r] = IF r = x THEN "black" ELSE color[r]
      /\ \A r \in Rows : finish'[r] = IF r = x THEN time + 1 ELSE finish[r]
      /\ time \in Nat
      /\ Len(stack') = Len(stack) - 1
      /\ \A k \in 1 .. Len(stack') : stack'[k] = stack[k]
      /\ newOrder' = IF dir = 0 THEN Append(newOrder, x) ELSE newOrder
      /\ UNCHANGED <<edges, dir, roots, discovery, treeTime, toRemove>>
  BY LeaveFacts
<1> HIDE DEF x
<1>1. SUFFICES ASSUME dir = 1 PROVE (Ordered /\ Turns /\ Found /\ Listed)'
  BY <1>f DEF Backwards
<1>2. Ordered /\ Turns /\ Found /\ Listed
  BY <1>1 DEF Backwards
<1>3. Old' = Old
  <2>1. treeTime \in Nat /\ treeTime <= time /\ time + 1 > treeTime
    BY <1>f DEF DfsTypes
  <2> QED  BY <2>1, <1>f DEF Old
<1>4. New' = New
  BY <1>3, <1>f DEF New
<1>5. Found'
  BY <1>2, <1>3, <1>4, <1>f DEF Found
<1>6. ASSUME NEW a \in Rows, NEW b \in Rows
      PROVE  Walked(a, b)' <=> Walked(a, b)
  <2>1. CASE a = x
    BY <2>1, <1>f DEF Walked
  <2>2. CASE a # x
    <3>1. \A k \in 1 .. Len(stack) : k \in 1 .. Len(stack') \/ k = Len(stack)
      BY <1>f
    <3>2. \A k \in 1 .. Len(stack') : k \in 1 .. Len(stack)
      BY <1>f
    <3>3. (\E k \in 1 .. Len(stack') : stack'[k].node = a /\ b \notin stack'[k].rest)
            <=> (\E k \in 1 .. Len(stack) : stack[k].node = a /\ b \notin stack[k].rest)
      BY <2>2, <3>1, <3>2, <1>f
    <3>4. color'[a] = color[a]
      BY <2>2, <1>f
    <3> QED  BY <3>3, <3>4 DEF Walked
  <2> QED  BY <2>1, <2>2
<1>7. Listed'
  BY <1>2, <1>6, <1>f, WalkedKept
<1>8. newOrder' = newOrder
  BY <1>1, <1>f
<1>9. Turns'
  <2>1. \A k \in 1 .. Len(newOrder) : newOrder[k] \in Rows
    BY ElementOfSeq DEF DfsTypes
  <2>2. \A k \in Len(roots) + 1 .. Len(newOrder) : k \in 1 .. Len(newOrder)
    BY DEF DfsTypes
  <2> QED  BY <2>1, <2>2, <1>2, <1>8, <1>f DEF Turns
<1> QED  BY <1>2, <1>5, <1>7, <1>8, <1>9, <1>f, OrderedKept

LEMMA NextEdgeBackwards ==
  ASSUME DfsTypes, GrayStack, Timed, Backwards, NextEdge
  PROVE  Backwards'
<1> DEFINE i == Top.node
           j == Current
<1>f. /\ i \in Rows /\ color[i] = "gray" /\ j \in Rows /\ j \in List(i)
      /\ color[j] # "white"
      /\ Len(stack) \in Nat /\ Len(stack) \in 1 .. Len(stack)
      /\ stack[Len(stack)].node = i /\ j \in stack[Len(stack)].rest
      /\ Len(stack') = Len(stack)
      /\ \A k \in 1 .. Len(stack) :
           /\ stack'[k].node = stack[k].node
           /\ stack'[k].rest = IF k = Len(stack) THEN stack[k].rest \ {j} ELSE stack[k].rest
      /\ CollectEdge(i, j)
      /\ UNCHANGED <<edges, dir, roots, color, discovery, finish, time, treeTime, newOrder>>
  BY NextEdgeFacts
<1> HIDE DEF i, j
<1>1. SUFFICES ASSUME dir = 1 PROVE (Ordered /\ Turns /\ Found /\ Listed)'
  BY <1>f DEF Backwards
<1>2. Ordered /\ Turns /\ Found /\ Listed
  BY <1>1 DEF Backwards
<1>3. Ordered' /\ Turns'
  BY <1>2, <1>f, OrderedKept DEF Turns
<1>4. Old' = Old /\ New' = New
  BY <1>f DEF Old, New
<1>5. Found'
  BY <1>2, <1>4, <1>f DEF Found
<1>6. <<j, i>> \in edges
  BY <1>1, <1>f DEF List
<1>7. ASSUME NEW a \in Rows, NEW b \in Rows
      PROVE  Walked(a, b)' <=> Walked(a, b) \/ <<b, a>> = <<j, i>>
  <2>1. (\E k \in 1 .. Len(stack') : stack'[k].node = a /\ b \notin stack'[k].rest)
          <=> (\E k \in 1 .. Len(stack) : stack[k].node = a /\ b \notin stack[k].rest)
                \/ <<b, a>> = <<j, i>>
    <3>1. ASSUME NEW k \in 1 .. Len(stack'), stack'[k].node = a, b \notin stack'[k].rest
          PROVE  (\E l \in 1 .. Len(stack) : stack[l].node = a /\ b \notin stack[l].rest)
                   \/ <<b, a>> = <<j, i>>
      <4>1. k \in 1 .. Len(stack) /\ stack[k].node = a
        BY <3>1, <1>f
      <4>2. b \notin stack[k].rest \/ (k = Len(stack) /\ b = j)
        BY <3>1, <4>1, <1>f
      <4> QED  BY <4>1, <4>2, <1>f
    <3>2. ASSUME NEW k \in 1 .. Len(stack), stack[k].node = a, b \notin stack[k].rest
          PROVE  \E l \in 1 .. Len(stack') : stack'[l].node = a /\ b \notin stack'[l].rest
      <4>1. k \in 1 .. Len(stack') /\ stack'[k].node = a /\ b \notin stack'[k].rest
        BY <3>2, <1>f
      <4> QED  BY <4>1
    <3>3. ASSUME a = i, b = j
          PROVE  \E l \in 1 .. Len(stack') : stack'[l].node = a /\ b \notin stack'[l].rest
      <4>1. Len(stack) \in 1 .. Len(stack') /\ stack'[Len(stack)].node = i
            /\ stack'[Len(stack)].rest = stack[Len(stack)].rest \ {j}
        BY <1>f
      <4> QED  BY <3>3, <4>1
    <3> QED  BY <3>1, <3>2, <3>3
  <2> QED  BY <2>1, <1>f DEF Walked
<1>8. ~Walked(i, j)
  <2>1. \A k \in 1 .. Len(stack) : stack[k].node = i => k = Len(stack)
    BY <1>f, OneFrame
  <2> QED  BY <2>1, <1>f DEF Walked
<1>9. j \in Old <=> ~SameScc(edges, j, i)
  <2>1. i \in New
    BY <1>f DEF New, Old
  <2>2. ASSUME j \in Old, SameScc(edges, j, i)
        PROVE  FALSE
    <3>1. Reaches(edges, i, j)
      BY <2>2 DEF SameScc
    <3>2. i \in Old
      BY <2>2, <3>1, <1>2, <1>f, OldClosed
    <3> QED  BY <2>1, <3>2 DEF New
  <2>3. ASSUME j \notin Old
        PROVE  SameScc(edges, j, i)
    <3>1. j \in New
      BY <2>3, <1>f DEF New
    <3> QED  BY <2>1, <3>1, <1>2 DEF Found
  <2> QED  BY <2>2, <2>3
<1>10. Listed'
  <2>1. CASE j \in Old
    <3>1. toRemove' = Append(toRemove, <<j, i>>)
      BY <2>1, <1>1, <1>f DEF CollectEdge, Old
    <3>2. /\ Len(toRemove') = Len(toRemove) + 1 /\ Len(toRemove) \in Nat
          /\ \A k \in 1 .. Len(toRemove) : toRemove'[k] = toRemove[k]
          /\ toRemove'[Len(toRemove) + 1] = <<j, i>>
          /\ toRemove' \in Seq(Rows \X Rows)
      <4> DEFINE Pairs == Rows \X Rows
                 e == <<j, i>>
      <4>1. toRemove \in Seq(Pairs) /\ e \in Pairs
        BY <1>f DEF DfsTypes
      <4> HIDE DEF Pairs, e
      <4>2. /\ toRemove' \in Seq(Pairs) /\ Len(toRemove') = Len(toRemove) + 1
            /\ \A k \in 1 .. Len(toRemove) : toRemove'[k] = toRemove[k]
            /\ toRemove'[Len(toRemove) + 1] = e
        BY <3>1, <4>1, AppendProperties DEF e
      <4>3. Len(toRemove) \in Nat
        BY <4>1, LenProperties
      <4> QED  BY <4>2, <4>3 DEF Pairs, e
    <3>3. \A k \in 1 .. Len(toRemove') : k \in 1 .. Len(toRemove) \/ k = Len(toRemove) + 1
      BY <3>2
    <3>4. ToSet(toRemove') = ToSet(toRemove) \cup {<<j, i>>}
      <4>1. DOMAIN toRemove = 1 .. Len(toRemove) /\ DOMAIN toRemove' = 1 .. Len(toRemove')
        BY <3>2 DEF DfsTypes
      <4>2. \A k \in 1 .. Len(toRemove) : k \in 1 .. Len(toRemove')
        BY <3>2
      <4>3. Len(toRemove) + 1 \in 1 .. Len(toRemove')
        BY <3>2
      <4> QED  BY <4>1, <4>2, <4>3, <3>2, <3>3 DEF ToSet
    <3>5. <<j, i>> \notin ToSet(toRemove)
      BY <1>2, <1>8, <1>f DEF Listed
    <3>6. \A k \in 1 .. Len(toRemove) : toRemove[k] # <<j, i>>
      BY <3>5 DEF ToSet, DfsTypes
    <3>7. \A k, l \in 1 .. Len(toRemove') : toRemove'[k] = toRemove'[l] => k = l
      BY <3>2, <3>3, <3>6, <1>2 DEF Listed
    <3>8. ASSUME NEW b \in Rows, NEW a \in Rows
          PROVE  <<b, a>> \in ToSet(toRemove') <=>
                   <<b, a>> \in edges /\ Walked(a, b)' /\ ~SameScc(edges, b, a)
      <4>1. <<b, a>> \in ToSet(toRemove) <=>
              <<b, a>> \in edges /\ Walked(a, b) /\ ~SameScc(edges, b, a)
        BY <1>2 DEF Listed
      <4>2. <<b, a>> = <<j, i>> => <<b, a>> \in edges /\ ~SameScc(edges, b, a)
        BY <2>1, <1>6, <1>9
      <4>3. <<b, a>> \in ToSet(toRemove') <=> <<b, a>> \in ToSet(toRemove) \/ <<b, a>> = <<j, i>>
        BY <3>4
      <4> QED  BY <4>1, <4>2, <4>3, <1>7
    <3> QED  BY <3>7, <3>8, <1>f DEF Listed
  <2>2. CASE j \notin Old
    <3>1. toRemove' = toRemove
      BY <2>2, <1>f DEF CollectEdge, Old
    <3>2. ASSUME NEW b \in Rows, NEW a \in Rows
          PROVE  <<b, a>> \in ToSet(toRemove) <=>
                   <<b, a>> \in edges /\ Walked(a, b)' /\ ~SameScc(edges, b, a)
      <4>1. <<b, a>> \in ToSet(toRemove) <=>
              <<b, a>> \in edges /\ Walked(a, b) /\ ~SameScc(edges, b, a)
        BY <1>2 DEF Listed
      <4>2. <<b, a>> = <<j, i>> => SameScc(edges, b, a)
        BY <2>2, <1>9
      <4> QED  BY <4>1, <4>2, <1>7
    <3> QED  BY <3>1, <3>2, <1>2, <1>f DEF Listed
  <2> QED  BY <2>1, <2>2
<1> QED  BY <1>3, <1>5, <1>10

\* A white root is reached only from its component.
LEMMA RootComponent ==
  ASSUME DfsTypes, GrayStack, Timed, Ordered, Turns, dir = 1, stack = << >>,
         roots # << >>, color[roots[1]] = "white",
         NEW v \in Rows, color[v] = "white", Reaches(edges, v, roots[1])
  PROVE  SameScc(edges, v, roots[1])
<1> DEFINE B == {r \in Rows : color[r] # "white"}
           n == Len(roots)
<1>1. n \in Nat \ {0} /\ n <= Len(newOrder) /\ Len(newOrder) \in Nat
  BY DEF DfsTypes, Turns
<1>2. roots[1] = newOrder[n]
  <2>1. 1 \in 1 .. n /\ n + 1 - 1 = n
    BY <1>1
  <2> QED  BY <2>1 DEF Turns
<1>3. \A r \in B : color[r] = "black"
  BY DEF GrayStack, DfsTypes
<1>4. \A e \in edges : e[2] \in B => e[1] \in B
  <2> SUFFICES ASSUME NEW e \in edges, e[2] \in B PROVE e[1] \in B
    OBVIOUS
  <2>1. e[1] \in Rows /\ e[2] \in Rows /\ e = <<e[1], e[2]>>
    BY DEF DfsTypes
  <2>2. e[1] \in List(e[2])
    BY <2>1 DEF List
  <2> QED  BY <2>1, <2>2, <1>3 DEF Timed
<1> HIDE DEF B
<1>5. n \in 1 .. Len(newOrder)
  BY <1>1
<1>6. PICK k \in 1 .. Len(newOrder) : n <= k /\ SameScc(edges, v, newOrder[k])
  <2>1. Reaches(edges, v, newOrder[n])
    BY <1>2
  <2> HIDE DEF n
  <2> QED  BY <1>5, <2>1 DEF Ordered
<1>7. CASE k = n
  BY <1>2, <1>6, <1>7
<1>8. CASE k # n
  <2>1. k \in n + 1 .. Len(newOrder)
    BY <1>1, <1>6, <1>8
  <2>2. newOrder[k] \in B
    <3>1. newOrder[k] \in Rows
      BY ElementOfSeq DEF DfsTypes
    <3> QED  BY <2>1, <3>1 DEF Turns, B
  <2>3. v \in B
    <3>1. B \in SUBSET Rows /\ Reaches(edges, v, newOrder[k])
      BY <1>6 DEF B, SameScc
    <3> QED  BY <2>2, <3>1, <1>4, PredecessorsClosed DEF DfsTypes
  <2> QED  BY <2>3 DEF B
<1> QED  BY <1>7, <1>8

LEMMA StartTreeBackwards ==
  ASSUME DfsTypes, GrayStack, Timed, Backwards, StartTree
  PROVE  Backwards'
<1> DEFINE h == Head(roots)
           n == Len(roots)
<1>f. /\ stack = << >> /\ roots # << >> /\ h \in Rows
      /\ \A r \in Rows : color[r] # "gray"
      /\ roots[1] = h /\ Len(roots') = n - 1
      /\ \A i \in 1 .. Len(roots') : roots'[i] = roots[i + 1]
      /\ \/ Entered(h) /\ treeTime' = time
         \/ /\ color[h] # "white"
            /\ UNCHANGED <<treeTime, time, color, discovery, stack, edges, dir, finish,
                           newOrder, toRemove>>
  BY StartTreeCases
<1>u. UNCHANGED <<edges, dir, finish, newOrder, toRemove>>
  BY DEF StartTree
<1>g. n \in Nat \ {0} /\ Len(newOrder) \in Nat
  BY <1>f DEF DfsTypes
<1> HIDE DEF h, n
<1>1. SUFFICES ASSUME dir = 1 PROVE (Ordered /\ Turns /\ Found /\ Listed)'
  BY <1>u DEF Backwards
<1>2. Ordered /\ Turns /\ Found /\ Listed
  BY <1>1 DEF Backwards
<1>3. Ordered'
  BY <1>2, <1>u, OrderedKept
<1>4. color'[h] # "white" /\ \A r \in Rows : color[r] # "white" => color'[r] # "white"
  <2>1. CASE Entered(h)
    BY <2>1, <1>f, EnteredTypes
  <2> QED  BY <2>1, <1>f
<1>5. Turns'
  <2>1. Len(roots') <= Len(newOrder)
    BY <1>2, <1>f, <1>g DEF Turns, n
  <2>2. ASSUME NEW i \in 1 .. Len(roots')
        PROVE  roots'[i] = newOrder[Len(roots') + 1 - i]
    <3>1. i + 1 \in 1 .. n /\ n + 1 - (i + 1) = Len(roots') + 1 - i
      BY <1>f, <1>g
    <3>2. roots[i + 1] = newOrder[n + 1 - (i + 1)]
      BY <3>1, <1>2 DEF Turns, n
    <3> QED  BY <3>1, <3>2, <1>f
  <2>3. ASSUME NEW k \in Len(roots') + 1 .. Len(newOrder)
        PROVE  color'[newOrder[k]] # "white"
    <3>1. k = n \/ k \in n + 1 .. Len(newOrder)
      BY <1>f, <1>g
    <3>2. k \in 1 .. Len(newOrder)
      BY <1>f, <1>g
    <3>3. newOrder[k] \in Rows
      BY <3>2, ElementOfSeq DEF DfsTypes
    <3>4. CASE k = n
      <4>1. 1 \in 1 .. n /\ n + 1 - 1 = n
        BY <1>g
      <4>2. newOrder[n] = h
        BY <4>1, <1>2, <1>f DEF Turns, n
      <4> QED  BY <3>4, <4>2, <1>4
    <3>5. CASE k \in n + 1 .. Len(newOrder)
      BY <3>3, <3>5, <1>2, <1>4 DEF Turns, n
    <3> QED  BY <3>1, <3>4, <3>5
  <2> QED  BY <2>1, <2>2, <2>3, <1>u DEF Turns
<1>6. CASE Entered(h)
  <2>t. /\ \A r \in Rows : color'[r] = IF r = h THEN "gray" ELSE color[r]
    BY <1>6, <1>f, EnteredTypes
  <2>1. treeTime' = time /\ color[h] = "white"
    BY <1>6, <1>f DEF Entered
  <2>2. \A r \in Rows : color[r] = "black" <=> color[r] # "white"
    BY <1>f DEF DfsTypes
  <2>3. \A r \in Rows : r \in Old' <=> color[r] = "black"
    BY <2>t, <2>1, <1>u DEF Old, Timed
  <2>4. Old' \subseteq Rows
    BY DEF Old
  <2>5. \A r : r \in New' => r = h
    BY <2>t, <2>2, <2>3 DEF New
  <2>6. Found'
    <3>1. ASSUME NEW e \in edges, e[2] \in Old'
          PROVE  e[1] \in Old'
      <4>1. e[1] \in Rows /\ e[2] \in Rows /\ e = <<e[1], e[2]>>
        BY DEF DfsTypes
      <4>2. e[1] \in List(e[2])
        BY <4>1, <1>1 DEF List
      <4> QED  BY <3>1, <4>1, <4>2, <2>2, <2>3 DEF Timed
    <3>2. ASSUME NEW a \in New', NEW v \in Rows \ Old', Reaches(edges, v, a)
          PROVE  SameScc(edges, v, a)
      <4>1. a = h /\ color[v] = "white"
        BY <2>2, <2>3, <2>5
      <4> QED  BY <3>2, <4>1, <2>1, <1>1, <1>2, <1>f, RootComponent
    <3>3. ASSUME NEW a \in New', NEW b \in New'
          PROVE  SameScc(edges, a, b)
      BY <2>5, ReachesTrans
    <3> QED  BY <3>1, <3>2, <3>3, <1>u DEF Found
  <2>7. Listed'
    <3>1. \A a, b \in Rows : <<b, a>> \in edges => (Walked(a, b)' <=> Walked(a, b))
      BY <1>6, <1>1, <1>f, EnteredWalked
    <3> QED  BY <3>1, <1>2, <1>u, WalkedKept
  <2> QED  BY <2>6, <2>7, <1>3, <1>5
<1>7. CASE UNCHANGED <<treeTime, time, color, discovery, stack, edges, dir, finish, newOrder,
                       toRemove>>
  <2>1. Old' = Old /\ New' = New
    BY <1>7 DEF Old, New
  <2>2. Found'
    BY <2>1, <1>2, <1>7 DEF Found
  <2>3. Listed'
    BY <1>2, <1>7, WalkedKept DEF Walked
  <2> QED  BY <2>2, <2>3, <1>3, <1>5
<1> QED  BY <1>6, <1>7, <1>f

LEMMA EmptyIsSeq == \A X : << >> \in Seq(X)
BY EmptySeq

LEMMA InitDfsInv == DfsInit => DfsInv
<1> SUFFICES ASSUME DfsInit PROVE DfsInv
  OBVIOUS
<1>1. PICK E \in SUBSET {e \in Rows \X Rows : e[1] # e[2]} : edges = E \cup {<<r, r>> : r \in Rows}
  BY DEF DfsInit
<1>2. edges \in SUBSET (Rows \X Rows) /\ \A r \in Rows : <<r, r>> \in edges
  BY <1>1
<1>3. /\ dir = 0 /\ roots = [i \in 1 .. S |-> S - i] /\ color = AllWhite
      /\ discovery = NoTimes /\ finish = NoTimes /\ time = 0 /\ treeTime = 0
      /\ stack = << >> /\ newOrder = << >> /\ toRemove = << >>
  BY DEF DfsInit
<1>4. roots \in Seq(Rows) /\ Len(roots) = S
  <2>1. \A i \in 1 .. S : S - i \in Rows
    BY SizeAssumption DEF Rows
  <2> QED  BY <1>3, <2>1, SizeAssumption, IsASeq
<1>5. color \in [Rows -> {"white", "gray", "black"}] /\ \A r \in Rows : color[r] = "white"
  BY <1>3 DEF AllWhite
<1>6. discovery \in [Rows -> Nat] /\ finish \in [Rows -> Nat]
  BY <1>3 DEF NoTimes
<1>7. DfsTypes
  BY <1>2, <1>3, <1>4, <1>5, <1>6, EmptyIsSeq DEF DfsTypes
<1>8. Len(stack) = 0 /\ Len(newOrder) = 0
  BY <1>3
<1>9. GrayStack
  BY <1>5, <1>8 DEF GrayStack
<1>10. Timed
  BY <1>5 DEF Timed
<1>11. Rooted
  <2> SUFFICES ASSUME NEW r \in Rows PROVE \E i \in 1 .. Len(roots) : roots[i] = r
    BY DEF Rooted
  <2>1. S - r \in 1 .. S /\ S - (S - r) = r
    BY SizeAssumption DEF Rows
  <2> QED  BY <2>1, <1>3, <1>4
<1>12. Forward
  BY <1>3, <1>5, <1>8 DEF Forward, LaterFinish
<1>13. Backwards
  BY <1>3 DEF Backwards
<1> QED  BY <1>7, <1>9, <1>10, <1>11, <1>12, <1>13 DEF DfsInv

LEMMA StartTreeInv == DfsInv /\ StartTree => DfsInv'
<1> SUFFICES ASSUME DfsTypes, GrayStack, Timed, Rooted, Forward, Backwards, StartTree
             PROVE  DfsInv'
  BY DEF DfsInv
<1> DEFINE h == Head(roots)
<1>f. /\ stack = << >> /\ roots # << >> /\ h \in Rows
      /\ \A r \in Rows : color[r] # "gray"
      /\ roots' \in Seq(Rows) /\ roots[1] = h /\ Len(roots') = Len(roots) - 1
      /\ \A i \in 1 .. Len(roots') : roots'[i] = roots[i + 1]
      /\ \/ /\ Entered(h) /\ treeTime' = time
            /\ stack' \in Seq([node : Rows, rest : SUBSET Rows])
         \/ /\ color[h] # "white"
            /\ UNCHANGED <<treeTime, time, color, discovery, stack, edges, dir, finish,
                           newOrder, toRemove>>
  BY StartTreeCases
<1>u. UNCHANGED <<edges, dir, finish, newOrder, toRemove>>
  BY DEF StartTree
<1> HIDE DEF h
<1>1. Backwards'
  BY StartTreeBackwards
<1>2. color'[h] # "white" /\ \A r \in Rows : color[r] # "white" => color'[r] # "white"
  <2>1. CASE Entered(h)
    BY <2>1, <1>f, EnteredTypes
  <2> QED  BY <2>1, <1>f
<1>3. Rooted'
  <2> SUFFICES ASSUME NEW r \in Rows, color'[r] = "white"
               PROVE  \E i \in 1 .. Len(roots') : roots'[i] = r
    BY DEF Rooted
  <2>1. PICK i \in 1 .. Len(roots) : roots[i] = r
    BY <1>2 DEF Rooted
  <2>2. i # 1
    BY <2>1, <1>2, <1>f
  <2>4. Len(roots) \in Nat
    BY DEF DfsTypes
  <2>3. i - 1 \in 1 .. Len(roots') /\ (i - 1) + 1 = i
    BY <2>2, <2>4, <1>f
  <2> QED  BY <2>1, <2>3, <1>f
<1>4. CASE Entered(h)
  <2>t. /\ color' \in [Rows -> {"white", "gray", "black"}]
        /\ discovery' \in [Rows -> Nat] /\ time' = time + 1 /\ time \in Nat
    BY <1>4, <1>f, EnteredTypes
  <2>1. stack' \in Seq([node : Rows, rest : SUBSET Rows]) /\ treeTime' = time
    BY <1>4, <1>f DEF Entered
  <2>4. time' \in Nat /\ treeTime' \in Nat /\ treeTime' <= time'
    BY <2>t, <2>1
  <2>5. /\ edges' = edges /\ dir' = dir /\ finish' = finish /\ newOrder' = newOrder
        /\ toRemove' = toRemove /\ roots' \in Seq(Rows)
    BY <1>f, <1>u
  <2>2. DfsTypes'
    BY <2>t, <2>1, <2>4, <2>5 DEF DfsTypes
  <2>3. GrayStack' /\ Timed' /\ Forward'
    BY <1>4, <1>f, EnteredStack, EnteredTimed, EnteredForward
  <2> QED  BY <2>2, <2>3, <1>1, <1>3 DEF DfsInv
<1>5. CASE UNCHANGED <<treeTime, time, color, discovery, stack, edges, dir, finish,
                       newOrder, toRemove>>
  <2>1. DfsTypes'
    BY <1>5, <1>f DEF DfsTypes
  <2>2. \A i : List(i)' = List(i)
    BY <1>5 DEF List
  <2>3. GrayStack' /\ Timed'
    BY <1>5, <2>2 DEF GrayStack, Timed
  <2>4. Forward'
    BY <1>5 DEF Forward, LaterFinish
  <2> QED  BY <2>1, <2>3, <2>4, <1>1, <1>3 DEF DfsInv
<1> QED  BY <1>4, <1>5, <1>f

LEMMA VisitWhiteInv == DfsInv /\ VisitWhite => DfsInv'
<1> SUFFICES ASSUME DfsTypes, GrayStack, Timed, Rooted, Forward, Backwards, VisitWhite
             PROVE  DfsInv'
  BY DEF DfsInv
<1> DEFINE j == Current
<1>0. /\ j \in Rows /\ Entered(j)
      /\ stack' \in Seq([node : Rows, rest : SUBSET Rows])
      /\ dir = 0 => \A y \in Rows : color[y] = "gray" => Reaches(edges, y, j)
  BY VisitWhiteEnters
<1>u. UNCHANGED <<edges, dir, roots, finish, treeTime, newOrder, toRemove>>
  BY DEF VisitWhite
<1> HIDE DEF j
<1>t. /\ color' \in [Rows -> {"white", "gray", "black"}]
      /\ \A r \in Rows : color'[r] = IF r = j THEN "gray" ELSE color[r]
      /\ discovery' \in [Rows -> Nat] /\ time' = time + 1 /\ time \in Nat
  BY <1>0, EnteredTypes
<1>1. Backwards'
  BY VisitWhiteBackwards
<1>2. DfsTypes'
  BY <1>0, <1>u, <1>t DEF DfsTypes
<1>3. Rooted'
  BY <1>u, <1>t DEF Rooted
<1>4. GrayStack' /\ Timed' /\ Forward'
  BY <1>0, EnteredStack, EnteredTimed, EnteredForward
<1> QED  BY <1>1, <1>2, <1>3, <1>4 DEF DfsInv

LEMMA NextEdgeInv == DfsInv /\ NextEdge => DfsInv'
<1> SUFFICES ASSUME DfsTypes, GrayStack, Timed, Rooted, Forward, Backwards, NextEdge
             PROVE  DfsInv'
  BY DEF DfsInv
<1> DEFINE i == Top.node
           j == Current
<1>f. /\ i \in Rows /\ j \in Rows /\ CollectEdge(i, j)
      /\ stack' \in Seq([node : Rows, rest : SUBSET Rows])
      /\ UNCHANGED <<edges, dir, roots, color, discovery, finish, time, treeTime, newOrder>>
  BY NextEdgeFacts
<1> HIDE DEF i, j
<1>1. Backwards' /\ GrayStack' /\ Forward'
  BY NextEdgeBackwards, NextEdgeStack, NextEdgeForward
<1>2. toRemove' \in Seq(Rows \X Rows)
  <2> DEFINE Pairs == Rows \X Rows
             e == <<j, i>>
  <2>1. toRemove \in Seq(Pairs) /\ e \in Pairs
    BY <1>f DEF DfsTypes
  <2>2. toRemove' = Append(toRemove, e) \/ toRemove' = toRemove
    BY <1>f DEF CollectEdge
  <2> HIDE DEF Pairs, e
  <2>3. toRemove' \in Seq(Pairs)
    BY <2>1, <2>2, AppendProperties
  <2> QED  BY <2>3 DEF Pairs
<1>3. DfsTypes'
  BY <1>f, <1>2 DEF DfsTypes
<1>4. \A a : List(a)' = List(a)
  BY <1>f DEF List
<1>5. Timed' /\ Rooted'
  BY <1>4, <1>f DEF Timed, Rooted
<1> QED  BY <1>1, <1>3, <1>5 DEF DfsInv

LEMMA LeaveInv == DfsInv /\ Leave => DfsInv'
<1> SUFFICES ASSUME DfsTypes, GrayStack, Timed, Rooted, Forward, Backwards, Leave
             PROVE  DfsInv'
  BY DEF DfsInv
<1> DEFINE x == Top.node
<1>f. /\ x \in Rows
      /\ \A r \in Rows : color'[r] = IF r = x THEN "black" ELSE color[r]
      /\ color' \in [Rows -> {"white", "gray", "black"}] /\ finish' \in [Rows -> Nat]
      /\ time' = time + 1 /\ time \in Nat
      /\ stack' \in Seq([node : Rows, rest : SUBSET Rows])
      /\ newOrder' = IF dir = 0 THEN Append(newOrder, x) ELSE newOrder
      /\ UNCHANGED <<edges, dir, roots, discovery, treeTime, toRemove>>
  BY LeaveFacts
<1> HIDE DEF x
<1>1. Backwards' /\ GrayStack' /\ Timed' /\ Forward'
  BY LeaveBackwards, LeaveStack, LeaveTimed, LeaveForward
<1>2. newOrder' \in Seq(Rows)
  BY <1>f, AppendProperties DEF DfsTypes
<1>3. DfsTypes'
  BY <1>f, <1>2 DEF DfsTypes
<1>4. Rooted'
  BY <1>f DEF Rooted
<1> QED  BY <1>1, <1>3, <1>4 DEF DfsInv

LEMMA BackwardInv == DfsInv /\ Backward => DfsInv'
<1> SUFFICES ASSUME DfsTypes, GrayStack, Timed, Rooted, Forward, Backwards, Backward
             PROVE  DfsInv'
  BY DEF DfsInv
<1>1. /\ dir' = 1 /\ roots' = Reverse(newOrder) /\ color' = AllWhite
      /\ discovery' = NoTimes /\ finish' = NoTimes /\ time' = 0 /\ treeTime' = 0
      /\ stack = << >> /\ UNCHANGED <<edges, stack, newOrder, toRemove>>
  BY DEF Backward
<1>2. Backwards'
  BY BackwardBackwards
<1>3. color' \in [Rows -> {"white", "gray", "black"}] /\ \A r \in Rows : color'[r] = "white"
  BY <1>1 DEF AllWhite
<1> DEFINE n == Len(newOrder)
<1>4. /\ roots' \in Seq(Rows) /\ Len(roots') = n /\ n \in Nat
      /\ \A i \in 1 .. n : roots'[i] = newOrder[(n - i) + 1]
  <2>1. n \in Nat /\ \A i \in 1 .. n : (n - i) + 1 \in 1 .. n
    BY DEF DfsTypes
  <2>2. roots' = [i \in 1 .. n |-> newOrder[(n - i) + 1]]
    BY <1>1 DEF Reverse
  <2> HIDE DEF n
  <2>3. \A i \in 1 .. n : newOrder[(n - i) + 1] \in Rows
    BY <2>1, ElementOfSeq DEF DfsTypes, n
  <2> QED  BY <2>1, <2>2, <2>3, IsASeq
<1>5. Rooted'
  <2> SUFFICES ASSUME NEW r \in Rows PROVE \E i \in 1 .. Len(roots') : roots'[i] = r
    BY DEF Rooted
  <2>1. PICK k \in 1 .. n : newOrder[k] = r
    BY BackwardOrdered
  <2>2. (n + 1) - k \in 1 .. n /\ (n - ((n + 1) - k)) + 1 = k
    BY <1>4
  <2> QED  BY <2>1, <2>2, <1>4
<1>6. discovery' \in [Rows -> Nat] /\ finish' \in [Rows -> Nat]
  BY <1>1 DEF NoTimes
<1>7. DfsTypes'
  BY <1>1, <1>3, <1>4, <1>6 DEF DfsTypes
<1>8. GrayStack' /\ Timed'
  <2>1. Len(stack') = 0
    BY <1>1
  <2> QED  BY <2>1, <1>3 DEF GrayStack, Timed
<1>9. Forward'
  BY <1>1 DEF Forward
<1> QED  BY <1>2, <1>5, <1>7, <1>8, <1>9 DEF DfsInv

LEMMA NextDfsInv == DfsInv /\ [DfsNext]_dfsVars => DfsInv'
<1>1. ASSUME DfsInv, UNCHANGED dfsVars
      PROVE  DfsInv'
  <2>1. UNCHANGED <<edges, dir, roots, color, discovery, finish, time, treeTime, stack, newOrder,
                    toRemove>>
    BY <1>1 DEF dfsVars
  <2>2. DfsTypes' /\ GrayStack' /\ Rooted'
    BY <1>1, <2>1 DEF DfsInv, DfsTypes, GrayStack, Rooted, List
  <2>3. Timed' /\ Forward'
    BY <1>1, <2>1 DEF DfsInv, Timed, Forward, LaterFinish, List
  <2>4. Backwards'
    BY <1>1, <2>1 DEF DfsInv, Backwards, Ordered, Turns, Found, Listed, Walked, Old, New
  <2> QED  BY <2>2, <2>3, <2>4 DEF DfsInv
<1> QED  BY <1>1, StartTreeInv, VisitWhiteInv, NextEdgeInv, LeaveInv, BackwardInv DEF DfsNext

\* The list of a sequence without repetitions is as long as its set is large.
LEMMA SizeOfList ==
  ASSUME NEW X, NEW s \in Seq(X), \A k, l \in 1 .. Len(s) : s[k] = s[l] => k = l
  PROVE  Cardinality(ToSet(s)) = Len(s)
<1>1. Len(s) \in Nat /\ DOMAIN s = 1 .. Len(s)
  OBVIOUS
<1>2. s \in [1 .. Len(s) -> ToSet(s)]
  BY <1>1 DEF ToSet
<1>3. s \in Injection(1 .. Len(s), ToSet(s))
  BY <1>2 DEF Injection, IsInjective
<1>4. s \in Surjection(1 .. Len(s), ToSet(s))
  BY <1>1, <1>2 DEF Surjection, ToSet
<1>5. s \in Bijection(1 .. Len(s), ToSet(s))
  BY <1>3, <1>4 DEF Bijection
<1>6. IsFiniteSet(1 .. Len(s)) /\ Cardinality(1 .. Len(s)) = Len(s)
  BY <1>1, FS_Interval
<1>7. ExistsBijection(1 .. Len(s), ToSet(s))
  BY <1>5 DEF ExistsBijection
<1> QED  BY <1>6, <1>7, FS_Bijection

\* When both searches are done, the list has the edges between components.
LEMMA CrossEdgesListed ==
  ASSUME DfsInv, Searched
  PROVE  /\ ToSet(toRemove) = {e \in edges : ~SameScc(edges, e[1], e[2])}
         /\ Cardinality(ToSet(toRemove)) = Len(toRemove)
<1>0. DfsTypes /\ GrayStack /\ Rooted /\ Backwards
  BY DEF DfsInv
<1>1. dir = 1 /\ stack = << >> /\ roots = << >>
  BY DEF Searched
<1>2. \A r \in Rows : color[r] = "black"
  <2> TAKE r \in Rows
  <2>1. color[r] # "gray"
    BY <1>0, <1>1 DEF GrayStack
  <2>2. color[r] # "white"
    BY <1>0, <1>1 DEF Rooted
  <2> QED  BY <2>1, <2>2, <1>0, Colors
<1>3. Listed
  BY <1>0, <1>1 DEF Backwards
<1>4. \A j, i \in Rows : <<j, i>> \in ToSet(toRemove) <=> <<j, i>> \in edges /\ ~SameScc(edges, j, i)
  BY <1>2, <1>3 DEF Listed, Walked
<1>5. toRemove \in Seq(Rows \X Rows) /\ edges \in SUBSET (Rows \X Rows)
  BY <1>0 DEF DfsTypes
<1>6. ToSet(toRemove) \subseteq Rows \X Rows
  BY <1>5, ElementOfSeq DEF ToSet
<1>7. ASSUME NEW e \in Rows \X Rows
      PROVE  e \in ToSet(toRemove) <=> e \in edges /\ ~SameScc(edges, e[1], e[2])
  <2>1. e[1] \in Rows /\ e[2] \in Rows /\ e = <<e[1], e[2]>>
    OBVIOUS
  <2> QED  BY <2>1, <1>4
<1>8. ToSet(toRemove) = {e \in edges : ~SameScc(edges, e[1], e[2])}
  BY <1>5, <1>6, <1>7
<1>9. Cardinality(ToSet(toRemove)) = Len(toRemove)
  BY <1>3, <1>5, SizeOfList DEF Listed
<1> QED  BY <1>8, <1>9

-----------------------------------------------------------------------------
(* The search for a perfect matching.                                      *)

\* The node of a column of the minor.
ColNode(j) == (S - 1) + j

LEMMA NodeFacts ==
  /\ \A j \in Bip!Rows : ColNode(j) \in Bip!Right /\ ColNode(j) \in Bip!Nodes
  /\ \A j, k \in Bip!Rows : ColNode(j) = ColNode(k) => j = k
  /\ \A i, j \in Bip!Rows : i # ColNode(j)
  /\ \A i \in Bip!Rows : /\ i \in Bip!Nodes /\ i # Bip!Src /\ i # Bip!Snk
                         /\ ColNode(i) # Bip!Src /\ ColNode(i) # Bip!Snk
  /\ Bip!Src # Bip!Snk /\ Bip!Src \in Bip!Nodes /\ Bip!Snk \in Bip!Nodes
  /\ \A v \in Bip!Nodes : /\ v \in Nat /\ v # Bip!None
                          /\ \/ v \in Bip!Rows \/ v = Bip!Src \/ v = Bip!Snk
                             \/ \E j \in Bip!Rows : v = ColNode(j)
  /\ \A v \in Bip!Right : \E j \in Bip!Rows : v = ColNode(j)
  /\ Bip!Nodes = 0 .. Bip!Size - 1 /\ Bip!Size \in Nat
  /\ Bip!Left = Bip!Rows
<1> DEFINE n == S - 1
<1>0. n \in Nat
  BY SizeAssumption
<1>1. /\ Bip!Rows = 0 .. n - 1 /\ Bip!Left = 0 .. n - 1 /\ Bip!Right = n .. 2 * n - 1
      /\ Bip!Src = 2 * n /\ Bip!Snk = 2 * n + 1 /\ Bip!Nodes = 0 .. 2 * n + 1
      /\ Bip!Size = 2 * n + 2 /\ Bip!None = -1
      /\ \A j : ColNode(j) = n + j
  BY DEF Bip!Rows, Bip!Left, Bip!Right, Bip!Src, Bip!Snk, Bip!Nodes, Bip!Size, Bip!None, ColNode
<1> HIDE DEF n
<1>2. \A v \in n .. 2 * n - 1 : v - n \in 0 .. n - 1 /\ v = n + (v - n)
  BY <1>0
<1>3. \A v \in 0 .. 2 * n + 1 : v \in 0 .. n - 1 \/ v \in n .. 2 * n - 1 \/ v = 2 * n \/ v = 2 * n + 1
  BY <1>0
<1>4. \A j \in 0 .. n - 1 : n + j \in n .. 2 * n - 1 /\ n + j \in 0 .. 2 * n + 1
  BY <1>0
<1>5. \A j, k \in 0 .. n - 1 : (n + j = n + k => j = k) /\ j # n + k
  BY <1>0
<1>6. \A i \in 0 .. n - 1 : /\ i \in 0 .. 2 * n + 1 /\ i # 2 * n /\ i # 2 * n + 1
                            /\ n + i # 2 * n /\ n + i # 2 * n + 1
  BY <1>0
<1>7. /\ 2 * n # 2 * n + 1 /\ 2 * n \in 0 .. 2 * n + 1 /\ 2 * n + 1 \in 0 .. 2 * n + 1
      /\ \A v \in 0 .. 2 * n + 1 : v \in Nat /\ v # -1
      /\ 0 .. 2 * n + 1 = 0 .. (2 * n + 2) - 1 /\ 2 * n + 2 \in Nat
  BY <1>0
<1> QED  BY <1>1, <1>2, <1>3, <1>4, <1>5, <1>6, <1>7

\* Every edge of the network is there, or its reverse is: never both.
Oriented ==
  /\ residual \in SUBSET (Bip!Nodes \X Bip!Nodes)
  /\ \A a, b \in Bip!Nodes :
       /\ <<a, b>> \in residual => \/ <<a, b>> \in Bip!Network(minor)
                                   \/ <<b, a>> \in Bip!Network(minor)
       /\ <<a, b>> \in Bip!Network(minor) => (<<a, b>> \in residual <=> <<b, a>> \notin residual)

MinorType == minor \in SUBSET (Bip!Rows \X Bip!Rows)

LEMMA NetworkEdges ==
  ASSUME NEW m \in SUBSET (Bip!Rows \X Bip!Rows), NEW a, NEW b
  PROVE  <<a, b>> \in Bip!Network(m) <=>
           \/ a = Bip!Src /\ b \in Bip!Rows
           \/ b = Bip!Snk /\ \E j \in Bip!Rows : a = ColNode(j)
           \/ a \in Bip!Rows /\ \E j \in Bip!Rows : b = ColNode(j) /\ <<a, j>> \in m
<1>1. <<a, b>> \in Bip!Network(m) <=>
        \/ a = Bip!Src /\ b \in Bip!Left
        \/ a \in Bip!Right /\ b = Bip!Snk
        \/ \E e \in m : a = e[1] /\ b = ColNode(e[2])
  BY DEF Bip!Network, ColNode
<1>2. (\E e \in m : a = e[1] /\ b = ColNode(e[2])) <=>
        a \in Bip!Rows /\ \E j \in Bip!Rows : b = ColNode(j) /\ <<a, j>> \in m
  <2>1. ASSUME NEW e \in m, a = e[1], b = ColNode(e[2])
        PROVE  a \in Bip!Rows /\ \E j \in Bip!Rows : b = ColNode(j) /\ <<a, j>> \in m
    <3>1. e \in Bip!Rows \X Bip!Rows
      OBVIOUS
    <3>2. e = <<e[1], e[2]>> /\ e[1] \in Bip!Rows /\ e[2] \in Bip!Rows
      BY <3>1
    <3> QED  BY <2>1, <3>2
  <2>2. ASSUME NEW j \in Bip!Rows, b = ColNode(j), <<a, j>> \in m
        PROVE  \E e \in m : a = e[1] /\ b = ColNode(e[2])
    <3>1. <<a, j>>[1] = a /\ <<a, j>>[2] = j
      OBVIOUS
    <3> QED  BY <2>2, <3>1
  <2> QED  BY <2>1, <2>2
<1>3. a \in Bip!Right <=> \E j \in Bip!Rows : a = ColNode(j)
  BY NodeFacts
<1> QED  BY <1>1, <1>2, <1>3, NodeFacts

LEMMA NetworkFacts ==
  ASSUME MinorType, NEW a, NEW b
  PROVE  <<a, b>> \in Bip!Network(minor) <=>
           \/ a = Bip!Src /\ b \in Bip!Rows
           \/ b = Bip!Snk /\ \E j \in Bip!Rows : a = ColNode(j)
           \/ a \in Bip!Rows /\ \E j \in Bip!Rows : b = ColNode(j) /\ <<a, j>> \in minor
BY NetworkEdges DEF MinorType

\* Row i is matched with column j.
Mated(i, j) == <<ColNode(j), i>> \in residual

LEMMA OrientedFacts ==
  ASSUME MinorType, Oriented
  PROVE  /\ \A i \in Bip!Rows : <<Bip!Src, i>> \in residual <=> <<i, Bip!Src>> \notin residual
         /\ \A j \in Bip!Rows : <<ColNode(j), Bip!Snk>> \in residual
                                  <=> <<Bip!Snk, ColNode(j)>> \notin residual
         /\ \A i, j \in Bip!Rows :
              /\ <<i, j>> \in minor => (<<i, ColNode(j)>> \in residual <=> ~Mated(i, j))
              /\ <<i, ColNode(j)>> \in residual \/ Mated(i, j) => <<i, j>> \in minor
         /\ \A a, b : <<a, b>> \in residual =>
              /\ a \in Bip!Nodes /\ b \in Bip!Nodes
              /\ \/ a = Bip!Src /\ b \in Bip!Rows
                 \/ b = Bip!Src /\ a \in Bip!Rows
                 \/ b = Bip!Snk /\ \E j \in Bip!Rows : a = ColNode(j)
                 \/ a = Bip!Snk /\ \E j \in Bip!Rows : b = ColNode(j)
                 \/ a \in Bip!Rows /\ \E j \in Bip!Rows : b = ColNode(j)
                 \/ b \in Bip!Rows /\ \E j \in Bip!Rows : a = ColNode(j)
<1>1. \A i \in Bip!Rows : <<Bip!Src, i>> \in Bip!Network(minor)
  BY NetworkFacts
<1>2. \A j \in Bip!Rows : <<ColNode(j), Bip!Snk>> \in Bip!Network(minor)
  BY NetworkFacts
<1>3. \A i, j \in Bip!Rows : <<i, j>> \in minor => <<i, ColNode(j)>> \in Bip!Network(minor)
  BY NetworkFacts
<1>4. \A a, b : <<a, b>> \in residual =>
        /\ a \in Bip!Nodes /\ b \in Bip!Nodes
        /\ <<a, b>> \in Bip!Network(minor) \/ <<b, a>> \in Bip!Network(minor)
  BY DEF Oriented
<1>5. ASSUME NEW a, NEW b, <<a, b>> \in residual
      PROVE  /\ a \in Bip!Nodes /\ b \in Bip!Nodes
             /\ \/ a = Bip!Src /\ b \in Bip!Rows
                \/ b = Bip!Src /\ a \in Bip!Rows
                \/ b = Bip!Snk /\ \E j \in Bip!Rows : a = ColNode(j)
                \/ a = Bip!Snk /\ \E j \in Bip!Rows : b = ColNode(j)
                \/ a \in Bip!Rows /\ \E j \in Bip!Rows : b = ColNode(j)
                \/ b \in Bip!Rows /\ \E j \in Bip!Rows : a = ColNode(j)
  <2>1. /\ a \in Bip!Nodes /\ b \in Bip!Nodes
        /\ <<a, b>> \in Bip!Network(minor) \/ <<b, a>> \in Bip!Network(minor)
    BY <1>4, <1>5
  <2>2. CASE <<a, b>> \in Bip!Network(minor)
    <3>1. \/ a = Bip!Src /\ b \in Bip!Rows
          \/ b = Bip!Snk /\ \E j \in Bip!Rows : a = ColNode(j)
          \/ a \in Bip!Rows /\ \E j \in Bip!Rows : b = ColNode(j) /\ <<a, j>> \in minor
      BY <2>2, NetworkFacts
    <3> QED  BY <2>1, <3>1
  <2>3. CASE <<b, a>> \in Bip!Network(minor)
    <3>1. \/ b = Bip!Src /\ a \in Bip!Rows
          \/ a = Bip!Snk /\ \E j \in Bip!Rows : b = ColNode(j)
          \/ b \in Bip!Rows /\ \E j \in Bip!Rows : a = ColNode(j) /\ <<b, j>> \in minor
      BY <2>3, NetworkFacts
    <3> QED  BY <2>1, <3>1
  <2> QED  BY <2>1, <2>2, <2>3
<1>6. ASSUME NEW i \in Bip!Rows, NEW j \in Bip!Rows
      PROVE  /\ <<i, j>> \in minor => (<<i, ColNode(j)>> \in residual <=> ~Mated(i, j))
             /\ <<i, ColNode(j)>> \in residual \/ Mated(i, j) => <<i, j>> \in minor
  <2>1. i \in Bip!Nodes /\ ColNode(j) \in Bip!Nodes
    BY NodeFacts
  <2>2. <<i, j>> \in minor => (<<i, ColNode(j)>> \in residual <=> ~Mated(i, j))
    BY <2>1, <1>3 DEF Oriented, Mated
  <2>3. ASSUME <<i, ColNode(j)>> \in residual \/ Mated(i, j)
        PROVE  <<i, j>> \in minor
    <3>1. <<i, ColNode(j)>> \in Bip!Network(minor) \/ <<ColNode(j), i>> \in Bip!Network(minor)
      BY <2>3, <1>4 DEF Mated
    <3>2. <<ColNode(j), i>> \notin Bip!Network(minor)
      BY NetworkFacts, NodeFacts
    <3>3. <<i, ColNode(j)>> \in Bip!Network(minor)
      BY <3>1, <3>2
    <3>4. \/ i = Bip!Src /\ ColNode(j) \in Bip!Rows
          \/ ColNode(j) = Bip!Snk /\ \E k \in Bip!Rows : i = ColNode(k)
          \/ i \in Bip!Rows /\ \E k \in Bip!Rows : ColNode(j) = ColNode(k) /\ <<i, k>> \in minor
      BY <3>3, NetworkFacts
    <3> QED  BY <3>4, NodeFacts
  <2> QED  BY <2>2, <2>3
<1>7. \A i \in Bip!Rows : <<Bip!Src, i>> \in residual <=> <<i, Bip!Src>> \notin residual
  BY <1>1, NodeFacts DEF Oriented
<1>8. \A j \in Bip!Rows : <<ColNode(j), Bip!Snk>> \in residual
                            <=> <<Bip!Snk, ColNode(j)>> \notin residual
  BY <1>2, NodeFacts DEF Oriented
<1> QED  BY <1>5, <1>6, <1>7, <1>8

\* No edge of a network is there in both directions.
LEMMA NetworkOneWay ==
  ASSUME NEW m \in SUBSET (Bip!Rows \X Bip!Rows)
  PROVE  /\ Bip!Network(m) \in SUBSET (Bip!Nodes \X Bip!Nodes)
         /\ \A a, b : <<a, b>> \in Bip!Network(m) => <<b, a>> \notin Bip!Network(m)
<1>1. \A a, b : <<a, b>> \in Bip!Network(m) =>
        a \in Bip!Nodes /\ b \in Bip!Nodes /\ <<b, a>> \notin Bip!Network(m)
  <2> SUFFICES ASSUME NEW a, NEW b, <<a, b>> \in Bip!Network(m)
               PROVE  a \in Bip!Nodes /\ b \in Bip!Nodes /\ <<b, a>> \notin Bip!Network(m)
    OBVIOUS
  <2>1. \/ a = Bip!Src /\ b \in Bip!Rows
        \/ b = Bip!Snk /\ \E j \in Bip!Rows : a = ColNode(j)
        \/ a \in Bip!Rows /\ \E j \in Bip!Rows : b = ColNode(j) /\ <<a, j>> \in m
    BY NetworkEdges
  <2>2. <<b, a>> \in Bip!Network(m) =>
          \/ b = Bip!Src /\ a \in Bip!Rows
          \/ a = Bip!Snk /\ \E j \in Bip!Rows : b = ColNode(j)
          \/ b \in Bip!Rows /\ \E j \in Bip!Rows : a = ColNode(j) /\ <<b, j>> \in m
    BY NetworkEdges
  <2>3. CASE a = Bip!Src /\ b \in Bip!Rows
    BY <2>2, <2>3, NodeFacts
  <2>4. CASE b = Bip!Snk /\ \E j \in Bip!Rows : a = ColNode(j)
    BY <2>2, <2>4, NodeFacts
  <2>5. CASE a \in Bip!Rows /\ \E j \in Bip!Rows : b = ColNode(j) /\ <<a, j>> \in m
    BY <2>2, <2>5, NodeFacts
  <2> QED  BY <2>1, <2>3, <2>4, <2>5
<1>2. \A x \in Bip!Network(m) : x = <<x[1], x[2]>>
  BY DEF Bip!Network
<1>3. ASSUME NEW x \in Bip!Network(m)
      PROVE  x \in Bip!Nodes \X Bip!Nodes
  <2>1. <<x[1], x[2]>> \in Bip!Network(m)
    BY <1>2
  <2>2. x[1] \in Bip!Nodes /\ x[2] \in Bip!Nodes
    BY <2>1, <1>1
  <2> QED  BY <2>2, <1>2
<1> QED  BY <1>1, <1>3

LEMMA NewNetwork ==
  ASSUME minor' \in SUBSET (Bip!Rows \X Bip!Rows), residual' = Bip!Network(minor')
  PROVE  MinorType' /\ Oriented'
<1>1. /\ Bip!Network(minor') \in SUBSET (Bip!Nodes \X Bip!Nodes)
      /\ \A a, b : <<a, b>> \in Bip!Network(minor') => <<b, a>> \notin Bip!Network(minor')
  BY NetworkOneWay
<1> QED  BY <1>1 DEF MinorType, Oriented

\* Turning an edge round keeps the orientation.
LEMMA ReverseOriented ==
  ASSUME MinorType, Oriented, NEW c, NEW d, <<c, d>> \in residual,
         residual' = (residual \ {<<c, d>>}) \cup {<<d, c>>}, UNCHANGED minor
  PROVE  Oriented' /\ MinorType' /\ c # d
<1>1. c \in Bip!Nodes /\ d \in Bip!Nodes /\ c # d
  BY OrientedFacts, NodeFacts
<1>2. residual' \in SUBSET (Bip!Nodes \X Bip!Nodes)
  BY <1>1 DEF Oriented
<1>3. \A a, b : <<a, b>> \in residual' <=>
        (<<a, b>> \in residual /\ ~(a = c /\ b = d)) \/ (a = d /\ b = c)
  OBVIOUS
<1>4. ASSUME NEW a \in Bip!Nodes, NEW b \in Bip!Nodes
      PROVE  /\ <<a, b>> \in residual' => \/ <<a, b>> \in Bip!Network(minor)
                                          \/ <<b, a>> \in Bip!Network(minor)
             /\ <<a, b>> \in Bip!Network(minor) => (<<a, b>> \in residual' <=> <<b, a>> \notin residual')
  BY <1>1, <1>3 DEF Oriented
<1> QED  BY <1>1, <1>2, <1>4 DEF Oriented, MinorType

-----------------------------------------------------------------------------
(* Balance: a row or column takes in what it gives away.                   *)

RowBalanced(i) ==
  /\ <<i, Bip!Src>> \in residual <=> \E j \in Bip!Rows : Mated(i, j)
  /\ \A j, k \in Bip!Rows : Mated(i, j) /\ Mated(i, k) => j = k

ColBalanced(j) ==
  /\ <<Bip!Snk, ColNode(j)>> \in residual <=> \E i \in Bip!Rows : Mated(i, j)
  /\ \A i, k \in Bip!Rows : Mated(i, j) /\ Mated(k, j) => i = k

\* While a path is being turned round, from its end: the node reached so far
\* gives away one more than it takes in.
RowSurplus(i, P) ==
  \E b \in Bip!Rows :
    /\ Mated(i, b) /\ ColNode(b) \notin P
    /\ <<i, Bip!Src>> \in residual <=> \E j \in Bip!Rows \ {b} : Mated(i, j)
    /\ \A j, k \in Bip!Rows \ {b} : Mated(i, j) /\ Mated(i, k) => j = k

ColSurplus(j) ==
  /\ <<Bip!Snk, ColNode(j)>> \in residual
  /\ \A i \in Bip!Rows : ~Mated(i, j)

\* All is balanced but what stands at node v.
BalancedBut(v) ==
  /\ \A i \in Bip!Rows \ {v} : RowBalanced(i)
  /\ \A j \in Bip!Rows : ColNode(j) # v => ColBalanced(j)

LEMMA MatchedIsMated ==
  /\ Bip!Matched \subseteq Bip!Rows \X Bip!Rows
  /\ \A i, j \in Bip!Rows : <<i, j>> \in Bip!Matched <=> Mated(i, j)
  /\ IsFiniteSet(Bip!Matched) /\ Cardinality(Bip!Matched) \in Nat
<1>1. /\ Bip!Matched \subseteq Bip!Rows \X Bip!Rows
      /\ \A i, j \in Bip!Rows : <<i, j>> \in Bip!Matched <=> Mated(i, j)
  BY DEF Bip!Matched, Mated, ColNode
<1>2. IsFiniteSet(Bip!Rows)
  <2>1. 0 \in Int /\ S - 1 - 1 \in Int
    BY SizeAssumption
  <2> QED  BY <2>1, FS_Interval DEF Bip!Rows
<1>3. IsFiniteSet(Bip!Rows \X Bip!Rows)
  BY <1>2, FS_Product
<1>4. IsFiniteSet(Bip!Matched)
  BY <1>1, <1>3, FS_Subset
<1> QED  BY <1>1, <1>4, FS_CardinalityType

LEMMA MatchedCount ==
  ASSUME NEW i \in Bip!Rows, NEW j \in Bip!Rows,
         \A a, b \in Bip!Rows : ~(a = i /\ b = j) => (Mated(a, b)' <=> Mated(a, b))
  PROVE  /\ Mated(i, j)' /\ ~Mated(i, j) =>
              Cardinality(Bip!Matched)' = Cardinality(Bip!Matched) + 1
         /\ ~Mated(i, j)' /\ Mated(i, j) =>
              Cardinality(Bip!Matched)' = Cardinality(Bip!Matched) - 1
<1>1. /\ Bip!Matched' \subseteq Bip!Rows \X Bip!Rows
      /\ \A a, b \in Bip!Rows : <<a, b>> \in Bip!Matched' <=> Mated(a, b)'
  BY DEF Bip!Matched, Mated, ColNode
<1>2. \A e \in Bip!Rows \X Bip!Rows : e = <<e[1], e[2]>> /\ e[1] \in Bip!Rows /\ e[2] \in Bip!Rows
  OBVIOUS
<1>3. \A e \in Bip!Rows \X Bip!Rows : e # <<i, j>> => (e \in Bip!Matched' <=> e \in Bip!Matched)
  BY <1>1, <1>2, MatchedIsMated
<1>4. ASSUME Mated(i, j)', ~Mated(i, j)
      PROVE  Cardinality(Bip!Matched)' = Cardinality(Bip!Matched) + 1
  <2>1. Bip!Matched' = Bip!Matched \cup {<<i, j>>} /\ <<i, j>> \notin Bip!Matched
    BY <1>1, <1>2, <1>3, <1>4, MatchedIsMated
  <2> QED  BY <2>1, MatchedIsMated, FS_AddElement
<1>5. ASSUME ~Mated(i, j)', Mated(i, j)
      PROVE  Cardinality(Bip!Matched)' = Cardinality(Bip!Matched) - 1
  <2>1. Bip!Matched' = Bip!Matched \ {<<i, j>>} /\ <<i, j>> \in Bip!Matched
    BY <1>1, <1>2, <1>3, <1>5, MatchedIsMated
  <2> QED  BY <2>1, MatchedIsMated, FS_RemoveElement
<1> QED  BY <1>4, <1>5

\* Edges that are not turned round stay as they are.
LEMMA ReverseEffect ==
  ASSUME NEW c, NEW d, c # d, residual' = (residual \ {<<c, d>>}) \cup {<<d, c>>}
  PROVE  \A a, b : <<a, b>> \in residual' <=>
           (<<a, b>> \in residual /\ ~(a = c /\ b = d)) \/ (a = d /\ b = c)
OBVIOUS

LEMMA ReverseAtSink ==
  ASSUME MinorType, Oriented, BalancedBut(Bip!Snk), NEW j \in Bip!Rows,
         <<ColNode(j), Bip!Snk>> \in residual,
         residual' = (residual \ {<<ColNode(j), Bip!Snk>>}) \cup {<<Bip!Snk, ColNode(j)>>}
  PROVE  /\ BalancedBut(ColNode(j))' /\ ColSurplus(j)'
         /\ Cardinality(Bip!Matched)' = Cardinality(Bip!Matched)
<1> DEFINE c == ColNode(j)
           d == Bip!Snk
<1>0. \A a, b : <<a, b>> \in residual' <=>
        (<<a, b>> \in residual /\ ~(a = c /\ b = d)) \/ (a = d /\ b = c)
  BY ReverseEffect, NodeFacts
<1>1. \A a, b \in Bip!Rows : Mated(a, b)' <=> Mated(a, b)
  BY <1>0, NodeFacts DEF Mated
<1>2. \A a \in Bip!Rows : <<a, Bip!Src>> \in residual' <=> <<a, Bip!Src>> \in residual
  BY <1>0, NodeFacts
<1>3. \A b \in Bip!Rows : b # j =>
        (<<Bip!Snk, ColNode(b)>> \in residual' <=> <<Bip!Snk, ColNode(b)>> \in residual)
  BY <1>0, NodeFacts
<1>4. Cardinality(Bip!Matched)' = Cardinality(Bip!Matched)
  <2>1. /\ Bip!Matched' \subseteq Bip!Rows \X Bip!Rows
        /\ \A a, b \in Bip!Rows : <<a, b>> \in Bip!Matched' <=> Mated(a, b)'
    BY DEF Bip!Matched, Mated, ColNode
  <2>2. \A e \in Bip!Rows \X Bip!Rows : e = <<e[1], e[2]>> /\ e[1] \in Bip!Rows /\ e[2] \in Bip!Rows
    OBVIOUS
  <2>3. Bip!Matched' = Bip!Matched
    BY <1>1, <2>1, <2>2, MatchedIsMated
  <2> QED  BY <2>3
<1>5. \A a \in Bip!Rows : RowBalanced(a)'
  <2>1. \A a \in Bip!Rows : RowBalanced(a)
    BY NodeFacts DEF BalancedBut
  <2> QED  BY <2>1, <1>1, <1>2 DEF RowBalanced
<1>6. \A b \in Bip!Rows : ColBalanced(b)
  BY NodeFacts DEF BalancedBut
<1>7. \A b \in Bip!Rows : b # j => ColBalanced(b)'
  BY <1>1, <1>3, <1>6 DEF ColBalanced
<1>8. BalancedBut(ColNode(j))'
  BY <1>5, <1>7, NodeFacts DEF BalancedBut
<1>9. ColSurplus(j)'
  <2>1. <<Bip!Snk, ColNode(j)>> \notin residual
    BY OrientedFacts
  <2>2. \A i \in Bip!Rows : ~Mated(i, j)
    BY <2>1, <1>6 DEF ColBalanced
  <2>3. <<Bip!Snk, ColNode(j)>> \in residual'
    BY <1>0
  <2> QED  BY <2>2, <2>3, <1>1 DEF ColSurplus
<1> QED  BY <1>4, <1>8, <1>9

LEMMA ReverseToColumn ==
  ASSUME MinorType, Oriented, NEW j \in Bip!Rows, BalancedBut(ColNode(j)), ColSurplus(j),
         NEW i \in Bip!Rows, <<i, ColNode(j)>> \in residual,
         residual' = (residual \ {<<i, ColNode(j)>>}) \cup {<<ColNode(j), i>>},
         NEW P, ColNode(j) \notin P
  PROVE  /\ BalancedBut(i)' /\ RowSurplus(i, P)'
         /\ Cardinality(Bip!Matched)' = Cardinality(Bip!Matched) + 1
<1> DEFINE c == i
           d == ColNode(j)
<1>0. \A a, b : <<a, b>> \in residual' <=>
        (<<a, b>> \in residual /\ ~(a = c /\ b = d)) \/ (a = d /\ b = c)
  BY ReverseEffect, NodeFacts
<1>1. \A a, b \in Bip!Rows : Mated(a, b)' <=> Mated(a, b) \/ (a = i /\ b = j)
  BY <1>0, NodeFacts DEF Mated
<1>2. \A a \in Bip!Rows : <<a, Bip!Src>> \in residual' <=> <<a, Bip!Src>> \in residual
  BY <1>0, NodeFacts
<1>3. \A b \in Bip!Rows : <<Bip!Snk, ColNode(b)>> \in residual' <=> <<Bip!Snk, ColNode(b)>> \in residual
  BY <1>0, NodeFacts
<1>4. ~Mated(i, j) /\ Mated(i, j)'
  BY <1>1 DEF ColSurplus
<1>5. Cardinality(Bip!Matched)' = Cardinality(Bip!Matched) + 1
  BY <1>1, <1>4, MatchedCount
<1>6. \A a \in Bip!Rows : RowBalanced(a)
  BY NodeFacts DEF BalancedBut
<1>7. \A a \in Bip!Rows : a # i => RowBalanced(a)'
  BY <1>1, <1>2, <1>6 DEF RowBalanced
<1>8. \A b \in Bip!Rows : b # j => ColBalanced(b)'
  <2>1. \A b \in Bip!Rows : b # j => ColBalanced(b)
    BY NodeFacts DEF BalancedBut
  <2> QED  BY <1>1, <1>3, <2>1 DEF ColBalanced
<1>9. ColBalanced(j)'
  <2>1. \A a \in Bip!Rows : Mated(a, j)' <=> a = i
    BY <1>1 DEF ColSurplus
  <2>2. <<Bip!Snk, ColNode(j)>> \in residual'
    BY <1>3 DEF ColSurplus
  <2> QED  BY <2>1, <2>2 DEF ColBalanced
<1>10. BalancedBut(i)'
  BY <1>7, <1>8, <1>9 DEF BalancedBut
<1>11. \A b \in Bip!Rows \ {j} : Mated(i, b)' <=> Mated(i, b)
  BY <1>1
<1>12. RowBalanced(i)
  BY <1>6
<1>13. (\E b \in Bip!Rows : Mated(i, b)) <=> (\E b \in Bip!Rows \ {j} : Mated(i, b)')
  BY <1>4, <1>11
<1>14. RowSurplus(i, P)'
  <2>1. <<i, Bip!Src>> \in residual' <=> \E b \in Bip!Rows \ {j} : Mated(i, b)'
    BY <1>2, <1>12, <1>13 DEF RowBalanced
  <2>2. \A b, k \in Bip!Rows \ {j} : Mated(i, b)' /\ Mated(i, k)' => b = k
    BY <1>11, <1>12 DEF RowBalanced
  <2> QED  BY <1>4, <2>1, <2>2 DEF RowSurplus
<1> QED  BY <1>5, <1>10, <1>14

LEMMA ReverseToRow ==
  ASSUME MinorType, Oriented, NEW i \in Bip!Rows, NEW P, BalancedBut(i), RowSurplus(i, P),
         NEW k \in Bip!Rows, ColNode(k) \in P, <<ColNode(k), i>> \in residual,
         residual' = (residual \ {<<ColNode(k), i>>}) \cup {<<i, ColNode(k)>>}
  PROVE  /\ BalancedBut(ColNode(k))' /\ ColSurplus(k)'
         /\ Cardinality(Bip!Matched)' = Cardinality(Bip!Matched) - 1
<1> DEFINE c == ColNode(k)
           d == i
<1>0. \A a, b : <<a, b>> \in residual' <=>
        (<<a, b>> \in residual /\ ~(a = c /\ b = d)) \/ (a = d /\ b = c)
  BY ReverseEffect, NodeFacts
<1>1. \A a, b \in Bip!Rows : Mated(a, b)' <=> Mated(a, b) /\ ~(a = i /\ b = k)
  BY <1>0, NodeFacts DEF Mated
<1>2. \A a \in Bip!Rows : <<a, Bip!Src>> \in residual' <=> <<a, Bip!Src>> \in residual
  BY <1>0, NodeFacts
<1>3. \A b \in Bip!Rows : <<Bip!Snk, ColNode(b)>> \in residual' <=> <<Bip!Snk, ColNode(b)>> \in residual
  BY <1>0, NodeFacts
<1>4. Mated(i, k) /\ ~Mated(i, k)'
  BY <1>1 DEF Mated
<1>5. Cardinality(Bip!Matched)' = Cardinality(Bip!Matched) - 1
  BY <1>1, <1>4, MatchedCount
<1>6. \A a \in Bip!Rows : a # i => RowBalanced(a)
  BY DEF BalancedBut
<1>7. \A a \in Bip!Rows : a # i => RowBalanced(a)'
  BY <1>1, <1>2, <1>6 DEF RowBalanced
<1>8. \A b \in Bip!Rows : ColBalanced(b)
  BY NodeFacts DEF BalancedBut
<1>9. \A b \in Bip!Rows : b # k => ColBalanced(b)'
  BY <1>1, <1>3, <1>8 DEF ColBalanced
<1>10. PICK b \in Bip!Rows :
         /\ Mated(i, b) /\ ColNode(b) \notin P
         /\ <<i, Bip!Src>> \in residual <=> \E j \in Bip!Rows \ {b} : Mated(i, j)
         /\ \A j, l \in Bip!Rows \ {b} : Mated(i, j) /\ Mated(i, l) => j = l
  BY DEF RowSurplus
<1>11. b # k /\ <<i, Bip!Src>> \in residual
  BY <1>4, <1>10
<1>12. \A j \in Bip!Rows : Mated(i, j)' <=> j = b
  BY <1>1, <1>4, <1>10, <1>11
<1>13. RowBalanced(i)'
  BY <1>2, <1>11, <1>12 DEF RowBalanced
<1>14. BalancedBut(ColNode(k))'
  BY <1>7, <1>9, <1>13 DEF BalancedBut
<1>15. ColSurplus(k)'
  <2>1. <<Bip!Snk, ColNode(k)>> \in residual'
    BY <1>3, <1>4, <1>8 DEF ColBalanced
  <2>2. \A a \in Bip!Rows : ~Mated(a, k)'
    BY <1>1, <1>4, <1>8 DEF ColBalanced
  <2> QED  BY <2>1, <2>2 DEF ColSurplus
<1> QED  BY <1>5, <1>14, <1>15

LEMMA ReverseAtSource ==
  ASSUME MinorType, Oriented, NEW i \in Bip!Rows, NEW P, BalancedBut(i), RowSurplus(i, P),
         <<Bip!Src, i>> \in residual,
         residual' = (residual \ {<<Bip!Src, i>>}) \cup {<<i, Bip!Src>>}
  PROVE  /\ BalancedBut(Bip!Src)'
         /\ Cardinality(Bip!Matched)' = Cardinality(Bip!Matched)
<1> DEFINE c == Bip!Src
           d == i
<1>0. \A a, b : <<a, b>> \in residual' <=>
        (<<a, b>> \in residual /\ ~(a = c /\ b = d)) \/ (a = d /\ b = c)
  BY ReverseEffect, NodeFacts
<1>1. \A a, b \in Bip!Rows : Mated(a, b)' <=> Mated(a, b)
  BY <1>0, NodeFacts DEF Mated
<1>2. \A a \in Bip!Rows : a # i => (<<a, Bip!Src>> \in residual' <=> <<a, Bip!Src>> \in residual)
  BY <1>0, NodeFacts
<1>3. \A b \in Bip!Rows : <<Bip!Snk, ColNode(b)>> \in residual' <=> <<Bip!Snk, ColNode(b)>> \in residual
  BY <1>0, NodeFacts
<1>4. Cardinality(Bip!Matched)' = Cardinality(Bip!Matched)
  <2>1. /\ Bip!Matched' \subseteq Bip!Rows \X Bip!Rows
        /\ \A a, b \in Bip!Rows : <<a, b>> \in Bip!Matched' <=> Mated(a, b)'
    BY DEF Bip!Matched, Mated, ColNode
  <2>2. \A e \in Bip!Rows \X Bip!Rows : e = <<e[1], e[2]>> /\ e[1] \in Bip!Rows /\ e[2] \in Bip!Rows
    OBVIOUS
  <2>3. Bip!Matched' = Bip!Matched
    BY <1>1, <2>1, <2>2, MatchedIsMated
  <2> QED  BY <2>3
<1>5. \A b \in Bip!Rows : ColBalanced(b)'
  <2>1. \A b \in Bip!Rows : ColBalanced(b)
    BY NodeFacts DEF BalancedBut
  <2> QED  BY <2>1, <1>1, <1>3 DEF ColBalanced
<1>6. \A a \in Bip!Rows : a # i => RowBalanced(a)'
  <2>1. \A a \in Bip!Rows : a # i => RowBalanced(a)
    BY DEF BalancedBut
  <2> QED  BY <2>1, <1>1, <1>2 DEF RowBalanced
<1>7. PICK b \in Bip!Rows :
        /\ Mated(i, b) /\ ColNode(b) \notin P
        /\ <<i, Bip!Src>> \in residual <=> \E j \in Bip!Rows \ {b} : Mated(i, j)
  BY DEF RowSurplus
<1>8. <<i, Bip!Src>> \notin residual /\ <<i, Bip!Src>> \in residual'
  BY <1>0, OrientedFacts
<1>9. \A j \in Bip!Rows : Mated(i, j)' <=> j = b
  BY <1>1, <1>7, <1>8
<1>10. RowBalanced(i)'
  BY <1>8, <1>9 DEF RowBalanced
<1>11. BalancedBut(Bip!Src)'
  BY <1>5, <1>6, <1>10 DEF BalancedBut
<1> QED  BY <1>4, <1>11

-----------------------------------------------------------------------------
(* The search for an augmenting path.                                      *)

Visited == {v \in Bip!Nodes : prev[v] # Bip!None}

\* P holds the nodes of the path from the source to curr, which only prev[]
\* records: no smaller set that holds curr is closed under prev[].
PathSet(P) ==
  /\ P \in SUBSET Bip!Nodes
  /\ curr \in P /\ Bip!Src \in P /\ Bip!Snk \notin P
  /\ prev[Bip!Src] = Bip!Src
  /\ \A v \in P : prev[v] \in P
  /\ \A v \in P \ {Bip!Src} : prev[v] # curr /\ <<prev[v], v>> \in residual
  /\ \A v, w \in P \ {Bip!Src} : prev[v] = prev[w] => v = w
  /\ \A Q \in SUBSET P : curr \in Q /\ (\A v \in Q : prev[v] \in Q) => Q = P

\* The tree of the nodes visited.
Tree ==
  /\ prev \in [Bip!Nodes -> Bip!Nodes \cup {Bip!None}]
  /\ prev[Bip!Src] = Bip!Src /\ prev[Bip!Snk] = Bip!None
  /\ \A v \in Visited : prev[v] \in Visited
  /\ \A v \in Visited \ {Bip!Src} : <<prev[v], v>> \in residual

\* Where the search resumes: behind it all has been visited.
Exploring(P) ==
  /\ PathSet(P) /\ P \subseteq Visited
  /\ next \in 0 .. Bip!Size
  /\ \A v \in Visited \ P, w \in Bip!Nodes : <<v, w>> \in residual => w \in Visited
  /\ \A v \in P \ {Bip!Src}, w \in Bip!Nodes :
       w < v /\ <<prev[v], w>> \in residual => w \in Visited
  /\ \A w \in Bip!Nodes : w < next /\ <<curr, w>> \in residual => w \in Visited

Balanced == BalancedBut(Bip!Snk) /\ Cardinality(Bip!Matched) = matchingSize

\* The path is being turned round.
Turning ==
  \/ /\ next = Bip!Src /\ BalancedBut(Bip!Src)
     /\ Cardinality(Bip!Matched) = matchingSize + 1
  \/ /\ next # Bip!Src
     /\ \E P : /\ PathSet(P) /\ next \notin P /\ <<curr, next>> \in residual
               /\ BalancedBut(next)
               /\ \/ next = Bip!Snk /\ Cardinality(Bip!Matched) = matchingSize
                  \/ /\ \E j \in Bip!Rows : next = ColNode(j) /\ ColSurplus(j)
                     /\ Cardinality(Bip!Matched) = matchingSize
                  \/ /\ next \in Bip!Rows /\ RowSurplus(next, P)
                     /\ Cardinality(Bip!Matched) = matchingSize + 1

FlowInv ==
  /\ MinorType /\ Oriented /\ matchingSize \in Nat
  /\ pc \in {"search", "augment", "done"}
  /\ pc = "search" => Tree /\ Balanced /\ \E P : Exploring(P)
  /\ pc = "augment" => Turning
  /\ pc = "done" => /\ Tree /\ Balanced
                    /\ \A v \in Visited, w \in Bip!Nodes : <<v, w>> \in residual => w \in Visited

\* One node back on the path.
LEMMA PathShorter ==
  ASSUME NEW P, PathSet(P), curr # Bip!Src, NEW Q, Q = P \ {curr},
         curr' = prev[curr], prev' = prev,
         \A v \in Q \ {Bip!Src} : <<prev[v], v>> \in residual'
  PROVE  PathSet(Q)'
<1>1. prev[curr] \in Q /\ prev[curr] # curr
  BY DEF PathSet
<1>2. \A v \in Q : prev[v] \in Q
  BY DEF PathSet
<1>3. \A v \in Q \ {Bip!Src} : prev[v] # prev[curr]
  BY DEF PathSet
<1>4. ASSUME NEW R \in SUBSET Q, prev[curr] \in R, \A v \in R : prev[v] \in R
      PROVE  R = Q
  <2>1. R \cup {curr} \in SUBSET P /\ curr \in R \cup {curr}
    BY DEF PathSet
  <2>2. \A v \in R \cup {curr} : prev[v] \in R \cup {curr}
    BY <1>4
  <2>3. R \cup {curr} = P
    BY <2>1, <2>2 DEF PathSet
  <2> QED  BY <2>3
<1>5. /\ Q \in SUBSET Bip!Nodes /\ Bip!Src \in Q /\ Bip!Snk \notin Q
      /\ prev[Bip!Src] = Bip!Src
      /\ \A v, w \in Q \ {Bip!Src} : prev[v] = prev[w] => v = w
  BY DEF PathSet
<1> QED  BY <1>1, <1>2, <1>3, <1>4, <1>5 DEF PathSet

LEMMA PathLonger ==
  ASSUME NEW P, PathSet(P), P \subseteq Visited, Tree,
         NEW j \in Bip!Nodes, j \notin Visited, j # Bip!Snk, <<curr, j>> \in residual,
         prev' = [prev EXCEPT ![j] = curr], curr' = j, residual' = residual
  PROVE  PathSet(P \cup {j})'
<1> DEFINE Q == P \cup {j}
<1>0. j \notin P /\ curr # j /\ j # Bip!Src
  BY DEF PathSet
<1>1. prev'[j] = curr /\ \A v \in P : prev'[v] = prev[v]
  BY <1>0 DEF Tree, PathSet
<1>2. Q \in SUBSET Bip!Nodes /\ j \in Q /\ Bip!Src \in Q /\ Bip!Snk \notin Q
  BY DEF PathSet
<1>3. prev'[Bip!Src] = Bip!Src
  BY <1>1 DEF PathSet
<1>4. \A v \in Q : prev'[v] \in Q
  BY <1>1 DEF PathSet
<1>5. \A v \in Q \ {Bip!Src} : prev'[v] # j /\ <<prev'[v], v>> \in residual
  BY <1>0, <1>1 DEF PathSet
<1>6. \A v, w \in Q \ {Bip!Src} : prev'[v] = prev'[w] => v = w
  BY <1>0, <1>1 DEF PathSet
<1>7. ASSUME NEW R \in SUBSET Q, j \in R, \A v \in R : prev'[v] \in R
      PROVE  R = Q
  <2>1. curr \in R \ {j} /\ R \ {j} \in SUBSET P
    BY <1>0, <1>1, <1>7
  <2>2. \A v \in R \ {j} : prev[v] \in R \ {j}
    BY <2>1, <1>0, <1>1, <1>7 DEF PathSet
  <2>3. R \ {j} = P
    BY <2>1, <2>2 DEF PathSet
  <2> QED  BY <2>3, <1>7
<1> HIDE DEF Q
<1>8. PathSet(Q)'
  BY <1>2, <1>3, <1>4, <1>5, <1>6, <1>7 DEF PathSet
<1> QED  BY <1>8 DEF Q

LEMMA BalanceKept ==
  ASSUME residual' = residual
  PROVE  /\ \A v : BalancedBut(v)' <=> BalancedBut(v)
         /\ Cardinality(Bip!Matched)' = Cardinality(Bip!Matched)
         /\ MinorType /\ Oriented /\ UNCHANGED minor => MinorType' /\ Oriented'
BY DEF BalancedBut, RowBalanced, ColBalanced, Mated, Bip!Matched, MinorType, Oriented

LEMMA AdvanceInv == FlowInv /\ Bip!Advance => FlowInv'
<1> SUFFICES ASSUME FlowInv, Bip!Advance PROVE FlowInv'
  OBVIOUS
<1>1. /\ pc = "search" /\ next' = 0 /\ UNCHANGED <<minor, residual, matchingSize, pc>>
  BY DEF Bip!Advance
<1>2. PICK j \in Bip!Nodes : /\ Bip!FirstOpen(j) /\ j # Bip!Snk
                             /\ prev' = [prev EXCEPT ![j] = curr] /\ curr' = j
  BY DEF Bip!Advance
<1>3. MinorType /\ Oriented /\ matchingSize \in Nat /\ Tree /\ Balanced
  BY <1>1 DEF FlowInv
<1>4. PICK P : Exploring(P)
  BY <1>1 DEF FlowInv
<1>5. /\ <<curr, j>> \in residual /\ prev[j] = Bip!None /\ j \notin Visited
      /\ \A w \in next .. j - 1 : ~(curr # w /\ <<curr, w>> \in residual /\ prev[w] = Bip!None)
  BY <1>2 DEF Bip!FirstOpen, Bip!Open, Visited
<1>6. PathSet(P) /\ P \subseteq Visited /\ curr \in Visited /\ curr \in Bip!Nodes
  BY <1>4 DEF Exploring, PathSet
<1> DEFINE Q == P \cup {j}
<1>7. PathSet(Q)'
  BY <1>1, <1>2, <1>3, <1>5, <1>6, PathLonger
<1>8. /\ prev' \in [Bip!Nodes -> Bip!Nodes \cup {Bip!None}]
      /\ prev'[j] = curr /\ \A v \in Bip!Nodes : v # j => prev'[v] = prev[v]
  BY <1>2, <1>3, <1>6 DEF Tree
<1>9. Visited' = Visited \cup {j}
  BY <1>6, <1>8, NodeFacts DEF Visited
<1>10. j # Bip!Src /\ Bip!Src \in Visited /\ Bip!Src \in Bip!Nodes /\ Bip!Snk \in Bip!Nodes
       /\ Visited \subseteq Bip!Nodes
  BY <1>5, <1>6, NodeFacts DEF PathSet, Visited
<1>11. Tree'
  <2>1. prev'[Bip!Src] = Bip!Src /\ prev'[Bip!Snk] = Bip!None
    BY <1>2, <1>3, <1>8, <1>10 DEF Tree
  <2>2. \A v \in Visited' : prev'[v] \in Visited'
    BY <1>3, <1>5, <1>6, <1>8, <1>9, <1>10 DEF Tree
  <2>3. \A v \in Visited' \ {Bip!Src} : <<prev'[v], v>> \in residual
    BY <1>3, <1>5, <1>8, <1>9, <1>10 DEF Tree
  <2> QED  BY <2>1, <2>2, <2>3, <1>1, <1>8 DEF Tree
<1>12. \A v \in Bip!Nodes : v \in Nat
  BY NodeFacts
<1>13. \A w \in Bip!Nodes : w < j /\ <<curr, w>> \in residual => w \in Visited
  <2> SUFFICES ASSUME NEW w \in Bip!Nodes, w < j, <<curr, w>> \in residual PROVE w \in Visited
    OBVIOUS
  <2>1. CASE w < next
    BY <2>1, <1>4 DEF Exploring
  <2>2. CASE ~(w < next)
    <3>1. next \in Nat /\ w \in Nat /\ j \in Nat
      BY <1>4, <1>12, NodeFacts DEF Exploring
    <3>2. w \in next .. j - 1
      BY <2>2, <3>1
    <3> QED  BY <3>2, <1>5, <1>6 DEF Visited
  <2> QED  BY <2>1, <2>2
<1>14. Exploring(Q)'
  <2>1. Q \subseteq Visited' /\ next' \in 0 .. Bip!Size
    BY <1>1, <1>6, <1>9, NodeFacts
  <2>2. \A v \in Visited' \ Q, w \in Bip!Nodes : <<v, w>> \in residual => w \in Visited'
    BY <1>4, <1>9 DEF Exploring
  <2>3. \A v \in Q \ {Bip!Src}, w \in Bip!Nodes : w < v /\ <<prev'[v], w>> \in residual => w \in Visited'
    <3> SUFFICES ASSUME NEW v \in Q \ {Bip!Src}, NEW w \in Bip!Nodes,
                        w < v, <<prev'[v], w>> \in residual
                 PROVE  w \in Visited'
      OBVIOUS
    <3>1. CASE v = j
      BY <3>1, <1>8, <1>9, <1>13
    <3>2. CASE v # j
      <4>1. v \in P \ {Bip!Src} /\ prev'[v] = prev[v]
        BY <3>2, <1>6, <1>8, <1>10
      <4> QED  BY <4>1, <1>4, <1>9 DEF Exploring
    <3> QED  BY <3>1, <3>2
  <2>4. \A w \in Bip!Nodes : ~(w < next')
    BY <1>1, <1>12
  <2> HIDE DEF Q
  <2> QED  BY <2>1, <2>2, <2>3, <2>4, <1>1, <1>7 DEF Exploring
<1>15. Balanced' /\ MinorType' /\ Oriented' /\ matchingSize' \in Nat
  BY <1>1, <1>3, BalanceKept DEF Balanced
<1> HIDE DEF Q
<1> QED  BY <1>1, <1>11, <1>14, <1>15 DEF FlowInv

LEMMA BacktrackInv == FlowInv /\ Bip!Backtrack => FlowInv'
<1> SUFFICES ASSUME FlowInv, Bip!Backtrack PROVE FlowInv'
  OBVIOUS
<1>1. /\ pc = "search" /\ curr # Bip!Src /\ next' = curr + 1 /\ curr' = prev[curr]
      /\ UNCHANGED <<minor, residual, prev, matchingSize, pc>>
      /\ \A w \in next .. Bip!Size - 1 : ~(curr # w /\ <<curr, w>> \in residual /\ prev[w] = Bip!None)
  BY DEF Bip!Backtrack, Bip!Open
<1>3. MinorType /\ Oriented /\ matchingSize \in Nat /\ Tree /\ Balanced
  BY <1>1 DEF FlowInv
<1>4. PICK P : Exploring(P)
  BY <1>1 DEF FlowInv
<1>6. PathSet(P) /\ P \subseteq Visited /\ curr \in Visited /\ curr \in Bip!Nodes /\ curr \in P
  BY <1>4 DEF Exploring, PathSet
<1>7. PICK Q : Q = P \ {curr}
  OBVIOUS
<1>8. PathSet(Q)'
  <2>1. \A v \in Q \ {Bip!Src} : <<prev[v], v>> \in residual'
    BY <1>1, <1>6, <1>7 DEF PathSet
  <2> QED  BY <2>1, <1>1, <1>6, <1>7, PathShorter
<1>9. Visited' = Visited
  BY <1>1 DEF Visited
<1>10. \A v \in Bip!Nodes : v \in Nat
  BY NodeFacts
<1>11. \A w \in Bip!Nodes : <<curr, w>> \in residual => w \in Visited
  <2> SUFFICES ASSUME NEW w \in Bip!Nodes, <<curr, w>> \in residual PROVE w \in Visited
    OBVIOUS
  <2>1. CASE w < next
    BY <2>1, <1>4 DEF Exploring
  <2>2. CASE ~(w < next)
    <3>1. next \in Nat /\ w \in 0 .. Bip!Size - 1 /\ Bip!Size \in Nat
      BY <1>4, NodeFacts DEF Exploring
    <3>2. w \in next .. Bip!Size - 1
      BY <2>2, <3>1
    <3> QED  BY <3>2, <1>1, <1>6 DEF Visited
  <2> QED  BY <2>1, <2>2
<1>12. \A w \in Bip!Nodes : w < curr + 1 /\ <<prev[curr], w>> \in residual => w \in Visited
  <2> SUFFICES ASSUME NEW w \in Bip!Nodes, w < curr + 1, <<prev[curr], w>> \in residual
               PROVE  w \in Visited
    OBVIOUS
  <2>1. w < curr \/ w = curr
    BY <1>6, <1>10
  <2> QED  BY <2>1, <1>1, <1>4, <1>6 DEF Exploring
<1>13. Exploring(Q)'
  <2>1. Q \subseteq Visited
    BY <1>6, <1>7
  <2>2. curr + 1 \in 0 .. Bip!Size
    <3>1. curr \in 0 .. Bip!Size - 1 /\ Bip!Size \in Nat
      BY <1>6, NodeFacts
    <3> QED  BY <3>1
  <2>3. \A v \in Visited \ Q, w \in Bip!Nodes : <<v, w>> \in residual => w \in Visited
    BY <1>4, <1>7, <1>11 DEF Exploring
  <2>4. \A v \in Q \ {Bip!Src}, w \in Bip!Nodes : w < v /\ <<prev[v], w>> \in residual => w \in Visited
    BY <1>4, <1>7 DEF Exploring
  <2> QED  BY <2>1, <2>2, <2>3, <2>4, <1>1, <1>8, <1>9, <1>12 DEF Exploring
<1>14. Tree'
  BY <1>1, <1>3, <1>9 DEF Tree
<1>15. Balanced' /\ MinorType' /\ Oriented' /\ matchingSize' \in Nat
  BY <1>1, <1>3, BalanceKept DEF Balanced
<1> QED  BY <1>1, <1>13, <1>14, <1>15 DEF FlowInv

LEMMA FoundSinkInv == FlowInv /\ Bip!FoundSink => FlowInv'
<1> SUFFICES ASSUME FlowInv, Bip!FoundSink PROVE FlowInv'
  OBVIOUS
<1>1. /\ pc = "search" /\ next' = Bip!Snk /\ pc' = "augment"
      /\ UNCHANGED <<minor, residual, prev, curr, matchingSize>>
      /\ <<curr, Bip!Snk>> \in residual
  BY DEF Bip!FoundSink, Bip!FirstOpen, Bip!Open
<1>2. MinorType /\ Oriented /\ matchingSize \in Nat /\ Balanced
  BY <1>1 DEF FlowInv
<1>3. PICK P : PathSet(P)
  BY <1>1 DEF FlowInv, Exploring
<1>4. PathSet(P)'
  BY <1>1, <1>3 DEF PathSet
<1>5. Bip!Snk \notin P /\ Bip!Snk # Bip!Src
  BY <1>3, NodeFacts DEF PathSet
<1>6. BalancedBut(next)'
  BY <1>1, <1>2 DEF Balanced, BalancedBut, RowBalanced, ColBalanced, Mated
<1>7. Cardinality(Bip!Matched)' = matchingSize
  BY <1>1, <1>2, BalanceKept DEF Balanced
<1>8. Turning'
  <2>1. next' # Bip!Src /\ next' \notin P /\ <<curr', next'>> \in residual'
    BY <1>1, <1>5
  <2> QED  BY <2>1, <1>1, <1>4, <1>6, <1>7 DEF Turning
<1>9. MinorType' /\ Oriented' /\ matchingSize' \in Nat
  BY <1>1, <1>2, BalanceKept
<1> QED  BY <1>1, <1>8, <1>9 DEF FlowInv

LEMMA ReverseEdgeInv == FlowInv /\ Bip!ReverseEdge => FlowInv'
<1> SUFFICES ASSUME FlowInv, Bip!ReverseEdge PROVE FlowInv'
  OBVIOUS
<1>1. /\ pc = "augment" /\ next # Bip!Src
      /\ residual' = (residual \ {<<curr, next>>}) \cup {<<next, curr>>}
      /\ next' = curr /\ curr' = prev[curr]
      /\ UNCHANGED <<minor, prev, matchingSize, pc>>
  BY DEF Bip!ReverseEdge
<1>2. MinorType /\ Oriented /\ matchingSize \in Nat /\ Turning
  BY <1>1 DEF FlowInv
<1>3. PICK P : /\ PathSet(P) /\ next \notin P /\ <<curr, next>> \in residual
               /\ BalancedBut(next)
               /\ \/ next = Bip!Snk /\ Cardinality(Bip!Matched) = matchingSize
                  \/ /\ \E j \in Bip!Rows : next = ColNode(j) /\ ColSurplus(j)
                     /\ Cardinality(Bip!Matched) = matchingSize
                  \/ /\ next \in Bip!Rows /\ RowSurplus(next, P)
                     /\ Cardinality(Bip!Matched) = matchingSize + 1
  BY <1>1, <1>2 DEF Turning
<1>4. MinorType' /\ Oriented' /\ curr # next
  BY <1>1, <1>2, <1>3, ReverseOriented
<1>5. PICK Q : Q = P \ {curr}
  OBVIOUS
<1>6. PICK c, d : c = curr /\ d = next
  OBVIOUS
<1>7. curr \in P /\ Bip!Snk \notin P /\ curr # Bip!Snk
  BY <1>3 DEF PathSet
<1>8. \/ c = Bip!Src /\ d \in Bip!Rows
      \/ d = Bip!Snk /\ \E j \in Bip!Rows : c = ColNode(j)
      \/ c \in Bip!Rows /\ \E j \in Bip!Rows : d = ColNode(j)
      \/ d \in Bip!Rows /\ \E j \in Bip!Rows : c = ColNode(j)
  BY <1>1, <1>2, <1>3, <1>6, <1>7, OrientedFacts
<1>9. matchingSize' = matchingSize /\ matchingSize \in Nat
  BY <1>1, <1>2
\* What is left of the path.
<1>10. ASSUME curr # Bip!Src
       PROVE  PathSet(Q)' /\ next' \notin Q /\ <<curr', next'>> \in residual' /\ next' # Bip!Src
  <2>1. \A v \in Q \ {Bip!Src} : <<prev[v], v>> \in residual'
    BY <1>1, <1>3, <1>5 DEF PathSet
  <2>2. PathSet(Q)'
    BY <1>1, <1>3, <1>5, <1>10, <2>1, PathShorter
  <2>3. <<prev[curr], curr>> \in residual
    BY <1>3, <1>7, <1>10 DEF PathSet
  <2>4. <<prev[curr], curr>> \in residual'
    BY <2>3, <1>1, <1>4
  <2> QED  BY <2>2, <2>4, <1>1, <1>5, <1>10
<1>11. CASE d = Bip!Snk /\ \E j \in Bip!Rows : c = ColNode(j)
  <2>1. PICK j \in Bip!Rows : c = ColNode(j)
    BY <1>11
  <2>2. Cardinality(Bip!Matched) = matchingSize
    BY <1>3, <1>6, <1>11, NodeFacts
  <2>3. /\ BalancedBut(ColNode(j))' /\ ColSurplus(j)'
        /\ Cardinality(Bip!Matched)' = Cardinality(Bip!Matched)
    BY <1>1, <1>2, <1>3, <1>6, <1>11, <2>1, ReverseAtSink
  <2>4. curr # Bip!Src /\ next' = ColNode(j) /\ ColNode(j)' = ColNode(j)
    BY <1>1, <1>6, <2>1, NodeFacts DEF ColNode
  <2>5. BalancedBut(next)'
    BY <2>3, <2>4 DEF BalancedBut, RowBalanced, ColBalanced, Mated, ColNode
  <2>6. Turning'
    BY <1>9, <1>10, <2>2, <2>3, <2>4, <2>5 DEF Turning
  <2> QED  BY <2>6, <1>1, <1>4, <1>9 DEF FlowInv
<1>12. CASE c \in Bip!Rows /\ \E j \in Bip!Rows : d = ColNode(j)
  <2>1. PICK j \in Bip!Rows : d = ColNode(j)
    BY <1>12
  <2>2. ColSurplus(j) /\ Cardinality(Bip!Matched) = matchingSize
    BY <1>3, <1>6, <2>1, NodeFacts
  <2>3. ColNode(j) \notin Q
    BY <1>3, <1>5, <1>6, <2>1
  <2>4. /\ BalancedBut(c)' /\ RowSurplus(c, Q)'
        /\ Cardinality(Bip!Matched)' = Cardinality(Bip!Matched) + 1
    BY <1>1, <1>2, <1>3, <1>6, <1>12, <2>1, <2>2, <2>3, ReverseToColumn
  <2>5. curr # Bip!Src /\ next' = c /\ next' \in Bip!Rows
    BY <1>1, <1>6, <1>12, NodeFacts
  <2>6. BalancedBut(next)' /\ RowSurplus(next, Q)'
    BY <2>4, <2>5 DEF BalancedBut, RowSurplus
  <2>7. Turning'
    BY <1>9, <1>10, <2>2, <2>4, <2>5, <2>6 DEF Turning
  <2> QED  BY <2>7, <1>1, <1>4, <1>9 DEF FlowInv
<1>13. CASE d \in Bip!Rows /\ \E j \in Bip!Rows : c = ColNode(j)
  <2>1. PICK j \in Bip!Rows : c = ColNode(j)
    BY <1>13
  <2>2. RowSurplus(d, P) /\ Cardinality(Bip!Matched) = matchingSize + 1 /\ BalancedBut(d)
    BY <1>3, <1>6, <1>13, NodeFacts
  <2>3. /\ BalancedBut(ColNode(j))' /\ ColSurplus(j)'
        /\ Cardinality(Bip!Matched)' = Cardinality(Bip!Matched) - 1
    BY <1>1, <1>2, <1>3, <1>6, <1>7, <1>13, <2>1, <2>2, ReverseToRow
  <2>4. curr # Bip!Src /\ next' = ColNode(j)
    BY <1>1, <1>6, <2>1, NodeFacts
  <2>5. BalancedBut(next)'
    BY <2>3, <2>4 DEF BalancedBut, RowBalanced, ColBalanced, Mated, ColNode
  <2>6. Cardinality(Bip!Matched)' = matchingSize
    BY <2>2, <2>3, <1>9
  <2>7. Turning'
    BY <1>9, <1>10, <2>3, <2>4, <2>5, <2>6 DEF Turning, ColNode
  <2> QED  BY <2>7, <1>1, <1>4, <1>9 DEF FlowInv
<1>14. CASE c = Bip!Src /\ d \in Bip!Rows
  <2>1. RowSurplus(d, P) /\ Cardinality(Bip!Matched) = matchingSize + 1 /\ BalancedBut(d)
    BY <1>3, <1>6, <1>14, NodeFacts
  <2>2. BalancedBut(Bip!Src)' /\ Cardinality(Bip!Matched)' = Cardinality(Bip!Matched)
    BY <1>1, <1>2, <1>3, <1>6, <1>14, <2>1, ReverseAtSource
  <2>3. Turning'
    BY <1>1, <1>6, <1>14, <2>1, <2>2 DEF Turning, Bip!Src
  <2> QED  BY <2>3, <1>1, <1>4, <1>9 DEF FlowInv
<1> QED  BY <1>8, <1>11, <1>12, <1>13, <1>14

\* A search that has not begun.
LEMMA FreshSearch ==
  ASSUME prev' = Bip!Fresh, curr' = Bip!Src, next' = 0
  PROVE  Tree' /\ \E P : Exploring(P)'
<1>1. /\ prev' \in [Bip!Nodes -> Bip!Nodes \cup {Bip!None}]
      /\ \A v \in Bip!Nodes : prev'[v] = IF v = Bip!Src THEN Bip!Src ELSE Bip!None
  BY NodeFacts DEF Bip!Fresh
<1>2. Visited' = {Bip!Src} /\ Bip!Src \in Bip!Nodes /\ Bip!Snk \in Bip!Nodes /\ Bip!Src # Bip!Snk
  BY <1>1, NodeFacts DEF Visited
<1>3. prev'[Bip!Src] = Bip!Src /\ prev'[Bip!Snk] = Bip!None
  BY <1>1, <1>2
<1>4. Tree'
  BY <1>1, <1>2, <1>3 DEF Tree
<1> DEFINE P == {Bip!Src}
<1>5. \A Q \in SUBSET P : curr' \in Q => Q = P
  OBVIOUS
<1>6. PathSet(P)'
  BY <1>2, <1>3, <1>5 DEF PathSet
<1>7. \A w \in Bip!Nodes : ~(w < next')
  BY NodeFacts
<1>8. next' \in 0 .. Bip!Size
  BY NodeFacts
<1>9. Exploring(P)'
  BY <1>2, <1>6, <1>7, <1>8 DEF Exploring
<1> QED  BY <1>4, <1>9

LEMMA AugmentedInv == FlowInv /\ Bip!Augmented => FlowInv'
<1> SUFFICES ASSUME FlowInv, Bip!Augmented PROVE FlowInv'
  OBVIOUS
<1>1. /\ pc = "augment" /\ next = Bip!Src /\ matchingSize' = matchingSize + 1
      /\ prev' = Bip!Fresh /\ curr' = Bip!Src /\ next' = 0 /\ pc' = "search"
      /\ UNCHANGED <<minor, residual>>
  BY DEF Bip!Augmented
<1>2. MinorType /\ Oriented /\ matchingSize \in Nat /\ Turning
  BY <1>1 DEF FlowInv
<1>3. BalancedBut(Bip!Src) /\ Cardinality(Bip!Matched) = matchingSize + 1
  BY <1>1, <1>2 DEF Turning
<1>4. BalancedBut(Bip!Snk)
  BY <1>3, NodeFacts DEF BalancedBut
<1>5. BalancedBut(Bip!Snk)' /\ Cardinality(Bip!Matched)' = matchingSize'
  <2>1. BalancedBut(Bip!Snk)'
    BY <1>1, <1>4 DEF BalancedBut, RowBalanced, ColBalanced, Mated
  <2> QED  BY <2>1, <1>1, <1>3, BalanceKept
<1>6. Tree' /\ \E P : Exploring(P)'
  BY <1>1, FreshSearch
<1>7. MinorType' /\ Oriented' /\ matchingSize' \in Nat
  BY <1>1, <1>2, BalanceKept
<1> QED  BY <1>1, <1>5, <1>6, <1>7 DEF FlowInv, Balanced

LEMMA NoPathInv == FlowInv /\ Bip!NoPath => FlowInv'
<1> SUFFICES ASSUME FlowInv, Bip!NoPath PROVE FlowInv'
  OBVIOUS
<1>1. /\ pc = "search" /\ curr = Bip!Src /\ pc' = "done"
      /\ UNCHANGED <<minor, residual, prev, curr, next, matchingSize>>
      /\ \A w \in next .. Bip!Size - 1 : ~(curr # w /\ <<curr, w>> \in residual /\ prev[w] = Bip!None)
  BY DEF Bip!NoPath, Bip!Open
<1>2. MinorType /\ Oriented /\ matchingSize \in Nat /\ Tree /\ Balanced
  BY <1>1 DEF FlowInv
<1>3. PICK P : Exploring(P)
  BY <1>1 DEF FlowInv
<1>4. PathSet(P) /\ P \subseteq Visited /\ curr \in Visited
  BY <1>3 DEF Exploring, PathSet
<1>5. P = {Bip!Src}
  <2>1. {Bip!Src} \in SUBSET P /\ curr \in {Bip!Src} /\ \A v \in {Bip!Src} : prev[v] \in {Bip!Src}
    BY <1>1, <1>4 DEF PathSet
  <2> QED  BY <2>1, <1>4 DEF PathSet
<1>6. \A w \in Bip!Nodes : <<curr, w>> \in residual => w \in Visited
  <2> SUFFICES ASSUME NEW w \in Bip!Nodes, <<curr, w>> \in residual PROVE w \in Visited
    OBVIOUS
  <2>1. CASE w < next
    BY <2>1, <1>3 DEF Exploring
  <2>2. CASE ~(w < next)
    <3>1. next \in Nat /\ w \in 0 .. Bip!Size - 1 /\ Bip!Size \in Nat
      BY <1>3, NodeFacts DEF Exploring
    <3>2. w \in next .. Bip!Size - 1
      BY <2>2, <3>1
    <3> QED  BY <3>2, <1>1, <1>4 DEF Visited
  <2> QED  BY <2>1, <2>2
<1>7. \A v \in Visited, w \in Bip!Nodes : <<v, w>> \in residual => w \in Visited
  BY <1>1, <1>3, <1>5, <1>6 DEF Exploring
<1>8. Visited' = Visited
  BY <1>1 DEF Visited
<1>9. Tree'
  BY <1>1, <1>2, <1>8 DEF Tree
<1>10. Balanced' /\ MinorType' /\ Oriented' /\ matchingSize' \in Nat
  BY <1>1, <1>2, BalanceKept DEF Balanced
<1> QED  BY <1>1, <1>7, <1>8, <1>9, <1>10 DEF FlowInv

\* The first search for a minor starts without any flow.
LEMMA NewTest ==
  ASSUME minor' \in SUBSET (Bip!Rows \X Bip!Rows), residual' = Bip!Network(minor'),
         prev' = Bip!Fresh, curr' = Bip!Src, next' = 0, matchingSize' = 0, pc' = "search"
  PROVE  FlowInv'
<1>1. MinorType' /\ Oriented'
  BY NewNetwork
<1>2. \A a, b : <<a, b>> \in residual' <=>
        \/ a = Bip!Src /\ b \in Bip!Rows
        \/ b = Bip!Snk /\ \E j \in Bip!Rows : a = ColNode(j)
        \/ a \in Bip!Rows /\ \E j \in Bip!Rows : b = ColNode(j) /\ <<a, j>> \in minor'
  BY NetworkEdges
<1>3. /\ \A i, j \in Bip!Rows : ~Mated(i, j)'
      /\ \A i \in Bip!Rows : <<i, Bip!Src>> \notin residual'
      /\ \A j \in Bip!Rows : <<Bip!Snk, ColNode(j)>> \notin residual'
  <2>1. \A i, j \in Bip!Rows : <<ColNode(j), i>> \notin residual'
    BY <1>2, NodeFacts
  <2>2. \A i, j \in Bip!Rows : ~Mated(i, j)'
    BY <2>1 DEF Mated, ColNode
  <2>3. \A i \in Bip!Rows : <<i, Bip!Src>> \notin residual'
    <3> SUFFICES ASSUME NEW i \in Bip!Rows, <<i, Bip!Src>> \in residual' PROVE FALSE
      OBVIOUS
    <3>1. \/ i = Bip!Src /\ Bip!Src \in Bip!Rows
          \/ Bip!Src = Bip!Snk /\ \E j \in Bip!Rows : i = ColNode(j)
          \/ i \in Bip!Rows /\ \E j \in Bip!Rows : Bip!Src = ColNode(j) /\ <<i, j>> \in minor'
      BY <1>2
    <3> QED  BY <3>1, NodeFacts
  <2>4. \A j \in Bip!Rows : <<Bip!Snk, ColNode(j)>> \notin residual'
    BY <1>2, NodeFacts
  <2> QED  BY <2>2, <2>3, <2>4
<1>4. BalancedBut(Bip!Snk)'
  BY <1>3 DEF BalancedBut, RowBalanced, ColBalanced
<1>5. Cardinality(Bip!Matched)' = 0
  <2>1. Bip!Matched' = {}
    BY <1>3 DEF Bip!Matched, Mated, ColNode
  <2> QED  BY <2>1, FS_EmptySet
<1>6. Tree' /\ \E P : Exploring(P)'
  BY FreshSearch
<1> QED  BY <1>1, <1>4, <1>5, <1>6 DEF FlowInv, Balanced

LEMMA FlowKept ==
  ASSUME FlowInv, UNCHANGED <<minor, residual, prev, curr, next, matchingSize, pc>>
  PROVE  FlowInv'
<1>1. MinorType' /\ Oriented' /\ matchingSize' \in Nat /\ pc' \in {"search", "augment", "done"}
  BY BalanceKept DEF FlowInv
<1>2. Visited' = Visited
  BY DEF Visited
<1>3. \A v : BalancedBut(v)' <=> BalancedBut(v)
  BY BalanceKept
<1>4. Cardinality(Bip!Matched)' = Cardinality(Bip!Matched)
  BY BalanceKept
<1>5. Balanced' <=> Balanced
  <2>1. BalancedBut(Bip!Snk)' <=> BalancedBut(Bip!Snk)
    BY <1>3
  <2> QED  BY <2>1, <1>4 DEF Balanced
<1>6. Tree' <=> Tree
  BY <1>2 DEF Tree
<1>7. \A P : PathSet(P)' <=> PathSet(P)
  BY DEF PathSet
<1>8. \A P : Exploring(P)' <=> Exploring(P)
  BY <1>2, <1>7 DEF Exploring
<1>9. Turning => Turning'
  <2>1. CASE next = Bip!Src /\ BalancedBut(Bip!Src) /\ Cardinality(Bip!Matched) = matchingSize + 1
    <3>1. BalancedBut(Bip!Src)'
      BY <2>1, <1>3
    <3> QED  BY <2>1, <3>1, <1>4 DEF Turning
  <2>2. ASSUME NEW P, next # Bip!Src, PathSet(P), next \notin P, <<curr, next>> \in residual,
               BalancedBut(next),
               \/ next = Bip!Snk /\ Cardinality(Bip!Matched) = matchingSize
               \/ /\ \E j \in Bip!Rows : next = ColNode(j) /\ ColSurplus(j)
                  /\ Cardinality(Bip!Matched) = matchingSize
               \/ /\ next \in Bip!Rows /\ RowSurplus(next, P)
                  /\ Cardinality(Bip!Matched) = matchingSize + 1
        PROVE  Turning'
    <3>1. BalancedBut(next)'
      BY <2>2, <1>3 DEF BalancedBut, RowBalanced, ColBalanced, Mated
    <3>2. \A j : ColSurplus(j)' <=> ColSurplus(j)
      BY DEF ColSurplus, Mated
    <3>3. RowSurplus(next, P)' <=> RowSurplus(next, P)
      BY DEF RowSurplus, Mated
    <3>4. PathSet(P)'
      BY <2>2, <1>7
    <3>5. \/ next' = Bip!Snk /\ Cardinality(Bip!Matched)' = matchingSize'
          \/ /\ \E j \in Bip!Rows : next' = ColNode(j) /\ ColSurplus(j)'
             /\ Cardinality(Bip!Matched)' = matchingSize'
          \/ /\ next' \in Bip!Rows /\ RowSurplus(next, P)'
             /\ Cardinality(Bip!Matched)' = matchingSize' + 1
      BY <2>2, <3>2, <3>3, <1>4
    <3>6. next' # Bip!Src /\ next' \notin P /\ <<curr', next'>> \in residual'
      BY <2>2
    <3> QED  BY <3>1, <3>4, <3>5, <3>6 DEF Turning, ColNode
  <2> QED  BY <2>1, <2>2 DEF Turning
<1> QED  BY <1>1, <1>2, <1>5, <1>6, <1>8, <1>9 DEF FlowInv

-----------------------------------------------------------------------------
(* What the search has found when it is done.                              *)

LEMMA BalancedMatching ==
  ASSUME MinorType, Oriented, BalancedBut(Bip!Snk)
  PROVE  /\ \A i, j \in Bip!Rows : Mated(i, j) => <<i, j>> \in minor
         /\ \A i, j, k \in Bip!Rows : Mated(i, j) /\ Mated(i, k) => j = k
         /\ \A i, j, k \in Bip!Rows : Mated(i, k) /\ Mated(j, k) => i = j
<1>1. \A i, j \in Bip!Rows : Mated(i, j) => <<i, j>> \in minor
  BY OrientedFacts
<1>2. \A i \in Bip!Rows : RowBalanced(i) /\ ColBalanced(i)
  BY NodeFacts DEF BalancedBut
<1> QED  BY <1>1, <1>2 DEF RowBalanced, ColBalanced

\* Between two searches the flow is a matching of the size counted.
LEMMA FlowMatches == FlowInv => Bip!FlowIsMatching
<1> SUFFICES ASSUME FlowInv, pc = "search"
             PROVE  /\ Bip!Matched \subseteq minor /\ Cardinality(Bip!Matched) = matchingSize
                    /\ \A d, e \in Bip!Matched : d[1] = e[1] \/ d[2] = e[2] => d = e
  <2>1. Bip!Cardinality(Bip!Matched) = Cardinality(Bip!Matched)
    BY DEF Bip!Cardinality, Cardinality
  <2> QED  BY <2>1 DEF Bip!FlowIsMatching
<1>1. MinorType /\ Oriented /\ BalancedBut(Bip!Snk) /\ Cardinality(Bip!Matched) = matchingSize
  BY DEF FlowInv, Balanced
<1>2. \A e \in Bip!Matched : /\ e = <<e[1], e[2]>> /\ e[1] \in Bip!Rows /\ e[2] \in Bip!Rows
                             /\ Mated(e[1], e[2])
  BY MatchedIsMated
<1>3. Bip!Matched \subseteq minor
  BY <1>1, <1>2, BalancedMatching
<1>4. \A d, e \in Bip!Matched : d[1] = e[1] \/ d[2] = e[2] => d = e
  <2> SUFFICES ASSUME NEW d \in Bip!Matched, NEW e \in Bip!Matched, d[1] = e[1] \/ d[2] = e[2]
               PROVE  d[1] = e[1] /\ d[2] = e[2]
    BY <1>2
  <2> QED  BY <1>1, <1>2, BalancedMatching
<1> QED  BY <1>1, <1>3, <1>4

\* The matching is as large as the set of the rows it matches.
LEMMA MatchedRows ==
  ASSUME MinorType, Oriented, BalancedBut(Bip!Snk)
  PROVE  Cardinality(Bip!Matched) = S - 1 <=> \A i \in Bip!Rows : \E j \in Bip!Rows : Mated(i, j)
<1> DEFINE D == {i \in Bip!Rows : \E j \in Bip!Rows : Mated(i, j)}
           f == [e \in Bip!Matched |-> e[1]]
<1>1. IsFiniteSet(Bip!Rows) /\ Cardinality(Bip!Rows) = S - 1
  <2>1. 0 \in Int /\ S - 1 - 1 \in Int
    BY SizeAssumption
  <2>2. IsFiniteSet(0 .. S - 1 - 1)
        /\ Cardinality(0 .. S - 1 - 1) = IF 0 > S - 1 - 1 THEN 0 ELSE S - 1 - 1 - 0 + 1
    BY <2>1, FS_Interval
  <2> QED  BY <2>2, SizeAssumption DEF Bip!Rows
<1>2. \A e \in Bip!Matched : /\ e = <<e[1], e[2]>> /\ e[1] \in Bip!Rows /\ e[2] \in Bip!Rows
                             /\ Mated(e[1], e[2])
  BY MatchedIsMated
<1>3. f \in [Bip!Matched -> D]
  BY <1>2
<1>4. \A d, e \in Bip!Matched : f[d] = f[e] => d = e
  <2> SUFFICES ASSUME NEW d \in Bip!Matched, NEW e \in Bip!Matched, d[1] = e[1]
               PROVE  d[2] = e[2]
    BY <1>2
  <2> QED  BY <1>2, BalancedMatching
<1>5. \A i \in D : \E e \in Bip!Matched : f[e] = i
  <2> TAKE i \in D
  <2>1. PICK j \in Bip!Rows : Mated(i, j)
    OBVIOUS
  <2>2. <<i, j>> \in Bip!Matched /\ <<i, j>>[1] = i
    BY <2>1, MatchedIsMated
  <2> QED  BY <2>2
<1> HIDE DEF f
<1>6. f \in Bijection(Bip!Matched, D)
  BY <1>3, <1>4, <1>5 DEF Bijection, Injection, Surjection, IsInjective
<1>7. ExistsBijection(Bip!Matched, D)
  BY <1>6 DEF ExistsBijection
<1>8. Cardinality(D) = Cardinality(Bip!Matched)
  BY <1>7, MatchedIsMated, FS_Bijection
<1>9. D \in SUBSET Bip!Rows /\ (D = Bip!Rows <=> \A i \in Bip!Rows : \E j \in Bip!Rows : Mated(i, j))
  OBVIOUS
<1> HIDE DEF D
<1>10. Cardinality(D) = S - 1 <=> D = Bip!Rows
  BY <1>1, <1>9, FS_Subset
<1> QED  BY <1>8, <1>9, <1>10

\* A perfect matching of an n by n matrix.
Perfect(m, q) ==
  /\ q \in [Bip!Rows -> Bip!Rows]
  /\ \A i, j \in Bip!Rows : q[i] = q[j] => i = j
  /\ \A i \in Bip!Rows : <<i, q[i]>> \in m

\* When the sink cannot be reached any more, a perfect matching would match
\* the rows that can be reached with each other's columns.
LEMMA NoPathLeft ==
  ASSUME FlowInv, pc = "done", NEW q, Perfect(minor, q),
         NEW r \in Bip!Rows, \A j \in Bip!Rows : ~Mated(r, j)
  PROVE  FALSE
<1>1. /\ MinorType /\ Oriented /\ Tree /\ BalancedBut(Bip!Snk)
      /\ \A v \in Visited, w \in Bip!Nodes : <<v, w>> \in residual => w \in Visited
  BY DEF FlowInv, Balanced
<1>2. /\ q \in [Bip!Rows -> Bip!Rows]
      /\ \A i, j \in Bip!Rows : q[i] = q[j] => i = j
      /\ \A i \in Bip!Rows : <<i, q[i]>> \in minor
  BY DEF Perfect
<1>3. \A i \in Bip!Rows : RowBalanced(i) /\ ColBalanced(i)
  BY <1>1, NodeFacts DEF BalancedBut
<1>4. Bip!Src \in Visited /\ Bip!Snk \notin Visited
  BY <1>1, NodeFacts DEF Tree, Visited
<1> DEFINE A == Bip!Rows \cap Visited
<1>5. r \in A
  <2>1. <<r, Bip!Src>> \notin residual
    BY <1>3 DEF RowBalanced
  <2>2. <<Bip!Src, r>> \in residual
    BY <1>1, <2>1, OrientedFacts
  <2> QED  BY <1>1, <1>4, <2>2, NodeFacts
<1>6. ASSUME NEW i \in A
      PROVE  ColNode(q[i]) \in Visited
  <2>1. i \in Bip!Rows /\ q[i] \in Bip!Rows /\ <<i, q[i]>> \in minor /\ i \in Visited
    BY <1>2
  <2>2. CASE <<i, ColNode(q[i])>> \in residual
    BY <1>1, <2>1, <2>2, NodeFacts
  <2>3. CASE Mated(i, q[i])
    <3>1. <<i, Bip!Src>> \in residual
      BY <1>3, <2>1, <2>3 DEF RowBalanced
    <3>2. <<Bip!Src, i>> \notin residual
      BY <1>1, <2>1, <3>1, OrientedFacts
    <3>3. <<prev[i], i>> \in residual /\ prev[i] \in Visited
      BY <1>1, <2>1, NodeFacts DEF Tree
    <3>4. \/ prev[i] = Bip!Src /\ i \in Bip!Rows
          \/ prev[i] = Bip!Src /\ prev[i] \in Bip!Rows
          \/ i = Bip!Src /\ prev[i] \in Bip!Rows
          \/ i = Bip!Snk
          \/ prev[i] = Bip!Snk
          \/ \E j \in Bip!Rows : i = ColNode(j)
          \/ i \in Bip!Rows /\ \E j \in Bip!Rows : prev[i] = ColNode(j)
      BY <1>1, <3>3, OrientedFacts
    <3>5. PICK j \in Bip!Rows : prev[i] = ColNode(j)
      BY <1>4, <2>1, <3>2, <3>3, <3>4, NodeFacts
    <3>6. Mated(i, j)
      BY <3>3, <3>5 DEF Mated
    <3>7. j = q[i]
      BY <1>1, <2>1, <2>3, <3>6, BalancedMatching
    <3> QED  BY <3>3, <3>5, <3>7
  <2> QED  BY <1>1, <2>1, <2>2, <2>3, OrientedFacts
<1>7. ASSUME NEW i \in A
      PROVE  \E k \in A : Mated(k, q[i])
  <2>1. i \in Bip!Rows /\ q[i] \in Bip!Rows
    BY <1>2
  <2>2. <<ColNode(q[i]), Bip!Snk>> \notin residual
    BY <1>1, <1>4, <1>6, NodeFacts
  <2>3. <<Bip!Snk, ColNode(q[i])>> \in residual
    BY <1>1, <2>1, <2>2, OrientedFacts
  <2>4. PICK k \in Bip!Rows : Mated(k, q[i])
    BY <1>3, <2>1, <2>3 DEF ColBalanced
  <2>5. k \in Visited
    BY <1>1, <1>6, <2>4, NodeFacts DEF Mated
  <2> QED  BY <2>4, <2>5
<1> DEFINE g == [i \in A |-> CHOOSE k \in A : Mated(k, q[i])]
<1>8. \A i \in A : g[i] \in A /\ Mated(g[i], q[i])
  BY <1>7
<1>9. g \in [A -> A]
  BY <1>8
<1> HIDE DEF g
<1>10. \A x, y \in A : g[x] = g[y] => x = y
  <2> SUFFICES ASSUME NEW x \in A, NEW y \in A, g[x] = g[y] PROVE x = y
    OBVIOUS
  <2>1. q[x] \in Bip!Rows /\ q[y] \in Bip!Rows /\ g[x] \in Bip!Rows
    BY <1>2, <1>8
  <2>2. Mated(g[x], q[x]) /\ Mated(g[x], q[y])
    BY <1>8
  <2>3. q[x] = q[y]
    BY <1>1, <2>1, <2>2, BalancedMatching
  <2> QED  BY <1>2, <2>3
<1>11. A \in SUBSET Rows
  BY SizeAssumption DEF Bip!Rows, Rows
<1> HIDE DEF A
<1>12. PICK x \in A : g[x] = r
  BY <1>5, <1>9, <1>10, <1>11, InjectiveIsOnto
<1>13. Mated(r, q[x]) /\ q[x] \in Bip!Rows
  BY <1>2, <1>8, <1>12 DEF A
<1> QED  BY <1>13

\* The search ends with a matching of all rows if and only if there is one.
LEMMA SearchDecides ==
  ASSUME FlowInv, pc = "done"
  PROVE  matchingSize = S - 1 <=> \E q : Perfect(minor, q)
<1>1. /\ MinorType /\ Oriented /\ BalancedBut(Bip!Snk) /\ Cardinality(Bip!Matched) = matchingSize
  BY DEF FlowInv, Balanced
<1>2. matchingSize = S - 1 <=> \A i \in Bip!Rows : \E j \in Bip!Rows : Mated(i, j)
  BY <1>1, MatchedRows
<1>3. ASSUME \A i \in Bip!Rows : \E j \in Bip!Rows : Mated(i, j)
      PROVE  \E q : Perfect(minor, q)
  <2> DEFINE q == [i \in Bip!Rows |-> CHOOSE j \in Bip!Rows : Mated(i, j)]
  <2>1. \A i \in Bip!Rows : q[i] \in Bip!Rows /\ Mated(i, q[i])
    BY <1>3
  <2>2. q \in [Bip!Rows -> Bip!Rows]
    BY <2>1
  <2> HIDE DEF q
  <2>3. \A i, j \in Bip!Rows : q[i] = q[j] => i = j
    BY <1>1, <2>1, BalancedMatching
  <2>4. \A i \in Bip!Rows : <<i, q[i]>> \in minor
    BY <1>1, <2>1, BalancedMatching
  <2>5. Perfect(minor, q)
    BY <2>2, <2>3, <2>4 DEF Perfect
  <2> QED  BY <2>5
<1>4. ASSUME NEW q, Perfect(minor, q), NEW r \in Bip!Rows
      PROVE  \E j \in Bip!Rows : Mated(r, j)
  BY <1>4, NoPathLeft
<1> QED  BY <1>2, <1>3, <1>4

-----------------------------------------------------------------------------
(* The two criteria.                                                       *)

\* Renumbering rows when row o is left out, and back.
Down(i, o) == IF i > o THEN i - 1 ELSE i
Up(i, o)   == IF i < o THEN i ELSE i + 1

LEMMA Renumbering ==
  ASSUME NEW o \in Rows
  PROVE  /\ \A i \in Bip!Rows : Up(i, o) \in Rows \ {o} /\ Down(Up(i, o), o) = i
         /\ \A x \in Rows \ {o} : Down(x, o) \in Bip!Rows /\ Up(Down(x, o), o) = x
         /\ \A i, j \in Bip!Rows : Up(i, o) = Up(j, o) => i = j
         /\ \A x, y \in Rows \ {o} : Down(x, o) = Down(y, o) => x = y
<1>1. S \in Nat /\ o \in 0 .. S - 1
  BY SizeAssumption DEF Rows
<1>2. /\ \A i \in 0 .. S - 1 - 1 :
           Up(i, o) \in 0 .. S - 1 /\ Up(i, o) # o /\ Down(Up(i, o), o) = i
      /\ \A x \in 0 .. S - 1 : x # o =>
           Down(x, o) \in 0 .. S - 1 - 1 /\ Up(Down(x, o), o) = x
  BY <1>1 DEF Up, Down
<1>3. /\ \A i \in Bip!Rows : Up(i, o) \in Rows \ {o} /\ Down(Up(i, o), o) = i
      /\ \A x \in Rows \ {o} : Down(x, o) \in Bip!Rows /\ Up(Down(x, o), o) = x
  BY <1>2 DEF Bip!Rows, Rows
<1> QED  BY <1>3

\* The minor has the edges of the other rows, renumbered.
LEMMA MinorEdges ==
  ASSUME edges \in SUBSET (Rows \X Rows), NEW e \in Rows \X Rows
  PROVE  /\ FaceMinor(e) \in SUBSET (Bip!Rows \X Bip!Rows)
         /\ \A i, j \in Bip!Rows :
              <<i, j>> \in FaceMinor(e) <=> <<Up(i, e[1]), Up(j, e[2])>> \in edges
<1> DEFINE Rest == {f \in edges : f[1] # e[1] /\ f[2] # e[2]}
<1>1. FaceMinor(e) = {<<Down(f[1], e[1]), Down(f[2], e[2])>> : f \in Rest}
  BY DEF FaceMinor, Down
<1>2. e[1] \in Rows /\ e[2] \in Rows
  OBVIOUS
<1>3. \A f \in Rest : /\ f = <<f[1], f[2]>> /\ f \in edges
                      /\ f[1] \in Rows \ {e[1]} /\ f[2] \in Rows \ {e[2]}
  OBVIOUS
<1>4. FaceMinor(e) \in SUBSET (Bip!Rows \X Bip!Rows)
  <2>1. \A f \in Rest : Down(f[1], e[1]) \in Bip!Rows /\ Down(f[2], e[2]) \in Bip!Rows
    BY <1>2, <1>3, Renumbering
  <2> HIDE DEF Rest
  <2> QED  BY <1>1, <2>1
<1>5. ASSUME NEW i \in Bip!Rows, NEW j \in Bip!Rows
      PROVE  <<i, j>> \in FaceMinor(e) <=> <<Up(i, e[1]), Up(j, e[2])>> \in edges
  <2>1. ASSUME <<i, j>> \in FaceMinor(e)
        PROVE  <<Up(i, e[1]), Up(j, e[2])>> \in edges
    <3> HIDE DEF Rest
    <3>1. PICK f \in Rest : <<i, j>> = <<Down(f[1], e[1]), Down(f[2], e[2])>>
      BY <1>1, <2>1
    <3>2. i = Down(f[1], e[1]) /\ j = Down(f[2], e[2])
      BY <3>1
    <3>3. Up(i, e[1]) = f[1] /\ Up(j, e[2]) = f[2]
      BY <1>2, <1>3, <3>2, Renumbering
    <3> QED  BY <1>3, <3>3
  <2>2. ASSUME <<Up(i, e[1]), Up(j, e[2])>> \in edges
        PROVE  <<i, j>> \in FaceMinor(e)
    <3> DEFINE f == <<Up(i, e[1]), Up(j, e[2])>>
    <3>1. f[1] = Up(i, e[1]) /\ f[2] = Up(j, e[2])
      OBVIOUS
    <3>2. Up(i, e[1]) # e[1] /\ Up(j, e[2]) # e[2]
          /\ Down(Up(i, e[1]), e[1]) = i /\ Down(Up(j, e[2]), e[2]) = j
      BY <1>2, Renumbering
    <3> HIDE DEF f
    <3>3. f \in Rest
      BY <2>2, <3>1, <3>2 DEF f
    <3>4. <<Down(f[1], e[1]), Down(f[2], e[2])>> = <<i, j>>
      BY <3>1, <3>2
    <3> HIDE DEF Rest
    <3> QED  BY <1>1, <3>3, <3>4
  <2> QED  BY <2>1, <2>2
<1> QED  BY <1>4, <1>5

\* A perfect matching of the minor, and the edge, are one of the face.
LEMMA MinorMatching ==
  ASSUME edges \in SUBSET (Rows \X Rows), NEW e \in Rows \X Rows
  PROVE  (\E q : Perfect(FaceMinor(e), q)) <=> Uses(edges, e)
<1> DEFINE u == e[1]
           v == e[2]
<1>0. u \in Rows /\ v \in Rows
  OBVIOUS
<1>1. \A i, j \in Bip!Rows : <<i, j>> \in FaceMinor(e) <=> <<Up(i, u), Up(j, v)>> \in edges
  BY MinorEdges
<1> HIDE DEF u, v
<1>2. /\ \A i \in Bip!Rows : Up(i, u) \in Rows \ {u} /\ Down(Up(i, u), u) = i
      /\ \A x \in Rows \ {u} : Down(x, u) \in Bip!Rows /\ Up(Down(x, u), u) = x
      /\ \A i, j \in Bip!Rows : Up(i, u) = Up(j, u) => i = j
      /\ \A x, y \in Rows \ {u} : Down(x, u) = Down(y, u) => x = y
  BY <1>0, Renumbering
<1>3. /\ \A i \in Bip!Rows : Up(i, v) \in Rows \ {v} /\ Down(Up(i, v), v) = i
      /\ \A x \in Rows \ {v} : Down(x, v) \in Bip!Rows /\ Up(Down(x, v), v) = x
      /\ \A i, j \in Bip!Rows : Up(i, v) = Up(j, v) => i = j
      /\ \A x, y \in Rows \ {v} : Down(x, v) = Down(y, v) => x = y
  BY <1>0, Renumbering
<1>4. ASSUME NEW q, Perfect(FaceMinor(e), q)
      PROVE  Uses(edges, e)
  <2>1. /\ q \in [Bip!Rows -> Bip!Rows]
        /\ \A i, j \in Bip!Rows : q[i] = q[j] => i = j
        /\ \A i \in Bip!Rows : <<i, q[i]>> \in FaceMinor(e)
    BY <1>4 DEF Perfect
  <2> DEFINE m == [x \in Rows |-> IF x = u THEN v ELSE Up(q[Down(x, u)], v)]
  <2>2. m[u] = v /\ \A x \in Rows \ {u} : m[x] = Up(q[Down(x, u)], v)
    BY <1>0
  <2>3. \A x \in Rows \ {u} : Down(x, u) \in Bip!Rows /\ q[Down(x, u)] \in Bip!Rows
    BY <1>2, <2>1
  <2>4. m \in [Rows -> Rows]
    BY <1>0, <1>3, <2>3
  <2> HIDE DEF m
  <2>5. \A x \in Rows \ {u} : m[x] \in Rows \ {v}
    BY <1>3, <2>2, <2>3
  <2>6. \A x, y \in Rows \ {u} : m[x] = m[y] => x = y
    <3> SUFFICES ASSUME NEW x \in Rows \ {u}, NEW y \in Rows \ {u}, m[x] = m[y]
                 PROVE  x = y
      OBVIOUS
    <3>1. q[Down(x, u)] = q[Down(y, u)]
      BY <1>3, <2>2, <2>3
    <3>2. Down(x, u) = Down(y, u)
      BY <2>1, <2>3, <3>1
    <3> QED  BY <1>2, <3>2
  <2>7. m \in Perms
    BY <2>2, <2>4, <2>5, <2>6 DEF Perms
  <2>8. \A x \in Rows \ {u} : <<x, m[x]>> \in edges
    <3> TAKE x \in Rows \ {u}
    <3>1. <<Down(x, u), q[Down(x, u)]>> \in FaceMinor(e)
      BY <2>1, <2>3
    <3>2. <<Up(Down(x, u), u), Up(q[Down(x, u)], v)>> \in edges
      BY <1>1, <2>3, <3>1
    <3> QED  BY <1>2, <2>2, <3>2
  <2> QED  BY <2>2, <2>7, <2>8 DEF Uses, u, v
<1>5. ASSUME Uses(edges, e)
      PROVE  \E q : Perfect(FaceMinor(e), q)
  <2>1. PICK m \in Perms : m[u] = v /\ \A x \in Rows \ {u} : <<x, m[x]>> \in edges
    BY <1>5 DEF Uses, u, v
  <2>2. m \in [Rows -> Rows] /\ \A x, y \in Rows : m[x] = m[y] => x = y
    BY DEF Perms
  <2>3. \A i \in Bip!Rows : Up(i, u) \in Rows \ {u} /\ m[Up(i, u)] \in Rows \ {v}
    BY <1>0, <1>2, <2>1, <2>2
  <2> DEFINE q == [i \in Bip!Rows |-> Down(m[Up(i, u)], v)]
  <2>4. \A i \in Bip!Rows : q[i] = Down(m[Up(i, u)], v) /\ q[i] \in Bip!Rows
    BY <1>3, <2>3
  <2>5. q \in [Bip!Rows -> Bip!Rows]
    BY <2>4
  <2> HIDE DEF q
  <2>6. \A i, j \in Bip!Rows : q[i] = q[j] => i = j
    <3> SUFFICES ASSUME NEW i \in Bip!Rows, NEW j \in Bip!Rows, q[i] = q[j]
                 PROVE  i = j
      OBVIOUS
    <3>1. m[Up(i, u)] = m[Up(j, u)]
      BY <1>3, <2>3, <2>4
    <3>2. Up(i, u) = Up(j, u)
      BY <2>2, <2>3, <3>1
    <3> QED  BY <1>2, <3>2
  <2>7. \A i \in Bip!Rows : <<i, q[i]>> \in FaceMinor(e)
    <3> TAKE i \in Bip!Rows
    <3>1. <<Up(i, u), m[Up(i, u)]>> \in edges
      BY <2>1, <2>3
    <3>2. Up(q[i], v) = m[Up(i, u)]
      BY <1>3, <2>3, <2>4
    <3> QED  BY <1>1, <2>4, <3>1, <3>2
  <2>8. Perfect(FaceMinor(e), q)
    BY <2>5, <2>6, <2>7 DEF Perfect
  <2> QED  BY <2>8
<1> QED  BY <1>4, <1>5

\* The searches have ended when an edge is tested.
FaceInv ==
  /\ DfsInv
  /\ edge = NoEdge => /\ pc = "done" /\ matchingSize = 0
                      /\ prev = Bip!Fresh /\ curr = Bip!Src /\ next = 0
  /\ edge # NoEdge => /\ Searched /\ edge \in edges /\ minor = FaceMinor(edge)
                      /\ FlowInv

LEMMA BeginTestInv == FaceInv /\ BeginTest => FaceInv'
<1> SUFFICES ASSUME FaceInv, BeginTest PROVE FaceInv'
  OBVIOUS
<1>1. PICK e \in edges : e[1] # e[2] /\ edge' = e /\ minor' = FaceMinor(e)
  BY DEF BeginTest
<1>2. /\ Searched /\ edge = NoEdge
      /\ residual' = Bip!Network(minor') /\ pc' = "search"
      /\ UNCHANGED dfsVars /\ UNCHANGED <<prev, curr, next, matchingSize>>
  BY DEF BeginTest
<1>3. DfsInv /\ edges \in SUBSET (Rows \X Rows)
  BY DEF FaceInv, DfsInv, DfsTypes
<1>4. DfsInv'
  BY <1>2, <1>3, NextDfsInv
<1>5. edge' \in edges /\ edge' # NoEdge
  <2>1. e = <<e[1], e[2]>>
    BY <1>3
  <2>2. Len(<<e[1], e[2]>>) = 2 /\ Len(<< >>) = 0
    OBVIOUS
  <2> QED  BY <1>1, <2>1, <2>2 DEF NoEdge
<1>6. minor' \in SUBSET (Bip!Rows \X Bip!Rows)
  BY <1>1, <1>3, MinorEdges
<1>7. FlowInv'
  BY <1>2, <1>6, NewTest DEF FaceInv
<1>8. edges' = edges /\ Searched'
  BY <1>2 DEF dfsVars, Searched
<1>9. minor' = FaceMinor(edge)'
  BY <1>1, <1>8 DEF FaceMinor
<1> QED  BY <1>4, <1>5, <1>7, <1>8, <1>9 DEF FaceInv

LEMMA NextFaceInv == FaceInv /\ [FaceNext]_faceVars => FaceInv'
<1> SUFFICES ASSUME FaceInv, [FaceNext]_faceVars PROVE FaceInv'
  OBVIOUS
<1>1. CASE DfsNext /\ UNCHANGED testVars
  <2>1. UNCHANGED <<edge, minor, residual, prev, curr, next, matchingSize, pc>>
    BY <1>1 DEF testVars
  <2>2. ~Searched
    BY <1>1 DEF Searched, DfsNext, StartTree, VisitWhite, NextEdge, Leave, Backward
  <2>3. DfsInv'
    BY <1>1, NextDfsInv DEF FaceInv
  <2>4. edge = NoEdge /\ edge' = NoEdge
    BY <2>1, <2>2 DEF FaceInv, NoEdge
  <2> QED  BY <2>1, <2>3, <2>4 DEF FaceInv
<1>2. CASE Bip!Next /\ UNCHANGED <<dfsVars, edge>>
  <2>1. pc # "done"
    BY <1>2 DEF Bip!Next, Bip!Advance, Bip!Backtrack, Bip!FoundSink, Bip!ReverseEdge,
                Bip!Augmented, Bip!NoPath
  <2>2. edge # NoEdge /\ Searched /\ edge \in edges /\ minor = FaceMinor(edge) /\ FlowInv
    BY <2>1 DEF FaceInv
  <2>3. UNCHANGED minor
    BY <1>2 DEF Bip!Next, Bip!Advance, Bip!Backtrack, Bip!FoundSink, Bip!ReverseEdge,
                Bip!Augmented, Bip!NoPath
  <2>4. FlowInv'
    BY <1>2, <2>2, AdvanceInv, BacktrackInv, FoundSinkInv, ReverseEdgeInv, AugmentedInv,
       NoPathInv DEF Bip!Next
  <2>5. DfsInv'
    BY <1>2, NextDfsInv DEF FaceInv
  <2>6. edge' = edge /\ edges' = edges /\ Searched'
    BY <1>2, <2>2 DEF dfsVars, Searched
  <2>7. minor' = FaceMinor(edge)' /\ edge' # NoEdge'
    BY <2>2, <2>3, <2>6 DEF FaceMinor, NoEdge
  <2> QED  BY <2>2, <2>4, <2>5, <2>6, <2>7 DEF FaceInv
<1>3. CASE UNCHANGED faceVars
  <2>1. UNCHANGED dfsVars
        /\ UNCHANGED <<edge, minor, residual, prev, curr, next, matchingSize, pc>>
    BY <1>3 DEF faceVars, testVars
  <2>2. DfsInv'
    BY <2>1, NextDfsInv DEF FaceInv
  <2>3. edges' = edges /\ Searched' = Searched
    BY <2>1 DEF dfsVars, Searched
  <2>4. FlowInv => FlowInv'
    BY <2>1, FlowKept
  <2>5. FaceMinor(edge)' = FaceMinor(edge) /\ NoEdge' = NoEdge
    BY <2>1, <2>3 DEF FaceMinor, NoEdge
  <2> QED  BY <2>1, <2>2, <2>3, <2>4, <2>5 DEF FaceInv
<1> QED  BY <1>1, <1>2, <1>3, BeginTestInv DEF FaceNext

\* The verdict of the search on an edge is that of the components.
LEMMA FaceInvEdges == FaceInv => EdgesRemoved
<1> SUFFICES ASSUME FaceInv PROVE EdgesRemoved
  OBVIOUS
<1>1. DfsInv /\ edges \in SUBSET (Rows \X Rows) /\ \A r \in Rows : <<r, r>> \in edges
  BY DEF FaceInv, DfsInv, DfsTypes
<1>2. RemovesCrossEdges
  BY <1>1, CrossEdgesListed DEF RemovesCrossEdges
<1>3. FlowIsMatching
  BY FlowMatches DEF FlowIsMatching, FaceInv
<1>4. CriteriaAgree
  <2> SUFFICES ASSUME edge # NoEdge, pc = "done"
               PROVE  edge \in ToSet(toRemove) <=> matchingSize # S - 1
    BY DEF CriteriaAgree
  <2>1. Searched /\ edge \in edges /\ minor = FaceMinor(edge) /\ FlowInv
    BY DEF FaceInv
  <2>2. /\ edge \in Rows \X Rows /\ edge = <<edge[1], edge[2]>>
        /\ edge[1] \in Rows /\ edge[2] \in Rows
    BY <1>1, <2>1
  <2>3. edge \in ToSet(toRemove) <=> ~SameScc(edges, edge[1], edge[2])
    BY <1>1, <2>1, CrossEdgesListed
  <2>4. matchingSize = S - 1 <=> \E q : Perfect(FaceMinor(edge), q)
    BY <2>1, SearchDecides
  <2>5. (\E q : Perfect(FaceMinor(edge), q)) <=> Uses(edges, edge)
    BY <1>1, <2>2, MinorMatching
  <2>6. Uses(edges, <<edge[1], edge[2]>>) <=> SameScc(edges, edge[1], edge[2])
    BY <1>1, <2>1, <2>2, UsedWithinComponent
  <2> QED  BY <2>2, <2>3, <2>4, <2>5, <2>6
<1> QED  BY <1>2, <1>3, <1>4 DEF EdgesRemoved

LEMMA InitFaceInv == FaceInit => FaceInv
<1> SUFFICES ASSUME FaceInit PROVE FaceInv
  OBVIOUS
<1>1. DfsInv
  BY InitDfsInv DEF FaceInit
<1> QED  BY <1>1 DEF FaceInit, FaceInv, NoEdge

\* What the two depth-first searches have found at every step, and, once they are
\* done, the augmenting paths of the test of an edge.
THEOREM FacesInvariance == FaceSpec => []FaceInv
<1> QED  BY InitFaceInv, NextFaceInv, PTL DEF FaceSpec

\* EdgesRemoved of allowed_matching_edges and has_perfect_bipartite_matching, for
\* every face of every height: the edges between components are listed, each
\* once, they are the edges that no perfect matching uses, and the flow is a
\* matching of the size counted whenever a search begins.
THEOREM EdgesAreRemoved == FaceSpec => []EdgesRemoved
<1> QED  BY FacesInvariance, FaceInvEdges, PTL
=============================================================================
