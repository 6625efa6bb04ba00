-------------------------------- MODULE Tdm --------------------------------
(***************************************************************************)
(* The 3D matching instance (TDM) of a puzzle with S rows, and one step of *)
(* its simplification: project the instance on a face of the cube and drop *)
(* every entry whose projection joins two strongly connected components.   *)
(*                                                                         *)
(* Reachability is stated through closed sets of rows rather than paths,   *)
(* so that the proofs need no induction.                                   *)
(***************************************************************************)
EXTENDS Integers, FiniteSets

CONSTANT S                       \* the height s of the puzzle

ASSUME SizeAssumption == S \in Nat \ {0}

Rows     == 0 .. (S - 1)
Cells    == Rows \X Rows \X Rows
Diagonal == {<<r, r, r>> : r \in Rows}
Faces    == 0 .. 2

-----------------------------------------------------------------------------
\* isWitness: rows c[1], c[2], c[3] of puzzle p agree with 1, 2, 3 in exactly
\* two places of some column (strong), or in at least two.
Agreeing(p, c, i) == {v \in 1 .. 3 : p[c[v]][i] = v}

IsWitness(p, c, strong) ==
  \E i \in DOMAIN p[0] :
    LET count == Cardinality(Agreeing(p, c, i))
    IN  IF strong THEN count = 2 ELSE count >= 2

\* TDM::compute
Compute(p, strong) == {c \in Cells : ~IsWitness(p, c, strong)}

\* The instances of all puzzles with k columns.
Puzzles(k) == [Rows -> [1 .. k -> 1 .. 3]]
Instances(k, strong) == {Compute(p, strong) : p \in Puzzles(k)}

-----------------------------------------------------------------------------
\* Face 0 shows (y, z), face 1 (x, z), face 2 (x, y).
Edge(f, c) == IF f = 0 THEN <<c[2], c[3]>> ELSE IF f = 1 THEN <<c[1], c[3]>> ELSE <<c[1], c[2]>>

Projection(T, f) == {Edge(f, c) : c \in T}

IsClosed(E, R)   == \A e \in E : e[1] \in R => e[2] \in R
Reaches(E, u, v) == \A R \in SUBSET Rows : u \in R /\ IsClosed(E, R) => v \in R
SameScc(E, u, v) == Reaches(E, u, v) /\ Reaches(E, v, u)

\* Faulty: the components of the next face.  (Variants introduced by "Faulty:"
\* have a plausible bug.  No specification uses them; each shows that some
\* property can fail.)
KeepOtherFace(T, f) ==
  LET E == Projection(T, (f + 1) % 3)
  IN  {c \in T : SameScc(E, Edge(f, c)[1], Edge(f, c)[2])}

\* The entries a simplification of face f keeps.
Keep(T, f) == LET E == Projection(T, f)
              IN  {c \in T : SameScc(E, Edge(f, c)[1], Edge(f, c)[2])}

\* No face can simplify T any further.
Stable(T) == \A f \in Faces : Keep(T, f) = T

\* The loop that all versions share: the first n faces in turn.
AfterFaces(T, n) ==
  LET after[i \in 0 .. n] == IF i = 0 THEN T ELSE Keep(after[i - 1], (i - 1) % 3)
  IN  after[n]

\* What simplification should compute, whatever the order of the faces.
LargestStable(T) == UNION {U \in SUBSET T : Stable(U)}

-----------------------------------------------------------------------------
\* A perfect 3D matching: rows i, p[i], q[i] for two permutations p and q.
Perms == {p \in [Rows -> Rows] : \A i, j \in Rows : p[i] = p[j] => i = j}
Matching(p, q) == {<<i, p[i], q[i]>> : i \in Rows}
=============================================================================
