----------------------------- MODULE TdmGpuBase -----------------------------
(***************************************************************************)
(* simplify_cuda_inner, the simplification on a device of the baseline     *)
(* searcher: one puzzle at a time, one block of S threads per face.  Its   *)
(* kernel fb_kern finds the strongly connected components of a face by     *)
(* forward and backward searches from pivots, after the nodes that no      *)
(* search needs have been trimmed.  A node's range is its history: nodes   *)
(* that were told apart once never meet again, as long as the ranges fit   *)
(* the int they are kept in.                                               *)
(*                                                                         *)
(* The threads of the block meet at barriers.  Here a step is what happens *)
(* between two meetings of all threads; what threads that disagree about   *)
(* the end of a loop can do is in FbThreads.  Inside one search or one     *)
(* trim the threads race, but only ever add nodes, so that the result is   *)
(* the same closure in every order.                                        *)
(***************************************************************************)
EXTENDS TdmInputs

CONSTANTS
  IntMax,        \* the largest int, 2147483647 in the code
  SafeRounds     \* rounds of fb_kern after which every range still fits, 16 then

HashConst == 1023      \* HASH_CONST; pivots[] has one place more

\* The largest range that n rounds make: 1 after the first, then 4 * range + 3.
LargestRange[n \in 1 .. SafeRounds] == IF n = 1 THEN 1 ELSE 4 * LargestRange[n - 1] + 3

ASSUME IntAssumption ==
  /\ IntMax \in Nat
  /\ SafeRounds \in Nat \ {0}
  /\ LargestRange[SafeRounds] <= IntMax

VARIABLES
  baseTdm,                        \* d_tdm
  baseHost, baseIter, baseNoChange,   \* simplify_cuda_inner
  baseProjection, baseRanges,     \* d_projection, d_ranges
  visitedF, visitedB,             \* d_visitedF, d_visitedB, as sets of nodes
  eliminated,                     \* d_eliminated
  fbIter, term,                   \* iter and term of fb_kern
  baseRounds,                     \* the most rounds a face has taken (ghost)
  baseResult

baseVars == <<input, baseTdm, baseHost, baseIter, baseNoChange, baseProjection, baseRanges,
              visitedF, visitedB, eliminated, fbIter, term, baseRounds, baseResult>>

BaseFace == baseIter % 3

\* compute_TDM on the device, which repeats isWitness over the characters of
\* the puzzle's rows, and a fresh set of buffers.
BaseInit ==
  /\ input \in Inputs /\ baseTdm = input
  /\ baseHost = "project" /\ baseIter = 0 /\ baseNoChange = 0
  /\ baseProjection = {} /\ baseRanges = [u \in Rows |-> 0]
  /\ visitedF = {} /\ visitedB = {} /\ eliminated = {}
  /\ fbIter = 0 /\ term = FALSE /\ baseRounds = 0
  /\ baseResult = 0

MoreRounds(n) == IF n > baseRounds THEN n ELSE baseRounds

\* The buffers of a face are cleared and calc_projection runs; then fb_kern
\* clears its shared memory.
ProjectBase ==
  /\ baseHost = "project"
  /\ baseProjection' = Projection(baseTdm, BaseFace)
  /\ baseRanges' = [u \in Rows |-> 0]
  /\ visitedF' = {} /\ visitedB' = {} /\ eliminated' = {}
  /\ fbIter' = 1 /\ term' = TRUE /\ baseRounds' = MoreRounds(1)
  /\ baseHost' = "reach"
  /\ UNCHANGED <<input, baseTdm, baseIter, baseNoChange, baseResult>>

\* calc_graph: the neighbours of u without itself, along or against the edges.
Neighbours(u, E)   == {v \in Rows \ {u} : <<u, v>> \in E}
Reverse(E)         == {<<e[2], e[1]>> : e \in E}
SameRange(u, v)    == baseRanges[u] = baseRanges[v]

\* forward_reach: what is visited from V inside the ranges of V.
Spread(V, E) == V \cup {v \in Rows : \E u \in V : v \in Neighbours(u, E) /\ SameRange(u, v)}
ForwardReach(V, E) ==
  LET after[n \in 0 .. S] == IF n = 0 THEN V ELSE Spread(after[n - 1], E)
  IN  after[S]

Reach ==
  /\ baseHost = "reach"
  /\ visitedF' = ForwardReach(visitedF, baseProjection)
  /\ visitedB' = ForwardReach(visitedB, Reverse(baseProjection))
  /\ baseHost' = "trim"
  /\ UNCHANGED <<input, baseTdm, baseIter, baseNoChange, baseProjection, baseRanges,
                 eliminated, fbIter, term, baseRounds, baseResult>>

\* trim: a node without a predecessor of its own range is a component of its own.
Trimable(u, gone) ==
  \A v \in Neighbours(u, Reverse(baseProjection)) : ~SameRange(u, v) \/ v \in gone
TrimStep(gone) == gone \cup {u \in Rows : Trimable(u, gone)}
Trimmed(gone) ==
  LET after[n \in 0 .. S] == IF n = 0 THEN gone ELSE TrimStep(after[n - 1])
  IN  after[S]

Trim ==
  /\ baseHost = "trim"
  /\ eliminated' = Trimmed(eliminated)
  /\ baseHost' = "update"
  /\ UNCHANGED <<input, baseTdm, baseIter, baseNoChange, baseProjection, baseRanges,
                 visitedF, visitedB, fbIter, term, baseRounds, baseResult>>

\* An int that became too large comes back from below.
Wrap(n) == IF n \in -IntMax .. IntMax THEN n
           ELSE ((n + IntMax + 1) % (2 * IntMax + 2)) - IntMax - 1

\* Faulty: only the forward search tells nodes apart.  (Variants introduced by
\* "Faulty:" have a plausible bug.  No specification uses them; each shows that
\* some property can fail.)
NewRangeForward(u) ==
  IF u \in eliminated THEN -u
  ELSE Wrap(4 * baseRanges[u] + (IF u \in visitedF THEN 0 ELSE 1))

NewRange(u) ==
  IF u \in eliminated THEN -u
  ELSE Wrap(4 * baseRanges[u] + (IF u \in visitedF /\ u \in visitedB THEN 0
                                 ELSE IF u \in visitedF THEN 2
                                 ELSE IF u \in visitedB THEN 3 ELSE 1))

\* A component that was found keeps both marks; every other node that is left
\* loses them, and one of each hash value of the new ranges, whoever comes
\* first, becomes a pivot.
Found == (visitedF \cap visitedB) \ eliminated
Open  == Rows \ (eliminated \cup Found)
Hash(range) == range % (HashConst + 1)

Update(pivots) ==
  /\ baseHost = "update"
  /\ pivots \subseteq Open
  /\ baseRanges' = [u \in Rows |-> NewRange(u)]
  /\ \A u \in Open : \E v \in pivots : Hash(baseRanges'[u]) = Hash(baseRanges'[v])
  /\ \A u, v \in pivots : Hash(baseRanges'[u]) = Hash(baseRanges'[v]) => u = v
  /\ visitedF' = (visitedF \ Open) \cup pivots
  /\ visitedB' = (visitedB \ Open) \cup pivots
  /\ term' = (pivots = {})
  /\ baseHost' = "again"
  /\ UNCHANGED <<input, baseTdm, baseIter, baseNoChange, baseProjection, eliminated, fbIter,
                 baseRounds, baseResult>>

\* The head of fb_kern's loop.
NextRound ==
  /\ baseHost = "again" /\ ~term
  /\ fbIter' = fbIter + 1 /\ term' = TRUE /\ baseRounds' = MoreRounds(fbIter + 1)
  /\ baseHost' = "reach"
  /\ UNCHANGED <<input, baseTdm, baseIter, baseNoChange, baseProjection, baseRanges,
                 visitedF, visitedB, eliminated, baseResult>>

BaseDeleted == {c \in baseTdm : ~SameRange(Edge(BaseFace, c)[1], Edge(BaseFace, c)[2])}

\* modify_TDM, and the host's count of faces without a change.
ModifyBase ==
  /\ baseHost = "again" /\ term
  /\ baseTdm' = baseTdm \ BaseDeleted
  /\ baseNoChange' = IF BaseDeleted = {} THEN baseNoChange + 1 ELSE 0
  /\ baseIter' = baseIter + 1
  /\ baseHost' = IF baseNoChange' < 3 THEN "project" ELSE "sum"
  /\ UNCHANGED <<input, baseProjection, baseRanges, visitedF, visitedB, eliminated, fbIter,
                 term, baseRounds, baseResult>>

\* The loops of sum_y and of the host add up an array with one entry per row.
Sum(f) ==
  LET upTo[n \in 0 .. S] == IF n = 0 THEN 0 ELSE upTo[n - 1] + f[n - 1]
  IN  upTo[S]

\* sum_z counts along the third row, sum_y adds over the second, the host over
\* the first.
SumBase ==
  /\ baseHost = "sum"
  /\ baseResult' =
       LET sumZ(r1, r2) == Cardinality({r3 \in Rows : <<r1, r2, r3>> \in baseTdm})
           sumY(r1)     == Sum([r2 \in Rows |-> sumZ(r1, r2)])
       IN  Sum([r1 \in Rows |-> sumY(r1)])
  /\ baseHost' = "done"
  /\ UNCHANGED <<input, baseTdm, baseIter, baseNoChange, baseProjection, baseRanges,
                 visitedF, visitedB, eliminated, fbIter, term, baseRounds>>

BaseNext ==
  \/ ProjectBase
  \/ Reach
  \/ Trim
  \/ \E pivots \in SUBSET Rows : Update(pivots)
  \/ NextRound
  \/ ModifyBase
  \/ SumBase

BaseSpec == BaseInit /\ [][BaseNext]_baseVars

-----------------------------------------------------------------------------
\* When fb_kern ends, two nodes have the same range exactly when they are in one
\* component of the face, whichever threads became pivots and in whatever order
\* trimmed nodes, found components and new ranges were told apart.
ComponentsFound ==
  baseHost = "again" /\ term =>
    \A u, v \in Rows : SameRange(u, v) <=> SameScc(baseProjection, u, v)

\* The call returns what the loop over the faces that all versions share returns:
\* no face can simplify the rest, and every step kept what Keep keeps.
BaseResultExact ==
  baseHost = "done" =>
    /\ baseTdm = AfterFaces(input, baseIter) /\ Stable(baseTdm)
    /\ baseResult = Cardinality(baseTdm)

\* The baseline's searches from pivots find the components of every face, so that
\* its device code ends at an instance that no face can simplify and returns its
\* size, unless some face took so many rounds that a range left its int.  A face
\* takes at most one round more than it has rows: up to fifteen rows nothing can
\* overflow, whatever the pivots.
BaselineExact ==
  /\ baseRounds <= SafeRounds => ComponentsFound /\ BaseResultExact
  /\ fbIter <= baseRounds /\ baseRounds <= S + 1
=============================================================================
