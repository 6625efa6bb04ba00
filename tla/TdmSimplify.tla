---------------------------- MODULE TdmSimplify ----------------------------
(***************************************************************************)
(* The simplification loop shared by TDM::simplify_cpu, simplify_cpu_slow  *)
(* and the CUDA kernels: faces are simplified in turn until three in a row *)
(* change nothing.  One step is one face; the detailed versions implement  *)
(* it (TdmCpu, TdmSlow, TdmGpu).                                           *)
(***************************************************************************)
EXTENDS TdmInputs

VARIABLES tdm,       \* the instance being simplified
          iter,      \* faces simplified so far; the next one is iter % 3
          noChange   \* faces in a row without a change

vars == <<input, tdm, iter, noChange>>

Init ==
  /\ input \in Inputs
  /\ tdm = input
  /\ iter = 0
  /\ noChange = 0

\* Faulty: the face is compared with the input, not with what it was given.
\* (The variant is used by no specification: it shows that a property can fail.)
SimplifyFaceStaleFlag ==
  /\ noChange < 3
  /\ tdm' = Keep(tdm, iter % 3)
  /\ noChange' = IF tdm' = input THEN noChange + 1 ELSE 0
  /\ iter' = iter + 1
  /\ UNCHANGED input

SimplifyFace ==
  /\ noChange < 3
  /\ tdm' = Keep(tdm, iter % 3)
  /\ noChange' = IF tdm' = tdm THEN noChange + 1 ELSE 0
  /\ iter' = iter + 1
  /\ UNCHANGED input

Next == SimplifyFace
Spec == Init /\ [][Next]_vars

Done == noChange = 3

-----------------------------------------------------------------------------
TypeOK ==
  /\ input \in Inputs
  /\ tdm \in SUBSET input
  /\ iter \in Nat
  /\ noChange \in 0 .. 3

\* The result does not depend on the order in which faces and entries are
\* simplified: it is the largest part of the input no face can simplify.
ResultIsLargestStable == Done => tdm = LargestStable(input)

\* Simplification never loses a perfect 3D matching, so it does not change
\* whether a puzzle is a (strong) USP.
MatchingsPreserved ==
  \A p, q \in Perms : Matching(p, q) \subseteq input => Matching(p, q) \subseteq tdm

\* A puzzle simplified down to the diagonal, which the search takes for a
\* solution, has no perfect matching but the identity.
DiagonalMeansUnique ==
  Done /\ tdm = Diagonal =>
    \A p, q \in Perms : Matching(p, q) \subseteq input =>
      \A i \in Rows : p[i] = i /\ q[i] = i
=============================================================================
