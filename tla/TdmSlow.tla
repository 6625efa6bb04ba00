------------------------------ MODULE TdmSlow ------------------------------
(***************************************************************************)
(* TDM::simplify_cpu_slow, the reference the faster versions are tested    *)
(* against: an edge of a face is removed when no perfect matching of the   *)
(* face uses it.  The edges are tried in turn, each on the face without    *)
(* the edges removed before it.  That this is the criterion of TdmSimplify *)
(* (an edge between two strongly connected components) is what the         *)
(* refinement shows.                                                       *)
(***************************************************************************)
EXTENDS TdmInputs

VARIABLES slowTdm, slowIter,
          slowNoChange,  \* no_change
          projection,    \* the edges of the current face
          changed,
          at             \* the next of the S * S edges to try, or -1

slowVars == <<input, slowTdm, slowIter, slowNoChange, projection, changed, at>>

SlowFace == slowIter % 3

SlowInit ==
  /\ input \in Inputs
  /\ slowTdm = input
  /\ slowIter = 0
  /\ slowNoChange = 0
  /\ projection = {}
  /\ changed = FALSE
  /\ at = -1

ProjectFace ==
  /\ slowNoChange < 3 /\ at = -1
  /\ projection' = Projection(slowTdm, SlowFace)
  /\ changed' = FALSE
  /\ at' = 0
  /\ UNCHANGED <<input, slowTdm, slowIter, slowNoChange>>

\* Faulty: of the whole face, which always has the diagonal.  (The variant is
\* used by no specification: it shows that the refinement can fail.)
IsPresentWhole(e) == \E m \in Perms : \A x \in Rows : <<x, m[x]>> \in projection

\* has_perfect_bipartite_matching of the minor without row e[1], column e[2].
IsPresent(e) ==
  \E m \in Perms : m[e[1]] = e[2] /\ \A x \in Rows \ {e[1]} : <<x, m[x]>> \in projection

TestEdge ==
  /\ at \in 0 .. S * S - 1
  /\ LET e == <<at \div S, at % S>>
     IN  IF e[1] # e[2] /\ e \in projection /\ ~IsPresent(e)
         THEN /\ projection' = projection \ {e}
              /\ slowTdm' = {c \in slowTdm : Edge(SlowFace, c) # e}
              /\ changed' = TRUE
         ELSE UNCHANGED <<projection, slowTdm, changed>>
  /\ at' = at + 1
  /\ UNCHANGED <<input, slowIter, slowNoChange>>

EndFace ==
  /\ at = S * S
  /\ slowNoChange' = IF changed THEN 0 ELSE slowNoChange + 1
  /\ slowIter' = slowIter + 1
  /\ at' = -1
  /\ projection' = {}            \* a local of the loop body
  /\ changed' = FALSE
  /\ UNCHANGED <<input, slowTdm>>

SlowNext == ProjectFace \/ TestEdge \/ EndFace
SlowSpec == SlowInit /\ [][SlowNext]_slowVars

-----------------------------------------------------------------------------
\* In the middle of a face the abstract step has already been taken: it has
\* removed whatever the rest of the face will remove.
Rest == IF at = -1 THEN slowTdm ELSE Keep(slowTdm, SlowFace)

SlowLoop == INSTANCE TdmSimplify WITH
  tdm      <- Rest,
  iter     <- IF at = -1 THEN slowIter ELSE slowIter + 1,
  noChange <- IF at = -1 THEN slowNoChange
              ELSE IF changed \/ Rest # slowTdm THEN 0 ELSE slowNoChange + 1

\* Removing the edges without a perfect matching one by one computes what
\* removing all edges between components at once does.
SlowImplementsLoop == SlowLoop!Spec
=============================================================================
