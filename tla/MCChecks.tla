------------------------------ MODULE MCChecks ------------------------------
(***************************************************************************)
(* What decides about one puzzle or one face, for TLC: the heuristic       *)
(* searches, checkers and measures on every puzzle with up to three rows   *)
(* and K columns and on wider puzzles of three and four rows, and the two  *)
(* criteria for an edge on every face with four rows.  While one part runs *)
(* the other stands still.                                                 *)
(***************************************************************************)
EXTENDS WitnessSearch, Checkers, EdgeCriteria

CONSTANT K

\* A puzzle of distinct rows, in the order of their digits.
Number(r) == MapThenSumSet(LAMBDA i : r[i] * 3 ^ i, DOMAIN r)
Sorted(R) == LET q == SetToSortSeq(R, LAMBDA a, b : Number(a) < Number(b))
             IN  [i \in 0 .. (Len(q) - 1) |-> q[i + 1]]

\* Rows of width 3 and 4, chosen so that some three or four of them are a strong
\* USP, some only a USP, and some neither.
Middle == {<<3, 1, 2>>, <<1, 2, 2>>, <<2, 2, 1>>, <<1, 3, 1>>, <<2, 3, 3>>, <<2, 3, 2>>,
           <<1, 2, 3>>, <<3, 1, 1>>}
Wide == {<<2, 1, 1, 3>>, <<1, 3, 1, 2>>, <<3, 2, 2, 1>>, <<2, 3, 2, 2>>, <<1, 1, 1, 2>>,
         <<1, 1, 3, 3>>, <<1, 3, 1, 3>>}

MCPuzzles ==
  {Sorted(R) : R \in UNION {kSubset(n, [1 .. K -> 1 .. 3]) : n \in 1 .. 3}}
  \cup {Sorted(R) : R \in kSubset(3, Middle)} \cup {Sorted(R) : R \in kSubset(4, Wide)}

\* Puzzles for the measures that need not be sorted or have distinct rows.
Unsorted == [0 .. 2 -> {<<1, 2, 3>>, <<1, 2, 1>>, <<2, 1, 2>>, <<3, 1, 1>>, <<1, 1, 2>>}]

VARIABLE part

Measure == INSTANCE Measures

OneRow   == [r \in {0} |-> [c \in 1 .. K |-> 1]]
NoEdges  == {<<r, r>> : r \in 0 .. 3}

MCInit ==
  /\ part \in {"search", "measure", "face"}
  /\ \/ part = "search" /\ Init
     \/ /\ part = "measure"
        /\ p \in Puzzles0 \cup Unsorted
        /\ Height(p) <= 3
        /\ tdm = {} /\ method = "none" /\ step = 0 /\ used2 = {} /\ used3 = {}
        /\ layerCounts = [r \in {} |-> 0] /\ isIdent = TRUE /\ verdict = "maybe"
     \/ part = "face" /\ p = OneRow /\ Init
  /\ FaceInit
  /\ part # "face" => edges = NoEdges

MCNext ==
  /\ UNCHANGED part
  /\ \/ part = "search" /\ Next /\ UNCHANGED faceVars
     \/ part = "face" /\ FaceNext /\ UNCHANGED vars

MCSpec == MCInit /\ [][MCNext]_<<vars, faceVars, part>>

-----------------------------------------------------------------------------
\* All the checkers decide the definition, with and without "strong", and the
\* modes of check only ever say less: what passes the local test passes the one
\* by 2D matchings, and what passes that is a (strong) USP.  The heuristics that
\* look at pieces, pairs or triples of rows reject none.
CheckersExact ==
  method = "none" /\ step = 0 =>
    \A strong \in BOOLEAN :
      LET T == Instance(p, strong)
          usp == IF IsUSP(p, strong) THEN "yes" ELSE "no"
      IN  /\ CheckUni(T, N) = usp /\ CheckBi(T, N) = usp /\ CheckSat(T, N) = usp
          /\ Check(p, "full", strong) = usp
          /\ Check(p, "local", strong) = "yes" => Check(p, "obvious", strong) = "yes"
          /\ Check(p, "obvious", strong) = "yes" => usp = "yes"
          /\ "no" \in {UspPieces(p), RowPairs(p, "full", strong), RowTriples(p, "full", strong)}
               => usp = "no"

\* A puzzle with the maximal fitness is what the search looks for (see Measures).
MeasuresHonest == part = "measure" => Measure!MeasuresHonest(p)
=============================================================================
