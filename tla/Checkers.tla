------------------------------ MODULE Checkers ------------------------------
(***************************************************************************)
(* The ways to decide whether a puzzle is a (strong) USP: the two searches *)
(* of checker.cpp, the reduction to SAT of 3DM_to_SAT.cpp, the heuristics  *)
(* that look at few rows or at the pieces of the rows, and check, which    *)
(* combines them by the height of the puzzle and the mode.                 *)
(***************************************************************************)
EXTENDS Usp, FiniteSetsExt, SequencesExt

CONSTANT BiLimit     \* 7: up to this height check searches in both directions

ASSUME LimitAssumption == BiLimit \in Nat /\ BiLimit >= 3

-----------------------------------------------------------------------------
(* The searches.                                                           *)

\* check_usp_uni: every pair of permutations.
CheckUni(T, s) ==
  IF \E f, g \in PermsOf(s) : ~(Ident(f) /\ Ident(g)) /\ \A i \in RowsOf(s) : <<i, f[i], g[i]>> \in T
  THEN "no" ELSE "yes"

\* check_usp_bi.  A partial map is the pair of sets of rows it has used, and
\* whether it is still the identity.  The memo tables hold no more than that.
Partial(s2, s3, id) == [s2 |-> s2, s3 |-> s3, id |-> id]
NoRows == Partial({}, {}, TRUE)
Extensions(T, s, i, m) ==
  {Partial(m.s2 \cup {e[1]}, m.s3 \cup {e[2]}, m.id /\ e = <<i, i>>) :
     e \in {e \in (RowsOf(s) \ m.s2) \X (RowsOf(s) \ m.s3) : <<i, e[1], e[2]>> \in T}}

\* find_witness_forward: what the first rows can use, for each number of them.
Forward(T, s) ==
  LET level[n \in 0 .. (s \div 2)] ==
        IF n = 0 THEN {NoRows}
        ELSE UNION {Extensions(T, s, n - 1, m) : m \in level[n - 1]}
  IN  UNION {level[n] : n \in DOMAIN level}

\* Faulty: an identity may be completed by an identity.  (Variants introduced by
\* "Faulty:" have a plausible bug.  No specification uses them; each shows that
\* some property can fail.)
CompletesAnyhow(memo, s, m) ==
  \E id \in BOOLEAN : Partial(RowsOf(s) \ m.s2, RowsOf(s) \ m.s3, id) \in memo

\* An identity must be completed by something else.
Completes(memo, s, m) ==
  \E id \in BOOLEAN : /\ Partial(RowsOf(s) \ m.s2, RowsOf(s) \ m.s3, id) \in memo
                      /\ ~(m.id /\ id)

\* find_witness_reverse: from the last row to the middle one.
RECURSIVE FindReverse(_, _, _, _, _)
FindReverse(T, s, memo, i, m) ==
  IF i < (s - 1) \div 2
  THEN Completes(memo, s, m)
  ELSE \E n \in Extensions(T, s, i, m) : FindReverse(T, s, memo, i - 1, n)

CheckBi(T, s) ==
  IF FindReverse(T, s, Forward(T, s), s - 1, NoRows) THEN "no" ELSE "yes"

-----------------------------------------------------------------------------
(* The reduction to SAT: x[r1, r2] and y[r1, r3] say where row r1 goes.  A *)
(* literal is a variable with a sign.                                      *)

VarX(r1, r2, s) == r1 * s + r2
VarY(r1, r3, s) == s * s + r1 * s + r3
Pos(v) == <<v, TRUE>>
Neg(v) == <<v, FALSE>>
Two(v, w) == {Neg(v), Neg(w)}

\* Where an entry is missing; then, of two, one at most, in a layer or in a slice.
Exclusions(T, s) ==
  LET R == RowsOf(s)
      missing == (R \X R \X R) \ T
      pairs == {e \in R \X R : e[1] < e[2]}
  IN  {Two(VarX(c[1], c[2], s), VarY(c[1], c[3], s)) : c \in missing}
      \cup UNION {{Two(VarX(r, e[1], s), VarX(r, e[2], s)), Two(VarY(r, e[1], s), VarY(r, e[2], s)),
                   Two(VarX(e[1], r, s), VarX(e[2], r, s)), Two(VarY(e[1], r, s), VarY(e[2], r, s))} :
                  <<r, e>> \in R \X pairs}

\* One at least in every layer and every slice.
Existence(s) ==
  LET R == RowsOf(s)
  IN  UNION {{{Pos(VarX(r, q, s)) : q \in R}, {Pos(VarY(r, q, s)) : q \in R},
              {Pos(VarX(q, r, s)) : q \in R}, {Pos(VarY(q, r, s)) : q \in R}} : r \in R}

NotDiagonal(s) == UNION {{Neg(VarX(r, r, s)), Neg(VarY(r, r, s))} : r \in RowsOf(s)}

\* construct_reduction
Clauses(T, s) == Exclusions(T, s) \cup Existence(s) \cup {NotDiagonal(s)}

\* The solver: whether some assignment satisfies all clauses.
RECURSIVE Solvable(_, _, _)
Solvable(clauses, v, n) ==
  IF {} \in clauses THEN FALSE
  ELSE IF v = n THEN TRUE
  ELSE \E sign \in BOOLEAN :
         Solvable({c \ {<<v, ~sign>>} : c \in {d \in clauses : <<v, sign>> \notin d}}, v + 1, n)

\* check_SAT, not interrupted
CheckSat(T, s) == IF Solvable(Clauses(T, s), 0, 2 * s * s) THEN "no" ELSE "yes"

-----------------------------------------------------------------------------
(* The heuristics, and check.                                              *)

\* getMinor: rows in the order they are listed.
Minor(p, rows) == [i \in 0 .. (Len(rows) - 1) |-> p[rows[i + 1]]]

\* check2: the three ways to swap two rows, or, locally, all entries.
Check2(p, r1, r2, mode, strong) ==
  LET entry(a, b, c) == ~IsWitness(p, <<a, b, c>>, strong)
      swaps == \/ entry(r1, r1, r2) /\ entry(r2, r2, r1)
               \/ entry(r1, r2, r1) /\ entry(r2, r1, r2)
               \/ entry(r2, r1, r1) /\ entry(r1, r2, r2)
      rows  == {r1, r2}
      count == Cardinality({c \in rows \X rows \X rows : entry(c[1], c[2], c[3])})
  IN  IF (mode # "local" /\ ~swaps) \/ (mode = "local" /\ count = 2) THEN "yes" ELSE "no"

\* heuristic_row_pairs
RowPairs(p, mode, strong) ==
  IF \E r1, r2 \in DOMAIN p : r1 < r2 /\ Check2(p, r1, r2, mode, strong) = "no"
  THEN "no" ELSE "maybe"

\* heuristic_usp_pieces: two rows with the same places of some value.
Piece(p, r, val) == {i \in DOMAIN p[r] : p[r][i] = val}
UspPieces(p) ==
  IF Height(p) <= 1 THEN "yes"
  ELSE IF \E r1, r2 \in DOMAIN p, val \in Values : r1 # r2 /\ Piece(p, r1, val) = Piece(p, r2, val)
  THEN "no" ELSE "maybe"

\* TDM::simplify for any height: the largest part of T no face can simplify.
SimplifyAny(T, s) ==
  LET closed(E, R) == \A e \in E : e[1] \in R => e[2] \in R
      reaches(E, u, v) == \A R \in SUBSET RowsOf(s) : u \in R /\ closed(E, R) => v \in R
      keep(U, f) == LET E == Projection(U, f)
                    IN  {c \in U : reaches(E, Edge(f, c)[2], Edge(f, c)[1])}
      after[n \in 0 .. 3 * s * s] == IF n = 0 THEN T ELSE keep(after[n - 1], n % 3)
  IN  after[3 * s * s]

RECURSIVE Check(_, _, _), RowTriples(_, _, _)

\* heuristic_row_triples; check3 is check of the minor with three rows.
RowTriples(p, mode, strong) ==
  IF \E r1, r2, r3 \in DOMAIN p : r1 < r2 /\ r2 < r3 /\ Check(Minor(p, <<r1, r2, r3>>), mode, strong) = "no"
  THEN "no" ELSE "maybe"

\* Without a MIP solver, and with an instance of its own.
Check(p, mode, strong) ==
  LET s == Height(p)
      T == Instance(p, strong)
  IN  IF s <= 1 THEN "yes"
      ELSE IF s = 2 THEN Check2(p, 0, 1, mode, strong)
      ELSE IF UspPieces(p) # "maybe" THEN UspPieces(p)
      ELSE IF mode # "full"
      THEN IF Cardinality(IF mode = "obvious" THEN SimplifyAny(T, s) ELSE T) = s
           THEN "yes" ELSE "no"
      ELSE IF s <= BiLimit THEN CheckBi(T, s)
      ELSE IF RowTriples(p, mode, strong) # "maybe" THEN RowTriples(p, mode, strong)
      ELSE CheckSat(SimplifyAny(T, s), s)
=============================================================================
