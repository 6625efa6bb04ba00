------------------------------ MODULE Measures ------------------------------
(***************************************************************************)
(* The fitness functions without a state of their own (fitness.cpp) and    *)
(* the test for hierarchically special puzzles (special.cpp).  A measure   *)
(* is a pair: the fitness and its maximum.  All weights are integers       *)
(* (doubles in the code, which represent them exactly up to 2^53).         *)
(*                                                                         *)
(* The mark of a puzzle as simplified is the subject of PuzMarks: here     *)
(* TDMSizeFitTester simplifies the instance itself.                        *)
(***************************************************************************)
EXTENDS Checkers

Fit(m)   == m[1]
Top(m)   == m[2]
AtTop(m) == Fit(m) = Top(m)
Width(p) == Cardinality(DOMAIN p[0])

Product(N)   == FoldSet(LAMBDA a, b : a * b, 1, N)
FullUsp(p, strong) == Check(p, "full", strong) = "yes"
MinorOf(p, R) == Minor(p, SetToSortSeq(R, LAMBDA a, b : a < b))

-----------------------------------------------------------------------------
(* Measures by subpuzzles.                                                 *)

\* weight_function
Weight(n, exponential) == IF exponential THEN 2 ^ (n - 1) + 1 ELSE 1

\* SubsetFitTester, with force_size = 0: every measure it may return, as the
\* samples are random.  A sample drops n rows, and is worth the weight of n.  The
\* puzzle has two rows at least (weight_function asserts it).
SampleWorth(p, strong, exponential) ==
  UNION {{IF FullUsp(MinorOf(p, DOMAIN p \ R), strong) THEN Weight(n, exponential) ELSE 0 :
            R \in kSubset(n, DOMAIN p)} : n \in 2 .. (Height(p) - 1)}
SubsetFits(p, strong, exponential) ==
  LET s   == Height(p)
      top == s * s * Weight(s, exponential)
      worth == SampleWorth(p, strong, exponential)
      sums[n \in 0 .. (s * s - 1)] ==
        IF n = 0 THEN {0} ELSE {a + w : a \in sums[n - 1], w \in worth}
  IN  IF FullUsp(p, strong) THEN {<<top, top>>}
      ELSE IF s <= 2 THEN {<<0, top>>}
      ELSE {<<fit, top>> : fit \in sums[s * s - 1]}

\* TopDownFitTester: a strong USP counts as all of its subpuzzles, another puzzle
\* as the sum of the minors without one row.
TopDownTop(s) == s ^ (s - 1) + 1
RECURSIVE TopDownHelper(_, _, _)
TopDownHelper(p, depth, maxDepth) ==
  IF Height(p) = 1 THEN 1
  ELSE IF FullUsp(p, TRUE) THEN TopDownTop(Height(p))
  ELSE IF depth > maxDepth THEN 0
  ELSE MapThenSumSet(LAMBDA r : TopDownHelper(MinorOf(p, DOMAIN p \ {r}), depth + 1, maxDepth),
                     DOMAIN p)
TopDown(p, maxDepth) == <<TopDownHelper(p, 0, maxDepth), TopDownTop(Height(p))>>

-----------------------------------------------------------------------------
(* Measures by rows, pieces and permutations.                              *)

\* DefinitionFitTester: the pairs of permutations the puzzle withstands; the pair
\* of identities counts too.
Touches(p, f, g) == \E r \in DOMAIN p : IsWitness(p, <<r, f[r], g[r]>>, TRUE)
Definition(p) ==
  LET s == Height(p)
      P == PermsOf(s)
  IN  <<Cardinality({fg \in P \X P : (Ident(fg[1]) /\ Ident(fg[2])) \/ Touches(p, fg[1], fg[2])}),
        Product({i * i : i \in 1 .. s})>>

\* PiecesFitTester: for each value, by how much its pieces are repeated.
Pieces(p) ==
  LET s   == Height(p)
      top == 3 * (s - 1) * (s - 1)
      pieces == {<<val, Piece(p, r, val)>> : val \in Values, r \in DOMAIN p}
      repeated(e) == Cardinality({r \in DOMAIN p : Piece(p, r, e[1]) = e[2]}) - 1
  IN  <<top - MapThenSumSet(LAMBDA e : repeated(e) * repeated(e), pieces), top>>

\* TDMSizeFitTester: a column of few values (is_special_col), pairs of rows, and
\* the size of the instance, in this order.  The next stage is looked at only
\* when those before are perfect.
ValuesIn(p, c, R) == {p[r][c] : r \in R}
SpecialCol(p, c, R) == ValuesIn(p, c, R) # Values

MaxFail == 4
Perfect(s) == s * s * s - s         \* size_fit_max
TdmSize(p, mode, strong, requireSpecial) ==
  LET s == Height(p)
      k == Width(p)
      required == Min({requireSpecial, k})
      special  == Cardinality({c \in 1 .. required : SpecialCol(p, c, DOMAIN p)})
      seen     == UNION {ValuesIn(p, c, DOMAIN p) : c \in 1 .. required}
      columnWorth == (s * (k + 1) + 1) * (MaxFail + 1) * (Perfect(s) + 1)
      columns  == IF seen = Values \/ required <= 1 THEN special * columnWorth ELSE 0
      pairWorth == (s * (k + 1) + 1) * (Perfect(s) + 1)
      failing  == Cardinality({e \in (DOMAIN p) \X (DOMAIN p) :
                                 e[1] < e[2] /\ Check2(p, e[1], e[2], mode, strong) # "yes"})
      fail     == IF columns = required * columnWorth THEN Min({failing, MaxFail}) ELSE MaxFail
      pairs    == (MaxFail - fail) * pairWorth
      T        == Instance(p, strong)
      count    == Cardinality(IF mode = "obvious" THEN SimplifyAny(T, s) ELSE T)
      size     == IF columns + pairs = required * columnWorth + MaxFail * pairWorth
                  THEN Perfect(s) - (count - s) ELSE 0
  IN  IF s <= 1 THEN <<1, 1>>
      ELSE <<columns + pairs + size, required * columnWorth + MaxFail * pairWorth + Perfect(s)>>

-----------------------------------------------------------------------------
(* Hierarchically special puzzles: sorted, the first column has at most two *)
(* values, and so have the next columns of both blocks of rows.            *)

\* Puz::sort
InOrder(a, b) == \E c \in DOMAIN a : a[c] < b[c] /\ \A d \in 1 .. (c - 1) : a[d] = b[d]
SortRows(p) ==
  LET before(r, q) == InOrder(p[q], p[r]) \/ (p[q] = p[r] /\ q < r)
      place(r) == Cardinality({q \in DOMAIN p : before(r, q)})
  IN  [i \in DOMAIN p |-> p[CHOOSE r \in DOMAIN p : place(r) = i]]

\* Faulty: one row too many is left in the last column.  (A variant with a
\* plausible bug; nothing else uses it.)
FinishedAnyhow(rows, c, k) == c > k

\* In the last column only a block of one row can be told from all others.
Finished(rows, c, k) == c > k \/ (c = k /\ Cardinality(rows) # 1)

\* hierarchically_special(p, r1, r2, c): the entries in the blocks that fail.
RECURSIVE HsBlock(_, _, _)
HsBlock(p, rows, c) ==
  LET k == Width(p)
      fails == Cardinality(rows) * (k + 1 - c)
      first == p[Min(rows)][c]
      upper == {r \in rows : \A q \in rows : q <= r => p[q][c] = first}
      lower == rows \ upper
      second == p[Min(lower)][c]
      ordered == first < second /\ \A r \in lower : p[r][c] = second
  IN  IF Finished(rows, c, k) \/ ~SpecialCol(p, c, rows) THEN fails
      ELSE IF lower = {} THEN HsBlock(p, rows, c + 1)
      ELSE IF ~ordered THEN fails
      ELSE HsBlock(p, upper, c + 1) + HsBlock(p, lower, c + 1)
Hs(p) == HsBlock(p, DOMAIN p, 1)

\* hierarchically_special_unordered: the best order of the columns.
ColumnOrders(p) == {f \in [1 .. Width(p) -> 1 .. Width(p)] :
                      \A c, d \in DOMAIN f : f[c] = f[d] => c = d}
Reordered(p, f) == [r \in DOMAIN p |-> [c \in DOMAIN f |-> p[r][f[c]]]]
HsUnordered(p)  == Min({Hs(SortRows(Reordered(p, f))) : f \in ColumnOrders(p)})

\* HSFitTester
HsFit(p) == LET top == Height(p) * Width(p)
            IN  IF Height(p) <= 1 THEN <<1, 1>> ELSE <<top - Hs(SortRows(p)), top>>

-----------------------------------------------------------------------------
\* Hierarchically special, without recursion: any two rows differ before the last
\* column, and rows that agree so far take at most two values next.
HsDefinition(p) ==
  \A q, r \in DOMAIN p : \A c \in 1 .. Width(p) :
    LET agree(i, j) == \A d \in 1 .. (c - 1) : p[i][d] = p[j][d]
    IN  q # r /\ agree(q, r) => /\ c # Width(p)
                               /\ SpecialCol(p, c, {j \in DOMAIN p : agree(q, j)})

\* What the search builds on: a puzzle with the maximal fitness is a (strong) USP.
\* It is the fitness exactly of these for the subsets and the definition, and with
\* two rows or more from the top down (a single row falls one short of its
\* maximum).  A puzzle that is one has no repeated piece.  The blocks that fail are
\* none for the hierarchically special puzzles (which need not be USPs).
MeasuresHonest(p) ==
  /\ AtTop(Definition(p)) <=> IsUSP(p, TRUE)
  /\ Height(p) >= 2 => (AtTop(TopDown(p, 3)) <=> IsUSP(p, TRUE))
  /\ AtTop(HsFit(p)) <=> HsDefinition(p)
  /\ (HsUnordered(p) = 0) <=> \E f \in ColumnOrders(p) : HsDefinition(Reordered(p, f))
  /\ \A strong \in BOOLEAN :
       LET usp == IsUSP(p, strong)
       IN  /\ Height(p) >= 2 =>
                \A exponential \in BOOLEAN : \A m \in SubsetFits(p, strong, exponential) :
                  AtTop(m) <=> usp
           /\ usp => AtTop(Pieces(p))
           /\ \A mode \in {"local", "obvious"}, special \in 0 .. 2 :
                LET m == TdmSize(p, mode, strong, special)
                IN  Fit(m) <= Top(m) /\ (AtTop(m) => usp)
=============================================================================
