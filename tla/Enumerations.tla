---------------------------- MODULE Enumerations ----------------------------
(***************************************************************************)
(* The loops over all puzzles of a size (init, next) and over all          *)
(* permutations (next, isLast), side by side, to check at every puzzle and *)
(* permutation what Puz and Permutation compute.                           *)
(***************************************************************************)
EXTENDS PuzOps

CONSTANTS S, K, N      \* the size of the puzzles, the size of the permutations

\* What the constants must satisfy.
EnumerationConstants == {S, K, N, Elts} \subseteq Nat \ {0}

P == INSTANCE Permutations

VARIABLES
  puz, more,    \* the puzzle, and what the last next returned
  perm

vars == <<puz, more, perm>>

Init == puz = Ones(S, K) /\ more = TRUE /\ perm = P!Identity(N)

Step ==
  /\ puz' = NextPuz(puz) /\ more' = HasNext(puz)
  /\ perm' = P!NextPerm(perm)

Spec == Init /\ [][Step]_vars

-----------------------------------------------------------------------------
\* The entries are the digits of a number, the first one the lowest.
Number(p) == MapThenSumSet(LAMBDA e : (Get(p, e[1], e[2]) - 1) * 3 ^ (e[1] * p.k + e[2]),
                           RowsOf(p) \X ColsOf(p))

SuccessorStep ==
  /\ Number(puz') = (Number(puz) + 1) % 3 ^ (S * K)
  /\ more' = (Number(puz') # 0)
  /\ P!Valid(perm')
  /\ P!IsLast(perm) <=> P!IsIdentity(perm')
  /\ P!Less(perm, perm') <=> ~P!IsLast(perm)
  /\ P!GetIndex(perm') = (P!GetIndex(perm) + 1) % P!Factorial(N)

\* Each loop visits everything once: next goes to the successor in a fixed order,
\* starts again after the last, and isLast or its result say so in time.
NextIsSuccessor == [][SuccessorStep]_vars

PackingExact ==
  /\ \A r, q \in RowsOf(puz), c, d \in ColsOf(puz), v \in Values :
       Get(Put(puz, r, c, v), q, d) = IF r = q /\ c = d THEN v ELSE Get(puz, q, d)
  /\ \A r1, r2, r3 \in RowsOf(puz), strong \in BOOLEAN :
       Witness(puz, r1, r2, r3, strong) <=>
         \E c \in ColsOf(puz) :
           LET count == Cardinality({v \in Values : Get(puz, <<r1, r2, r3>>[v], c) = v})
           IN  IF strong THEN count = 2 ELSE count >= 2
  /\ Equal(Deserialize(Serialize(puz)), puz) /\ Deserialize(Serialize(puz)) = puz

RowAt(p, r)  == [c \in 1 .. p.k |-> Get(p, r, c - 1)]
CountOf(p, row) == Cardinality({r \in RowsOf(p) : RowAt(p, r) = row})

PuzzlesExact ==
  /\ LET q == Sort(puz)
     IN  /\ \A r \in 1 .. (S - 1) : ~P!Less(RowAt(q, r), RowAt(q, r - 1))
         /\ \A r \in RowsOf(puz) : CountOf(q, RowAt(puz, r)) = CountOf(puz, RowAt(puz, r))
  /\ LET q == NextPuz(puz)
         u == Union(puz, q)
         x == Product(puz, q)
     IN  /\ Minor(u, RowsOf(puz), ColsOf(puz)) = puz
         /\ Minor(u, S .. (2 * S - 1), ColsOf(q)) = q
         /\ Resize(u, -S) = puz /\ Resize(puz, S) = Union(puz, Ones(S, K))
         /\ \A r \in RowsOf(puz) :
              LET slice == Minor(x, (r * S) .. (r * S + S - 1), ColsOf(x))
              IN  /\ Minor(slice, RowsOf(q), K .. (2 * K - 1)) = q
                  /\ \A i \in RowsOf(q) : RowAt(Minor(slice, {i}, ColsOf(puz)), 0) = RowAt(puz, r)
         /\ \A r \in RowsOf(puz) :
              S > 1 => MinorRow(SetRow(puz, r, q, 0), r) = MinorRow(puz, r)
         /\ \A c \in ColsOf(puz) : K > 1 => RowAt(MinorCol(puz, c), 0) = RemoveAt(RowAt(puz, 0), c + 1)

PermutationsExact ==
  /\ P!Compose(perm, P!Invert(perm)) = P!Identity(N)
  /\ P!Compose(P!Invert(perm), perm) = P!Identity(N)
  /\ P!FromIndex(N, P!GetIndex(perm)) = perm
  /\ FoldLeft(LAMBDA q, t : P!Compose(P!Swap(P!Identity(N), t[1], t[2]), q),
              P!Identity(N), P!TwoCycles(perm)) = perm

\* Two bits of a word are an entry: whatever is written is read back, nothing else
\* changes across the boundaries of words and rows, isWitness on the words says
\* what it says on the entries, and a buffer gives back the puzzle.  Sorting puts
\* the rows in order and loses none; the operations that build puzzles from
\* puzzles fit together, so that each undoes the other.  Inverses, indices and
\* cycles are those of the permutation (its transpositions are a product, so that
\* the last one acts first).
OperationsExact == PackingExact /\ PuzzlesExact /\ PermutationsExact
=============================================================================
