------------------------------- MODULE PuzOps -------------------------------
(***************************************************************************)
(* The representation of puzzles (Puz): s rows of k entries 1, 2 or 3, two *)
(* bits each, Elts of them to a word, a new word for every row.  A word is *)
(* a number, a shift a power of four.                                      *)
(***************************************************************************)
EXTENDS Integers, FiniteSetsExt, SequencesExt

CONSTANT Elts      \* ELTS_PER_ENTRY: 32 in the program, one or more

Values == 1 .. 3

\* entries_per_row, whether by ceil, by rounding up, or by shift and mask.
EntriesPerRow(k) == (k + Elts - 1) \div Elts
WordOf(k, r, c)  == r * EntriesPerRow(k) + c \div Elts
Shift(c)         == 4 ^ (c % Elts)

RowsOf(p) == 0 .. (p.s - 1)
ColsOf(p) == 0 .. (p.k - 1)

\* get and set
Get(p, r, c) == ((p.data[WordOf(p.k, r, c)] \div Shift(c)) % 4) + 1
Put(p, r, c, val) ==
  [p EXCEPT !.data[WordOf(p.k, r, c)] = @ + (val - Get(p, r, c)) * Shift(c)]

\* setSize and the loops that then set every entry: the puzzle of a function.
Fill(s, k, entry(_, _)) ==
  [s |-> s, k |-> k,
   data |-> [w \in 0 .. (s * EntriesPerRow(k) - 1) |->
     LET r == w \div EntriesPerRow(k)
         here == {c \in 0 .. (k - 1) : WordOf(k, r, c) = w}
     IN  MapThenSumSet(LAMBDA c : (entry(r, c) - 1) * Shift(c), here)]]

Ones(s, k) == Fill(s, k, LAMBDA r, c : 1)

-----------------------------------------------------------------------------
(* Puzzles from puzzles.                                                   *)

\* The rows of both; the narrower one is padded with 1's.
Union(p, q) ==
  Fill(p.s + q.s, Max({p.k, q.k}),
       LAMBDA r, c : IF r < p.s THEN (IF c < p.k THEN Get(p, r, c) ELSE 1)
                     ELSE IF c < q.k THEN Get(q, r - p.s, c) ELSE 1)

\* operator*
Product(p, q) ==
  Fill(p.s * q.s, p.k + q.k,
       LAMBDA r, c : IF c < p.k THEN Get(p, r \div q.s, c) ELSE Get(q, r % q.s, c - p.k))

\* getMinor: the i-th of the rows or columns to keep, counted from zero.
Nth(keep, i) == CHOOSE x \in keep : Cardinality({y \in keep : y < x}) = i
Minor(p, rows, cols) ==
  Fill(Cardinality(rows), Cardinality(cols), LAMBDA r, c : Get(p, Nth(rows, r), Nth(cols, c)))
MinorRow(p, row) == Minor(p, RowsOf(p) \ {row}, ColsOf(p))
MinorCol(p, col) == Minor(p, RowsOf(p), ColsOf(p) \ {col})

\* resizePuz copies the first words.
Resize(p, rows) ==
  [Ones(p.s + rows, p.k) EXCEPT
     !.data = [w \in DOMAIN @ |-> IF w \in DOMAIN p.data THEN p.data[w] ELSE 0]]

SetRow(p, row, q, otherRow) ==
  Fill(p.s, p.k, LAMBDA r, c : IF r = row THEN Get(q, otherRow, c) ELSE Get(p, r, c))

\* Faulty: the order of equal entries is turned around.  (Variants introduced by
\* "Faulty:" have a plausible bug.  No specification uses them; each shows that
\* some property can fail.)
CountingSortUnstable(p, perm, c) ==
  FlattenSeq([v \in Values |-> SelectSeq(Reverse(perm), LAMBDA r : Get(p, r, c) = v)])

\* sort: one stable counting sort for each column, the last one first.
CountingSort(p, perm, c) ==
  FlattenSeq([v \in Values |-> SelectSeq(perm, LAMBDA r : Get(p, r, c) = v)])
Sort(p) ==
  LET perm == FoldRight(LAMBDA c, q : CountingSort(p, q, c), [i \in 1 .. p.k |-> i - 1],
                        [i \in 1 .. p.s |-> i - 1])
  IN  Fill(p.s, p.k, LAMBDA r, c : Get(p, perm[r + 1], c))

RowFull(p, r) == \A c \in ColsOf(p) : Get(p, r, c) = 3

\* Faulty: the leading 3's stay.
NextRowKeeping(p, r) ==
  LET stop == IF RowFull(p, r) THEN p.k ELSE Min({c \in ColsOf(p) : Get(p, r, c) # 3})
  IN  Fill(p.s, p.k, LAMBDA q, c : IF q # r \/ c # stop THEN Get(p, q, c) ELSE Get(p, r, c) + 1)

\* nextRow: leading 3's become 1's; there is no next row after all 3's.
NextRow(p, r) ==
  LET stop == IF RowFull(p, r) THEN p.k ELSE Min({c \in ColsOf(p) : Get(p, r, c) # 3})
  IN  Fill(p.s, p.k, LAMBDA q, c : IF q # r \/ c > stop THEN Get(p, q, c)
                                   ELSE IF c < stop THEN 1 ELSE Get(p, r, c) + 1)

\* next: the same, row by row.
NextPuz(p) ==
  LET stop == Min({p.s} \cup {r \in RowsOf(p) : ~RowFull(p, r)})
  IN  FoldLeft(NextRow, p, [i \in 1 .. Min({stop + 1, p.s}) |-> i - 1])
HasNext(p) == \E r \in RowsOf(p) : ~RowFull(p, r)

\* isWitness, word by word; the last word of a row may be filled in part.
InWord(p, i) == IF i < EntriesPerRow(p.k) - 1 THEN Elts
                ELSE IF p.k % Elts # 0 THEN p.k % Elts ELSE Elts
Digit(word, j) == (word \div 4 ^ j) % 4
WitnessInner(u1, u2, u3, n, strong) ==
  \E j \in 0 .. (n - 1) :
    LET count == Cardinality({v \in Values : Digit(<<u1, u2, u3>>[v], j) = v - 1})
    IN  IF strong THEN count = 2 ELSE count >= 2
Witness(p, r1, r2, r3, strong) ==
  \E i \in 0 .. (EntriesPerRow(p.k) - 1) :
    LET word(r) == p.data[r * EntriesPerRow(p.k) + i]
    IN  WitnessInner(word(r1), word(r2), word(r3), InWord(p, i), strong)

-----------------------------------------------------------------------------
(* To and from a buffer or a stream: height, width, words.                 *)

Serialize(p) == <<p.s, p.k>> \o [i \in 1 .. (p.s * EntriesPerRow(p.k)) |-> p.data[i - 1]]
Deserialize(buf) ==
  [s |-> buf[1], k |-> buf[2],
   data |-> [w \in 0 .. (buf[1] * EntriesPerRow(buf[2]) - 1) |-> buf[w + 3]]]

\* operator==
Equal(p, q) ==
  /\ p.s = q.s /\ p.k = q.k
  /\ \A r \in RowsOf(p), c \in ColsOf(p) : Get(p, r, c) = Get(q, r, c)
=============================================================================
