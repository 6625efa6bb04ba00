---------------------------- MODULE Permutations ----------------------------
(***************************************************************************)
(* Permutation: the list of the images of 0 .. s - 1 (outs).               *)
(***************************************************************************)
EXTENDS Integers, FiniteSetsExt, SequencesExt

Indices(p) == 0 .. (Len(p) - 1)
At(p, i)   == p[i + 1]
FromFunction(n, f(_)) == [i \in 1 .. n |-> f(i - 1)]
Swap(p, i, j) == [p EXCEPT ![i + 1] = p[j + 1], ![j + 1] = p[i + 1]]

Identity(n) == FromFunction(n, LAMBDA i : i)
IsIdentity(p) == \A i \in Indices(p) : At(p, i) = i

\* validate
Valid(outs) == /\ Len(outs) >= 1
               /\ \A n \in ToSet(outs) : n \in Indices(outs)
               /\ Cardinality(ToSet(outs)) = Len(outs)

Apply(p, nums)   == [i \in DOMAIN nums |-> At(p, nums[i])]
Compose(p, other) == Apply(other, p)

\* operator<: the size, then the first place that differs.
Less(p, q) ==
  \/ Len(p) < Len(q)
  \/ /\ Len(p) = Len(q)
     /\ \E i \in DOMAIN p : p[i] < q[i] /\ \A j \in 1 .. (i - 1) : p[j] = q[j]

IsLast(p) == \A i \in 1 .. (Len(p) - 1) : p[i] >= p[i + 1]

\* next: the last ascent, the last element above it, and the rest reversed by
\* swaps from both ends.
Ascents(p) == {j \in 0 .. (Len(p) - 2) : At(p, j) <= At(p, j + 1)}
NextPerm(p) ==
  IF Ascents(p) = {} THEN Identity(Len(p))
  ELSE LET j == Max(Ascents(p))
           k == Max({i \in Indices(p) : At(p, j) <= At(p, i) /\ i # j})
           n == Len(p) - 1 - j
       IN  FoldLeft(LAMBDA q, i : Swap(q, j + 1 + i, Len(p) - 1 - i), Swap(p, j, k),
                    [i \in 1 .. (n \div 2) |-> i - 1])

-----------------------------------------------------------------------------
(* Indices: the place of a permutation in the order of next.               *)

Factorial(n) == LET f[i \in 0 .. n] == IF i = 0 THEN 1 ELSE i * f[i - 1] IN f[n]

GetIndex(p) ==
  MapThenSumSet(
    LAMBDA i : Cardinality({j \in Indices(p) : j > i /\ At(p, i) > At(p, j)})
               * Factorial(Len(p) - i - 1), Indices(p))

\* The constructor: with what is left of the index (counted from one), take the
\* element in whose block it lies and go on inside the block.
FromIndex(n, index) ==
  LET take(done, m) ==
        LET block == Factorial(m - 1)
            i == Max({j \in 0 .. (m - 1) : done.left - j * block \in 1 .. block})
        IN  [left |-> done.left - i * block,
             outs |-> Append(done.outs, done.elements[i + 1]),
             elements |-> RemoveAt(done.elements, i + 1)]
  IN  FoldRight(LAMBDA m, done : take(done, m), [m \in 1 .. n |-> m],
                [left |-> (index % Factorial(n)) + 1, outs |-> << >>, elements |-> Identity(n)]).outs

-----------------------------------------------------------------------------
(* Inversion in place, and cycles.                                         *)

\* One walk around the cycle of start: every image but start's is replaced by
\* its preimage, marked by its sign.
Walk(outs, start) ==
  LET RECURSIVE along(_, _, _)
      along(q, prev, curr) ==
        IF curr = start THEN [q EXCEPT ![start + 1] = prev]
        ELSE along([q EXCEPT ![curr + 1] = -prev - 1], curr, At(q, curr))
  IN  along(outs, start, At(outs, start))

Invert(p) ==
  IF IsIdentity(p) THEN p
  ELSE FoldLeft(LAMBDA q, i : IF At(q, i) < 0 THEN [q EXCEPT ![i + 1] = -At(q, i) - 1]
                              ELSE Walk(q, i), p, Identity(Len(p)))

\* getDisjointCycles: from each element no cycle has reached, unless it is fixed.
Cycle(p, start) ==
  LET RECURSIVE from(_)
      from(c) == IF At(p, Last(c)) = start THEN c ELSE from(Append(c, At(p, Last(c))))
  IN  from(<<start>>)
DisjointCycles(p) ==
  FoldLeft(LAMBDA cs, i : IF At(p, i) = i \/ (\E j \in DOMAIN cs : i \in ToSet(cs[j])) THEN cs
                          ELSE Append(cs, Cycle(p, i)), << >>, Identity(Len(p)))

\* getTwoCycles: of each cycle, its first element with the others, last to first.
TwoCycles(p) ==
  FlattenSeq([n \in DOMAIN DisjointCycles(p) |->
    LET c == DisjointCycles(p)[n]
    IN  [i \in 1 .. (Len(c) - 1) |-> <<c[1], c[Len(c) + 1 - i]>>]])
=============================================================================
