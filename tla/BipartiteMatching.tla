------------------------- MODULE BipartiteMatching -------------------------
(***************************************************************************)
(* has_perfect_bipartite_matching: the Ford-Fulkerson search for a perfect *)
(* matching of an n by n Boolean matrix.  augment_path is one iterative    *)
(* depth-first search over a residual graph whose only record of the path  *)
(* is prev[]; backtracking resumes at the node after the one it leaves.    *)
(***************************************************************************)
EXTENDS Integers, FiniteSets

CONSTANT N                    \* rows (and columns) of the matrix, possibly none

Rows  == 0 .. N - 1
Left  == Rows                 \* nodes of the rows,
Right == N .. 2 * N - 1       \* of the columns,
Src   == 2 * N                \* the source
Snk   == 2 * N + 1            \* and the sink
Nodes == 0 .. 2 * N + 1
Size  == 2 * N + 2
None  == -1

VARIABLES M,                  \* the matrix, as a set of pairs
          G,                  \* residual edges
          prev, curr, next,   \* locals of augment_path
          matchingSize,       \* matching_size
          pc                  \* "search", "augment" or "done"

vars == <<M, G, prev, curr, next, matchingSize, pc>>

Fresh == [i \in Nodes |-> IF i = Src THEN Src ELSE None]

\* The flow network of a matrix m, without any flow yet.
Network(m) == {<<Src, i>> : i \in Left} \cup {<<j, Snk>> : j \in Right}
                \cup {<<e[1], N + e[2]>> : e \in m}

Init ==
  /\ M \in SUBSET (Rows \X Rows)
  /\ G = Network(M)
  /\ prev = Fresh /\ curr = Src /\ next = 0
  /\ matchingSize = 0
  /\ pc = "search"

\* The first unvisited successor of curr from next on.
Open(j) == curr # j /\ <<curr, j>> \in G /\ prev[j] = None

FirstOpen(j) == /\ j \in next .. Size - 1 /\ Open(j)
                /\ \A i \in next .. j - 1 : ~Open(i)

Advance ==
  /\ pc = "search"
  /\ \E j \in Nodes : FirstOpen(j) /\ j # Snk /\ prev' = [prev EXCEPT ![j] = curr] /\ curr' = j
  /\ next' = 0
  /\ UNCHANGED <<M, G, matchingSize, pc>>

\* Faulty: one node is skipped after backtracking.  (Variants introduced by
\* "Faulty:" have a plausible bug.  No specification uses them; each shows that
\* some property can fail.)
BacktrackSkipping ==
  /\ pc = "search" /\ curr # Src /\ \A j \in next .. Size - 1 : ~Open(j)
  /\ next' = curr + 2
  /\ curr' = prev[curr]
  /\ UNCHANGED <<M, G, prev, matchingSize, pc>>

Backtrack ==
  /\ pc = "search" /\ curr # Src /\ \A j \in next .. Size - 1 : ~Open(j)
  /\ next' = curr + 1
  /\ curr' = prev[curr]
  /\ UNCHANGED <<M, G, prev, matchingSize, pc>>

FoundSink ==
  /\ pc = "search" /\ FirstOpen(Snk)
  /\ next' = Snk
  /\ pc' = "augment"
  /\ UNCHANGED <<M, G, prev, curr, matchingSize>>

\* Faulty: the forward edge stays.
ReverseEdgeOnly ==
  /\ pc = "augment" /\ next # Src
  /\ G' = G \cup {<<next, curr>>}
  /\ next' = curr
  /\ curr' = prev[curr]
  /\ UNCHANGED <<M, prev, matchingSize, pc>>

\* Reverse the edges of the path one by one, from the sink to the source.
ReverseEdge ==
  /\ pc = "augment" /\ next # Src
  /\ G' = (G \ {<<curr, next>>}) \cup {<<next, curr>>}
  /\ next' = curr
  /\ curr' = prev[curr]
  /\ UNCHANGED <<M, prev, matchingSize, pc>>

Augmented ==
  /\ pc = "augment" /\ next = Src
  /\ matchingSize' = matchingSize + 1
  /\ prev' = Fresh /\ curr' = Src /\ next' = 0
  /\ pc' = "search"
  /\ UNCHANGED <<M, G>>

NoPath ==
  /\ pc = "search" /\ curr = Src /\ \A j \in next .. Size - 1 : ~Open(j)
  /\ pc' = "done"
  /\ UNCHANGED <<M, G, prev, curr, next, matchingSize>>

Next == Advance \/ Backtrack \/ FoundSink \/ ReverseEdge \/ Augmented \/ NoPath
Spec == Init /\ [][Next]_vars

-----------------------------------------------------------------------------
\* Between two searches the reversed edges are a matching of the size counted
\* so far, made of edges of the matrix: no augmentation loses or shares one.
Matched == {e \in Rows \X Rows : <<N + e[2], e[1]>> \in G}

FlowIsMatching ==
  pc = "search" =>
    /\ Matched \subseteq M /\ Cardinality(Matched) = matchingSize
    /\ \A d, e \in Matched : d[1] = e[1] \/ d[2] = e[2] => d = e
=============================================================================
