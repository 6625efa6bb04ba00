---------------------------- MODULE EdgeCriteria ----------------------------
(***************************************************************************)
(* The two criteria by which an edge of a face is removed.  simplify_cpu   *)
(* asks allowed_matching_edges for the edges between two strongly          *)
(* connected components; simplify_cpu_slow asks, edge by edge, whether     *)
(* has_perfect_bipartite_matching finds a matching of the minor left when  *)
(* the rows of the edge are taken out.  Here both run on the same face,    *)
(* the first to its end and then the second on any of the edges.           *)
(***************************************************************************)
EXTENDS AllowedEdges

VARIABLES
  edge,                        \* the edge being tested
  minor,                       \* minor
  residual, prev, curr, next,  \* has_perfect_bipartite_matching
  matchingSize, pc

testVars == <<edge, minor, residual, prev, curr, next, matchingSize, pc>>

Bip == INSTANCE BipartiteMatching WITH N <- S - 1, M <- minor, G <- residual

NoEdge == << >>

\* The face without row e[1] and column e[2], renumbered.
FaceMinor(e) ==
  LET shift(i, out) == IF i > out THEN i - 1 ELSE i
  IN  {<<shift(f[1], e[1]), shift(f[2], e[2])>> :
         f \in {g \in edges : g[1] # e[1] /\ g[2] # e[2]}}

FaceInit ==
  /\ DfsInit
  /\ edge = NoEdge
  /\ minor = {} /\ residual = {}
  /\ prev = Bip!Fresh /\ curr = Bip!Src /\ next = 0
  /\ matchingSize = 0 /\ pc = "done"

BeginTest ==
  /\ Searched /\ edge = NoEdge
  /\ \E e \in edges :
       /\ e[1] # e[2]
       /\ edge' = e
       /\ minor' = FaceMinor(e)
  /\ residual' = Bip!Network(minor')
  /\ pc' = "search"
  /\ UNCHANGED <<dfsVars, prev, curr, next, matchingSize>>

FaceNext ==
  \/ (DfsNext /\ UNCHANGED testVars)
  \/ BeginTest
  \/ (Bip!Next /\ UNCHANGED <<dfsVars, edge>>)

faceVars == <<dfsVars, testVars>>
FaceSpec == FaceInit /\ [][FaceNext]_faceVars

-----------------------------------------------------------------------------
RemovesCrossEdges ==
  Searched /\ edge = NoEdge =>
    /\ ToSet(toRemove) = {e \in edges : ~SameScc(edges, e[1], e[2])}
    /\ Cardinality(ToSet(toRemove)) = Len(toRemove)

CriteriaAgree ==
  edge # NoEdge /\ pc = "done" => (edge \in ToSet(toRemove) <=> matchingSize # S - 1)

FlowIsMatching == edge # NoEdge => Bip!FlowIsMatching

\* The two searches list the edges between two strongly connected components,
\* each once: del_adj_node must not be called twice for an edge.  Both criteria
\* condemn the same edges: the components that simplify_cpu works with are the
\* matchings that simplify_cpu_slow looks for.  Between two augmentations the
\* reversed edges are a matching of the minor, of the size counted so far: no
\* augmentation loses an edge or shares a node.
EdgesRemoved == RemovesCrossEdges /\ CriteriaAgree /\ FlowIsMatching
=============================================================================
