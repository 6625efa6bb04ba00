------------------------------- MODULE TdmCpu -------------------------------
(***************************************************************************)
(* TDM::simplify_cpu.  Unlike TdmSimplify it never recomputes a projection *)
(* of the instance: it keeps, for each of the three faces, how many        *)
(* entries show at each edge, and threads the edges with a positive count  *)
(* on doubly linked lists by row and by column, which the search for       *)
(* strongly connected components walks.  Removing an edge of one face      *)
(* updates the counts and the lists of the other two.                      *)
(***************************************************************************)
EXTENDS TdmInputs, Sequences

CONSTANT None            \* NULL

VARIABLES cpuTdm, cpuIter,
          cpuNoChange,   \* no_change
          proj,          \* projections[3]
          todo           \* to_remove: edges of the current face still to remove

cpuVars == <<input, cpuTdm, cpuIter, cpuNoChange, proj, todo>>

Nodes   == Rows \X Rows
Dirs    == 0 .. 1
CpuFace == cpuIter % 3

ASSUME NoneAssumption == None \notin Nodes

-----------------------------------------------------------------------------
\* In direction 0 a list runs along a row of the matrix (y grows), in
\* direction 1 along a column (x grows).
Along(d, e)    == IF d = 0 THEN e[2] ELSE e[1]
SameLine(d, e) == {g \in Nodes : IF d = 0 THEN g[1] = e[1] ELSE g[2] = e[2]}

Counts(T, f) == [e \in Nodes |-> Cardinality({c \in T : Edge(f, c) = e})]

\* init_adj_nodes: the first node of a line is always on its list, as the
\* head from which walks start; the others if they have an edge.
InitAdjNodes(T, f) ==
  LET counted      == Projection(T, f)          \* the edges with a count
      linked(d, e) == e \in counted \/ Along(d, e) = 0
      before(d, e) == {g \in SameLine(d, e) : linked(d, g) /\ Along(d, g) < Along(d, e)}
      after(d, e)  == {g \in SameLine(d, e) : linked(d, g) /\ Along(d, g) > Along(d, e)}
      last(d, G)   == CHOOSE g \in G : \A h \in G : Along(d, h) <= Along(d, g)
      first(d, G)  == CHOOSE g \in G : \A h \in G : Along(d, h) >= Along(d, g)
  IN  [e \in Nodes |->
        [count |-> Counts(T, f)[e],
         prev  |-> [d \in Dirs |-> IF linked(d, e) /\ before(d, e) # {}
                                   THEN last(d, before(d, e)) ELSE None],
         next  |-> [d \in Dirs |-> IF linked(d, e) /\ after(d, e) # {}
                                   THEN first(d, after(d, e)) ELSE None]]]

\* Faulty: the back pointer of the next node is left as it was.  (Variants
\* introduced by "Faulty:" have a plausible bug.  No specification uses them;
\* each shows that some property can fail.)
UnlinkForward(P, e, d) ==
  IF Along(d, e) = 0 THEN P
  ELSE [g \in Nodes |->
         IF g = e THEN [P[g] EXCEPT !.prev[d] = None, !.next[d] = None]
         ELSE IF g = P[e].prev[d] THEN [P[g] EXCEPT !.next[d] = P[e].next[d]] ELSE P[g]]

\* Faulty: the list ends at the node before.
UnlinkRest(P, e, d) ==
  IF Along(d, e) = 0 THEN P
  ELSE [g \in Nodes |-> IF g = P[e].prev[d] THEN [P[g] EXCEPT !.next[d] = None] ELSE P[g]]

\* A node without edges leaves its lists, except as the head of one.
Unlink(P, e, d) ==
  LET p == P[e].prev[d]
      n == P[e].next[d]
  IN  IF Along(d, e) = 0 THEN P
      ELSE [g \in Nodes |->
             IF g = e THEN [P[g] EXCEPT !.prev[d] = None, !.next[d] = None]
             ELSE IF g = p THEN [P[g] EXCEPT !.next[d] = n]
             ELSE IF g = n THEN [P[g] EXCEPT !.prev[d] = p]
             ELSE P[g]]

DecAdjNode(P, e) ==
  LET Q == [P EXCEPT ![e].count = @ - 1]
  IN  IF Q[e].count = 0 THEN Unlink(Unlink(Q, e, 0), e, 1) ELSE Q

DelAdjNode(P, e) == DecAdjNode([P EXCEPT ![e].count = 1], e)

\* dec_adj_node once for every edge in the sequence es.
DecAll(P, es) ==
  LET step[i \in 0 .. Len(es)] == IF i = 0 THEN P ELSE DecAdjNode(step[i - 1], es[i])
  IN  step[Len(es)]

\* The edges a walk of the row lists finds.
Walk(P) ==
  LET from[e \in Nodes] ==
        {e} \cup IF P[e].next[0] = None THEN {} ELSE from[P[e].next[0]]
  IN  {e \in UNION {from[<<x, 0>>] : x \in Rows} : P[e].count > 0}

-----------------------------------------------------------------------------
CpuInit ==
  /\ input \in Inputs
  /\ cpuTdm = input
  /\ cpuIter = 0
  /\ cpuNoChange = 0
  /\ proj = [f \in Faces |-> InitAdjNodes(input, f)]
  /\ todo = {}

\* allowed_matching_edges finds nothing to remove ...
IdleFace ==
  /\ cpuNoChange < 3 /\ todo = {}
  /\ LET E == Walk(proj[CpuFace]) IN \A e \in E : SameScc(E, e[1], e[2])
  /\ cpuNoChange' = cpuNoChange + 1
  /\ cpuIter' = cpuIter + 1
  /\ UNCHANGED <<input, cpuTdm, proj, todo>>

\* ... or some edges, which are then removed one by one.
BeginFace ==
  /\ cpuNoChange < 3 /\ todo = {}
  /\ LET E == Walk(proj[CpuFace])
     IN  todo' = {e \in E : ~SameScc(E, e[1], e[2])}
  /\ todo' # {}
  /\ UNCHANGED <<input, cpuTdm, cpuIter, cpuNoChange, proj>>

\* The body of the loop over to_remove for one edge e of the current face.
RemoveEdge(e) ==
  /\ e \in todo
  /\ LET lost  == {c \in cpuTdm : Edge(CpuFace, c) = e}
         order == CHOOSE q \in [1 .. Cardinality(lost) -> lost] :
                    \A i, j \in DOMAIN q : i # j => q[i] # q[j]
         shown(f) == [i \in DOMAIN order |-> Edge(f, order[i])]
     IN  /\ cpuTdm'  = cpuTdm \ lost
         /\ proj' = [f \in Faces |-> IF f = CpuFace THEN DelAdjNode(proj[f], e)
                                     ELSE DecAll(proj[f], shown(f))]
  /\ todo' = todo \ {e}
  /\ IF todo' = {} THEN cpuNoChange' = 0 /\ cpuIter' = cpuIter + 1
                   ELSE UNCHANGED <<cpuNoChange, cpuIter>>
  /\ UNCHANGED input

CpuNext == IdleFace \/ BeginFace \/ \E e \in Nodes : RemoveEdge(e)

CpuSpec == CpuInit /\ [][CpuNext]_cpuVars

-----------------------------------------------------------------------------
\* The counts and lists maintained edge by edge are those init_adj_nodes
\* would build from the current instance: no count drifts, and no removal
\* order leaves a dead edge on a list or a live one off it.
ProjectionsCurrent == \A f \in Faces : proj[f] = InitAdjNodes(cpuTdm, f)

\* In the middle of a face the abstract step has already been taken.
CpuLoop == INSTANCE TdmSimplify WITH
  tdm      <- {c \in cpuTdm : Edge(CpuFace, c) \notin todo},
  iter     <- IF todo = {} THEN cpuIter ELSE cpuIter + 1,
  noChange <- IF todo = {} THEN cpuNoChange ELSE 0

\* The incremental version computes what simplifying whole faces computes.
CpuImplementsLoop == CpuLoop!Spec
=============================================================================
