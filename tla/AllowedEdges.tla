---------------------------- MODULE AllowedEdges ----------------------------
(***************************************************************************)
(* allowed_matching_edges: two depth-first searches over the edges of a    *)
(* face, the second over the reversed edges in the order of the first,     *)
(* that collect the edges which join two strongly connected components.    *)
(* TdmCpu takes the result; here is how it is computed.  The recursion of  *)
(* dfs_visit is a stack of frames, each a node and the part of its list    *)
(* still to walk.                                                          *)
(***************************************************************************)
EXTENDS Tdm, FiniteSetsExt, SequencesExt

VARIABLES
  edges,                   \* the projection M; the diagonal is always there
  dir,                     \* 0 along rows, then 1 along columns
  roots,                   \* order in which trees are started, the rest
  color, discovery,        \* nodes[].color, nodes[].discovery,
  finish,                  \* nodes[].finish
  time,                    \* dfs_time
  treeTime,                \* dfs_tree_time
  stack,                   \* frames of dfs_visit, innermost last
  newOrder,                \* new_order
  toRemove                 \* to_remove

dfsVars == <<edges, dir, roots, color, discovery, finish, time, treeTime, stack, newOrder,
             toRemove>>

AllWhite == [r \in Rows |-> "white"]
NoTimes  == [r \in Rows |-> 0]
Top      == stack[Len(stack)]

\* The other ends of node i's edges; its list has them in increasing order.
List(i)  == {j \in Rows : IF dir = 0 THEN <<i, j>> \in edges ELSE <<j, i>> \in edges}
Current  == Min(Top.rest)

\* dfs without an order starts from the last node.
DfsInit ==
  /\ \E E \in SUBSET {e \in Rows \X Rows : e[1] # e[2]} :
       edges = E \cup {<<r, r>> : r \in Rows}
  /\ dir = 0
  /\ roots = [i \in 1 .. S |-> S - i]
  /\ color = AllWhite
  /\ discovery = NoTimes /\ finish = NoTimes
  /\ time = 0 /\ treeTime = 0
  /\ stack = << >> /\ newOrder = << >> /\ toRemove = << >>

Enter(i) ==
  /\ time'  = time + 1
  /\ discovery' = [discovery EXCEPT ![i] = time + 1]
  /\ color' = [color EXCEPT ![i] = "gray"]

StartTree ==
  /\ stack = << >> /\ roots # << >>
  /\ roots' = Tail(roots)
  /\ IF color[Head(roots)] = "white"
     THEN /\ treeTime' = time
          /\ Enter(Head(roots))
          /\ stack' = << [node |-> Head(roots), rest |-> List(Head(roots))] >>
     ELSE UNCHANGED <<treeTime, time, color, discovery, stack>>
  /\ UNCHANGED <<edges, dir, finish, newOrder, toRemove>>

\* Faulty: the end of the last tree does not count.  (Variants introduced by
\* "Faulty:" have a plausible bug.  No specification uses them; each shows that
\* some property can fail.)
CollectEdgeStrict(i, j) ==
  IF dir = 1 /\ color[j] = "black" /\ finish[j] < treeTime
  THEN toRemove' = Append(toRemove, <<j, i>>)
  ELSE UNCHANGED toRemove

\* The edge is tested after the visit of its other end.
CollectEdge(i, j) ==
  IF dir = 1 /\ color[j] = "black" /\ finish[j] <= treeTime
  THEN toRemove' = Append(toRemove, <<j, i>>)
  ELSE UNCHANGED toRemove

\* Descend; the caller keeps the edge at the head of its list until it is back.
VisitWhite ==
  /\ stack # << >> /\ Top.rest # {} /\ color[Current] = "white"
  /\ Enter(Current)
  /\ stack' = Append(stack, [node |-> Current, rest |-> List(Current)])
  /\ UNCHANGED <<edges, dir, roots, finish, treeTime, newOrder, toRemove>>

NextEdge ==
  /\ stack # << >> /\ Top.rest # {} /\ color[Current] # "white"
  /\ stack' = [stack EXCEPT ![Len(stack)].rest = @ \ {Current}]
  /\ CollectEdge(Top.node, Current)
  /\ UNCHANGED <<edges, dir, roots, color, discovery, finish, time, treeTime, newOrder>>

Leave ==
  /\ stack # << >> /\ Top.rest = {}
  /\ color'  = [color EXCEPT ![Top.node] = "black"]
  /\ time'   = time + 1
  /\ finish' = [finish EXCEPT ![Top.node] = time + 1]
  /\ newOrder' = IF dir = 0 THEN Append(newOrder, Top.node) ELSE newOrder
  /\ stack' = Front(stack)
  /\ UNCHANGED <<edges, dir, roots, discovery, treeTime, toRemove>>

\* The second search takes the nodes in the reverse order of the first's ends.
Backward ==
  /\ dir = 0 /\ stack = << >> /\ roots = << >>
  /\ dir' = 1
  /\ roots' = Reverse(newOrder)
  /\ color' = AllWhite
  /\ discovery' = NoTimes /\ finish' = NoTimes
  /\ time' = 0 /\ treeTime' = 0
  /\ UNCHANGED <<edges, stack, newOrder, toRemove>>

DfsNext == StartTree \/ VisitWhite \/ NextEdge \/ Leave \/ Backward
DfsSpec == DfsInit /\ [][DfsNext]_dfsVars

Searched == dir = 1 /\ stack = << >> /\ roots = << >>
=============================================================================
