----------------------------- MODULE FbThreads -----------------------------
(***************************************************************************)
(* The two searches of a round of fb_kern, thread by thread.  Both are     *)
(* calls of forward_reach, whose __shared__ flag term is one variable of   *)
(* the block: thread 0 sets it to false at the head of the second call,    *)
(* and no barrier keeps the others from still having to read it at the end *)
(* of the first.  All barriers of a block are one barrier: it opens when   *)
(* every thread waits at one, wherever in the code.                        *)
(*                                                                         *)
(* TdmGpuBase takes the searches to end as they do when no thread is that  *)
(* late (threads of one warp in lockstep); a block has one thread per row, *)
(* up to MAX_S = 500, so up to 16 warps.  A round is entered with every    *)
(* node in one range, as the second round is.                              *)
(***************************************************************************)
EXTENDS Tdm

VARIABLES
  edges,       \* the face
  visited,     \* [{"F", "B"} -> SUBSET Rows]: d_visitedF, d_visitedB
  term,        \* term of forward_reach
  call, pc,    \* the search a thread is in, and where
  waiting      \* threads at a barrier

vars == <<edges, visited, term, call, pc, waiting>>

Calls  == {"F", "B"}
Points == {"enter", "while", "reset", "body", "out"}
Along(c, u) == {v \in Rows \ {u} : (IF c = "F" THEN <<u, v>> ELSE <<v, u>>) \in edges}

Init ==
  /\ \E E \in SUBSET {e \in Rows \X Rows : e[1] # e[2]} :
       edges = E \cup {<<r, r>> : r \in Rows}
  /\ \E pivot \in Rows : visited = [c \in Calls |-> {pivot}]
  /\ term = TRUE
  /\ call = [u \in Rows |-> "F"]
  /\ pc = [u \in Rows |-> "enter"]
  /\ waiting = {}

Running(u, p) == u \notin waiting /\ pc[u] = p

\* Thread u goes on to p after the barrier.
WaitThen(u, p) ==
  /\ pc' = [pc EXCEPT ![u] = p]
  /\ waiting' = waiting \cup {u}

Enter(u) ==
  /\ Running(u, "enter")
  /\ term' = IF u = 0 THEN FALSE ELSE term
  /\ WaitThen(u, "while")
  /\ UNCHANGED <<edges, visited, call>>

\* The condition of the loop; a thread that leaves the second search goes on to
\* trim, which begins with a barrier.
While(u) ==
  /\ Running(u, "while")
  /\ IF ~term
     THEN WaitThen(u, "reset") /\ UNCHANGED call
     ELSE IF call[u] = "F"
     THEN /\ call' = [call EXCEPT ![u] = "B"]
          /\ pc' = [pc EXCEPT ![u] = "enter"]
          /\ UNCHANGED waiting
     ELSE WaitThen(u, "out") /\ UNCHANGED call
  /\ UNCHANGED <<edges, visited, term>>

Reset(u) ==
  /\ Running(u, "reset")
  /\ term' = IF u = 0 THEN TRUE ELSE term
  /\ WaitThen(u, "body")
  /\ UNCHANGED <<edges, visited, call>>

Body(u) ==
  /\ Running(u, "body")
  /\ LET new == IF u \in visited[call[u]] THEN Along(call[u], u) \ visited[call[u]] ELSE {}
     IN  /\ visited' = [visited EXCEPT ![call[u]] = @ \cup new]
         /\ term' = (term /\ new = {})
  /\ WaitThen(u, "while")
  /\ UNCHANGED <<edges, call>>

\* The barrier opens.  Once a thread has left the searches and all wait, the
\* others either have left too or are lost among the barriers of trim.
Barrier ==
  /\ waiting = Rows
  /\ \A u \in Rows : pc[u] # "out"
  /\ waiting' = {}
  /\ UNCHANGED <<edges, visited, term, call, pc>>

Next == (\E u \in Rows : Enter(u) \/ While(u) \/ Reset(u) \/ Body(u)) \/ Barrier
Spec == Init /\ [][Next]_vars

-----------------------------------------------------------------------------
\* Simplification must not change what the puzzle is: when every thread has left
\* the searches, they have not told apart two nodes of one component, whose
\* edges modify_TDM would then delete.
ComponentsKept ==
  (\A u \in Rows : pc[u] = "out") =>
    \A u, v \in Rows : SameScc(edges, u, v) =>
      \A c \in Calls : u \in visited[c] <=> v \in visited[c]
=============================================================================
