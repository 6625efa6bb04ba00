--------------------------- MODULE ExpandService ---------------------------
(***************************************************************************)
(* What ILSStage::expand_frontier_GPU promises its caller: the candidates  *)
(* of one call are evaluated, in any order and in groups, and handed to    *)
(* the frontier; the call returns when all of them have been, or early     *)
(* after a hit.  How slots, queues, coordinators and launches bring this   *)
(* about is the subject of GpuPipeline.tla, which implements it.           *)
(***************************************************************************)
EXTENDS Integers

CONSTANTS Callers,       \* OpenMP workers
          MaxAsked       \* bound: candidates per call

VARIABLES busy,          \* the caller is inside the call
          asked,         \* number of candidates of the call
          answered,      \* candidates whose own result was handed over
          hit            \* the call was stopped by a hit

svars == <<busy, asked, answered, hit>>

SInit ==
  /\ busy     = [c \in Callers |-> FALSE]
  /\ asked    = [c \in Callers |-> 0]
  /\ answered = [c \in Callers |-> {}]
  /\ hit      = [c \in Callers |-> FALSE]

Call(c) ==
  /\ ~busy[c]
  /\ busy' = [busy EXCEPT ![c] = TRUE]
  /\ \E n \in 1 .. MaxAsked : asked' = [asked EXCEPT ![c] = n]
  /\ answered' = [answered EXCEPT ![c] = {}]
  /\ hit'      = [hit EXCEPT ![c] = FALSE]

Answer(c) ==
  /\ busy[c] /\ ~hit[c]
  /\ \E new \in SUBSET ((1 .. asked[c]) \ answered[c]) :
       new # {} /\ answered' = [answered EXCEPT ![c] = @ \cup new]
  /\ \E h \in BOOLEAN : hit' = [hit EXCEPT ![c] = h]
  /\ UNCHANGED <<busy, asked>>

Finish(c) ==
  /\ busy[c] /\ (hit[c] \/ answered[c] = 1 .. asked[c])
  /\ busy' = [busy EXCEPT ![c] = FALSE]
  /\ UNCHANGED <<asked, answered, hit>>

SNext == \E c \in Callers : Call(c) \/ Answer(c) \/ Finish(c)

SSpec == SInit /\ [][SNext]_svars
=============================================================================
