--------------------------- MODULE MCStagedSearch ---------------------------
(***************************************************************************)
(* StagedSearch on two names: the one-row puzzles all fit perfectly, as    *)
(* they do in the code; of the higher ones only those named a.             *)
(***************************************************************************)
EXTENDS StagedSearch

CONSTANTS a, b

PerfectPuz ==
  {p \in Puz : p \in Own(1) \/ (p.rows <= Target /\ p.name = a)}
=============================================================================
