------------------------------ MODULE MCQueues ------------------------------
(***************************************************************************)
(* The two bounded queues of the program for TLC: the work queues of a     *)
(* stage, and the ring of slot ids of the GPU pipeline.  They never meet:  *)
(* while one part runs the other stands still.                             *)
(***************************************************************************)
EXTENDS PuzQueue, TaskIdQueue

VARIABLE part   \* the part that runs

ASSUME RingAssumption == TaskIdQueueConstants

MCInit ==
  /\ Init /\ RingInit
  /\ part \in {"work", "ring"}
  /\ part = "ring" => work[<<0, 0>>].best = Key(0, 0)

MCNext ==
  /\ UNCHANGED part
  /\ \/ part = "work" /\ Next /\ UNCHANGED ringVars
     \/ part = "ring" /\ RingNext /\ UNCHANGED vars

MCSpec == MCInit /\ [][MCNext]_<<vars, ringVars, part>>
=============================================================================
