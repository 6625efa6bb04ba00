------------------------------- MODULE MCTdm -------------------------------
(***************************************************************************)
(* The versions of the simplification for TLC.  One part runs the loop of  *)
(* TdmSimplify, simplify_cpu, simplify_cpu_slow and a launch of the device *)
(* with one trial, one after the other, on the instance of every small     *)
(* puzzle; one part launches batches, twice, on the same buffers, and one  *)
(* part calls the baseline's device code.  While one part runs the others  *)
(* stand still.                                                            *)
(***************************************************************************)
EXTENDS TdmVersions, TdmGpuBase

CONSTANTS K, Strong      \* width of the puzzles; strong or plain USPs

\* (TLC computes a definition without parameters once, but not the one that a
\* configuration puts in the place of a constant.)
SmallInstances == Instances(K, Strong)
MCInputs == SmallInstances

\* For the batches, one instance of each size.
MCBatchInputs ==
  {CHOOSE T \in MCInputs : Cardinality(T) = n : n \in {Cardinality(T) : T \in MCInputs}}

VARIABLE part

loopVars == <<vars, cpuVars, slowVars>>
allVars  == <<loopVars, gpuVars, baseVars, part>>

MCInit ==
  /\ Init /\ CpuInit /\ SlowInit /\ GpuInit /\ BaseInit
  /\ part \in {"versions", "batch", "base"}
  /\ part = "batch" => input = CHOOSE T \in Inputs : TRUE

NextVersion ==
  \/ (Next /\ UNCHANGED <<cpuVars, slowVars, gpuVars>>)
  \/ (Done /\ CpuNext /\ UNCHANGED <<vars, slowVars, gpuVars>>)
  \/ (CpuDone /\ SlowNext /\ UNCHANGED <<vars, cpuVars, gpuVars>>)
  \/ (SlowDone /\ launches = 0 /\ Launch(1, <<input>>) /\ UNCHANGED loopVars)
  \/ (GpuStep /\ UNCHANGED loopVars)

NextBatch ==
  \/ \E n \in Slots : \E given \in [1 .. n -> MCBatchInputs] : Launch(n, given)
  \/ GpuStep

MCNext ==
  /\ UNCHANGED part
  /\ \/ part = "versions" /\ NextVersion /\ UNCHANGED baseVars
     \/ part = "batch" /\ NextBatch /\ UNCHANGED <<loopVars, baseVars>>
     \/ part = "base" /\ BaseNext /\ UNCHANGED <<loopVars, gpuVars>>

\* The only states without a step of their part are those after the last.
Finished ==
  /\ \/ host = "done" /\ launches = (IF part = "batch" THEN 2 ELSE 1)
     \/ baseHost = "done"
  /\ UNCHANGED allVars

MCSpec == MCInit /\ [][MCNext \/ Finished]_allVars

=============================================================================
