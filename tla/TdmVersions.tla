---------------------------- MODULE TdmVersions ----------------------------
(***************************************************************************)
(* The versions of the simplification side by side: the loop that all of   *)
(* them follow, simplify_cpu, simplify_cpu_slow, and the device.           *)
(***************************************************************************)
EXTENDS TdmSimplify, TdmCpu, TdmSlow, TdmGpu

CpuDone  == cpuNoChange = 3
SlowDone == slowNoChange = 3

\* The test suite's promise for every puzzle: the three versions end with the same
\* instance, and the device returns the number of its entries.  No version simplifies
\* more than 3 * s * s faces, the cap that is said to guarantee convergence, so it
\* never cuts a trial of the device short.  What simplify_cpu maintains edge by edge
\* is what it would build from the instance it has reached.
VersionsAgree ==
  /\ Done /\ CpuDone  => cpuTdm = tdm
  /\ Done /\ SlowDone => slowTdm = tdm
  /\ Done /\ host = "done" =>
       \A t \in 1 .. trials : batch[t] = input => /\ devTDM[t] = tdm
                                                 /\ devResult[t] = Cardinality(tdm)
  /\ \A n \in {iter, cpuIter, slowIter} : n <= 3 * S * S
  /\ host \in {"sum", "done"} => Live = {}
  /\ cpuIter > 0 /\ slowIter = 0 => ProjectionsCurrent

\* simplify_cpu, with the counts and lists it maintains, and simplify_cpu_slow, edge
\* by edge, go through the loop of TdmSimplify.
VersionsImplementLoop == CpuImplementsLoop /\ SlowImplementsLoop
=============================================================================
