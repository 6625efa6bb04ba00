------------------------------- MODULE TdmGpu -------------------------------
(***************************************************************************)
(* outer_Kernel_impl: a batch of puzzles simplified together on a device.  *)
(* The kernels of a launch run one after the other on a stream, each over  *)
(* all trials of the batch; a trial that has settled is skipped by every   *)
(* kernel while the others go on.  The host stops when no trial is active  *)
(* or at its cap on iterations.  The device buffers are allocated once and *)
(* hold the remains of the previous launch when the next one starts.       *)
(***************************************************************************)
EXTENDS Tdm, FiniteSetsExt

CONSTANTS BatchInputs,   \* the instances to simplify
          MaxTrials,     \* capacity of the buffers
          MaxLaunches    \* bound: launches on the same buffers

ASSUME BatchAssumption ==
  /\ BatchInputs \subseteq SUBSET Cells
  /\ MaxTrials \in Nat \ {0}
  /\ MaxLaunches \in Nat

Slots == 1 .. MaxTrials

VARIABLES
  batch,                               \* instances of the batch (ghost)
  trials, host, gpuIter, launches,     \* the host
  devTDM, devProjection, devRanges,    \* dev_TDM, dev_projection, dev_ranges
  devChanged, devNoChange, devActive,  \* dev_changed, dev_no_change, dev_active_count
  devResult                            \* dev_result

gpuVars == <<batch, trials, host, gpuIter, launches, devTDM, devProjection, devRanges,
             devChanged, devNoChange, devActive, devResult>>

GpuFace == gpuIter % 3

Live == {t \in 1 .. trials : devNoChange[t] < 3}

\* Faulty: a lower cap.  (Variants introduced by "Faulty:" have a plausible bug.
\* No specification uses them; each shows that some property can fail.)
MaxIterLow == S + 1

MaxIter == 3 * S * S

GpuInit ==
  /\ batch = << >> /\ trials = 0 /\ host = "idle" /\ gpuIter = 0 /\ launches = 0
  /\ devTDM        = [t \in Slots |-> {}]
  /\ devProjection = [t \in Slots |-> {}]
  /\ devRanges     = [t \in Slots |-> [r \in Rows |-> 0]]
  /\ devChanged    = [t \in Slots |-> FALSE]
  /\ devNoChange   = [t \in Slots |-> 0]
  /\ devActive     = 0
  /\ devResult     = [t \in Slots |-> 0]

-----------------------------------------------------------------------------
\* A kernel writes the places of some trials and leaves the rest of a buffer.
Write(places, buffer) ==
  [t \in Slots |-> IF t \in DOMAIN places THEN places[t] ELSE buffer[t]]

\* Faulty: dev_no_change is not reset.
LaunchKeepingCounts(n, given) ==
  /\ host \in {"idle", "done"} /\ launches < MaxLaunches
  /\ batch' = given
  /\ trials' = n
  /\ devTDM' = Write(given, devTDM)
  /\ host' = "project" /\ gpuIter' = 0 /\ launches' = launches + 1
  /\ UNCHANGED <<devProjection, devRanges, devChanged, devNoChange, devActive, devResult>>

\* computeTDM and dev_no_change reset, for n puzzles.
Launch(n, given) ==
  /\ host \in {"idle", "done"} /\ launches < MaxLaunches
  /\ batch' = given
  /\ trials' = n
  /\ devTDM' = Write(given, devTDM)
  /\ devNoChange' = Write([t \in 1 .. n |-> 0], devNoChange)
  /\ host' = "project" /\ gpuIter' = 0 /\ launches' = launches + 1
  /\ UNCHANGED <<devProjection, devRanges, devChanged, devActive, devResult>>

\* The per-iteration buffers are cleared, then calc_projection runs.
CalcProjection ==
  /\ host = "project"
  /\ devProjection' = Write([t \in 1 .. trials |->
                               IF t \in Live THEN Projection(devTDM[t], GpuFace) ELSE {}],
                            devProjection)
  /\ devRanges'  = Write([t \in 1 .. trials |-> [r \in Rows |-> 0]], devRanges)
  /\ devChanged' = Write([t \in 1 .. trials |-> FALSE], devChanged)
  /\ devActive'  = 0
  /\ host' = "closure"
  /\ UNCHANGED <<batch, trials, gpuIter, launches, devTDM, devNoChange, devResult>>

\* Warshall's closure, row by row over the intermediate node k.
Warshall(E) ==
  LET via[k \in 0 .. S] ==
        IF k = 0 THEN E \cup {<<r, r>> : r \in Rows}
        ELSE via[k - 1] \cup {e \in Rows \X Rows : /\ <<e[1], k - 1>> \in via[k - 1]
                                                   /\ <<k - 1, e[2]>> \in via[k - 1]}
  IN  via

\* Faulty: paths through the last row are missed.
ClosureShort(E) == Warshall(E)[S - 1]

Closure(E) == Warshall(E)[S]

\* The least row of a row's component names the component.
Ranges(E) ==
  LET C == Closure(E)
  IN  [u \in Rows |-> Min({v \in Rows : <<u, v>> \in C /\ <<v, u>> \in C})]

TransitiveClosure ==
  /\ host = "closure"
  /\ devRanges' = Write([t \in Live |-> Ranges(devProjection[t])], devRanges)
  /\ host' = "modify"
  /\ UNCHANGED <<batch, trials, gpuIter, launches, devTDM, devProjection, devChanged,
                 devNoChange, devActive, devResult>>

\* modify_TDM_Kernel and its fast path for face 2.  The entries are tested
\* against ranges that do not change meanwhile, so the blocks commute.
Deleted(t) ==
  {c \in devTDM[t] : devRanges[t][Edge(GpuFace, c)[1]] # devRanges[t][Edge(GpuFace, c)[2]]}

ModifyTDM ==
  /\ host = "modify"
  /\ devTDM'     = Write([t \in Live |-> devTDM[t] \ Deleted(t)], devTDM)
  /\ devChanged' = Write([t \in Live |-> devChanged[t] \/ Deleted(t) # {}], devChanged)
  /\ host' = "update"
  /\ UNCHANGED <<batch, trials, gpuIter, launches, devProjection, devRanges, devNoChange,
                 devActive, devResult>>

\* update_no_change, the copy of active_count and the host's loop condition.
UpdateNoChange ==
  /\ host = "update"
  /\ devNoChange' = Write([t \in Live |-> IF devChanged[t] THEN 0 ELSE devNoChange[t] + 1],
                          devNoChange)
  /\ devActive' = devActive + Cardinality({t \in Live : devNoChange'[t] < 3})
  /\ gpuIter' = gpuIter + 1
  /\ host' = IF devActive' = 0 \/ gpuIter' = MaxIter THEN "sum" ELSE "project"
  /\ UNCHANGED <<batch, trials, launches, devTDM, devProjection, devRanges, devChanged,
                 devResult>>

SumEntries ==
  /\ host = "sum"
  /\ devResult' = Write([t \in 1 .. trials |-> Cardinality(devTDM[t])], devResult)
  /\ host' = "done"
  /\ UNCHANGED <<batch, trials, gpuIter, launches, devTDM, devProjection, devRanges,
                 devChanged, devNoChange, devActive>>

GpuStep == CalcProjection \/ TransitiveClosure \/ ModifyTDM \/ UpdateNoChange \/ SumEntries

GpuNext ==
  \/ \E n \in Slots : \E given \in [1 .. n -> BatchInputs] : Launch(n, given)
  \/ GpuStep

GpuSpec == GpuInit /\ [][GpuNext]_gpuVars

-----------------------------------------------------------------------------
\* Every trial gets the size of what the loop over the faces makes of its own
\* instance, and no face can simplify that: neither the other trials of the batch,
\* nor how long they take, nor what the previous launch left in the buffers show.
TrialsExact ==
  host = "done" => \A t \in 1 .. trials :
    LET T == AfterFaces(batch[t], 3 * S * S)
    IN  Stable(T) /\ devResult[t] = Cardinality(T)
=============================================================================
