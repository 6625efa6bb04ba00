----------------------------- MODULE TdmObject -----------------------------
(***************************************************************************)
(* A TDM object: an instance that is computed when it is first needed and  *)
(* simplified on the CPU or on a device, where it may stay.  What it holds *)
(* is abstracted to which instance it is: "full" as computed, or "small"   *)
(* as simplified (the other modules show that there is one such result).   *)
(* Other threads use the devices too: whether MAX_ON_GPU of them do so at  *)
(* the moment is left open.                                                *)
(*                                                                         *)
(* The copy p of the puzzle is never marked as simplified, because no      *)
(* constructor of Puz copies the mark; the branch for it cannot be taken.  *)
(***************************************************************************)
EXTENDS Integers

CONSTANTS Full, Small     \* numbers of entries as computed, as simplified

ASSUME ObjectAssumption == Full \in Nat /\ Small \in 1 .. Full

VARIABLES
  useGpu,        \* use_gpu, and whether the puzzle reaches GPU_SIZE_THRESH
  tdm,           \* what the CPU's array holds
  computed, simplified, countResult,
  simplifies,    \* whether a call of simplify has returned (ghost)
  counted        \* the last answer of count, and what it should have been (ghost)

objVars == <<useGpu, tdm, computed, simplified, countResult, simplifies, counted>>

Policies == {"no", "allow", "force"}
NoCount == [is |-> 0, should |-> 0]
SizeOf(instance) == IF instance = "small" THEN Small ELSE Full

\* The constructor computes the instance unless a device may do so.
ObjInit ==
  /\ useGpu \in [policy : Policies, large : BOOLEAN]
  /\ computed = (useGpu.policy = "no")
  /\ tdm = IF computed THEN "full" ELSE "unset"
  /\ simplified = FALSE /\ countResult = 0
  /\ simplifies = FALSE /\ counted = NoCount

MayUseGpu == useGpu.policy = "force" \/ (useGpu.policy = "allow" /\ useGpu.large)
MustUseGpu == useGpu.policy = "force"

\* The outcomes of simplify: the array, computed, simplified, count_result.
State == [tdm |-> tdm, computed |-> computed, simplified |-> simplified, count |-> countResult]
OnCpu(s) == IF s.simplified THEN s
            ELSE [s EXCEPT !.tdm = "small", !.computed = TRUE, !.simplified = TRUE]
OnGpu(s, mode) ==
  IF mode = "eager"
  THEN [tdm |-> "small", computed |-> TRUE, simplified |-> TRUE, count |-> Small]
  ELSE [s EXCEPT !.count = Small]
Simplified(s, mode) ==
  IF s.simplified THEN {s}
  ELSE (IF mode # "slow" /\ MayUseGpu THEN {OnGpu(s, mode)} ELSE {})
       \cup (IF mode # "slow" /\ MustUseGpu THEN {} ELSE {OnCpu(s)})

Becomes(s) ==
  /\ tdm' = s.tdm /\ computed' = s.computed
  /\ simplified' = s.simplified /\ countResult' = s.count

Simplify(mode) ==
  /\ \E s \in Simplified(State, mode) : Becomes(s)
  /\ simplifies' = TRUE
  /\ UNCHANGED <<useGpu, counted>>

Answer(n) == counted' = [is |-> n, should |-> IF simplifies THEN Small ELSE Full]

\* count with unit weights and no list of entries.
CountKnown ==
  /\ countResult # 0
  /\ Answer(countResult)
  /\ UNCHANGED <<useGpu, tdm, computed, simplified, countResult, simplifies>>

Computed(s) == IF s.computed THEN s ELSE [s EXCEPT !.tdm = "full", !.computed = TRUE]

\* Faulty: the instance is counted as it is on the CPU.  (A variant with a
\* plausible bug; no specification uses it.)
RefreshedNever(s) == {s}

\* A device may hold the simplified instance: simplify again.
Refreshed(s) == IF s.count > 0 /\ ~s.simplified THEN Simplified(s, "eager") ELSE {s}

\* count with weights or a list, or without a known result: the entries are
\* enumerated.
CountEntries ==
  /\ \E s \in Refreshed(Computed(State)) : Becomes(s) /\ Answer(SizeOf(s.tdm))
  /\ UNCHANGED <<useGpu, simplifies>>

ObjNext ==
  \/ \E mode \in {"eager", "lazy", "slow"} : Simplify(mode)
  \/ CountKnown \/ CountEntries

ObjSpec == ObjInit /\ [][ObjNext]_objVars

-----------------------------------------------------------------------------
\* count answers for the instance as the calls so far have left it, wherever it
\* is: not the array's outdated copy, not a result from before.  And an object
\* that says it is simplified has it in the array (TDM::count, TDM::get).
CountHonest ==
  /\ counted.is = counted.should
  /\ simplified => computed /\ tdm = "small"
=============================================================================
