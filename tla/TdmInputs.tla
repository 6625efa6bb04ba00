----------------------------- MODULE TdmInputs -----------------------------
(***************************************************************************)
(* What the versions of the simplification that take one puzzle at a time  *)
(* are given: its instance, as TDM::compute has made it.                   *)
(***************************************************************************)
EXTENDS Tdm

CONSTANT Inputs      \* the instances to simplify

\* A witness takes two different rows: the diagonal is always there.
ASSUME InputsAssumption == \A T \in Inputs : Diagonal \subseteq T /\ T \subseteq Cells

VARIABLE input       \* the instance as computed from the puzzle (ghost)
=============================================================================
