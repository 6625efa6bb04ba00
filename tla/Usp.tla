-------------------------------- MODULE Usp --------------------------------
(***************************************************************************)
(* What the search looks for: puzzles that no three permutations of their  *)
(* rows but equal ones solve.  A puzzle is a function from rows 0 .. s - 1 *)
(* to functions from columns 1 .. k to 1 .. 3.                             *)
(***************************************************************************)
EXTENDS Tdm

Height(p) == Cardinality(DOMAIN p)
RowsOf(s) == 0 .. (s - 1)
Values    == 1 .. 3

\* The definition.  Up to renaming rows the first permutation is the identity.
PermsOf(s) == {f \in [RowsOf(s) -> RowsOf(s)] : \A i, j \in RowsOf(s) : f[i] = f[j] => i = j}
Ident(f)   == \A i \in DOMAIN f : f[i] = i
IsUSP(p, strong) ==
  \A f, g \in PermsOf(Height(p)) :
    \/ Ident(f) /\ Ident(g)
    \/ \E i \in DOMAIN p : IsWitness(p, <<i, f[i], g[i]>>, strong)

\* TDM::compute for any height (Compute of Tdm has S rows).
Instance(p, strong) ==
  {c \in (DOMAIN p) \X (DOMAIN p) \X (DOMAIN p) : ~IsWitness(p, c, strong)}
=============================================================================
