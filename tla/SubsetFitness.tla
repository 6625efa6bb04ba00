--------------------------- MODULE SubsetFitness ---------------------------
(***************************************************************************)
(* AdaptiveSubsetFitTester and CachedAdaptiveSubsetFitTester: the fitness  *)
(* of a puzzle is the number of sampled sets of rows that form a strong    *)
(* USP.  A sample that is nearly always one is raised (a row is added), a  *)
(* sample that hardly ever is one is lowered.  What is known of a sample   *)
(* tells something of its subsets or of its supersets, and the cached      *)
(* version also keeps what it knows from call to call: the answer for each *)
(* sample and, for each entry of the puzzle and each value, the answer     *)
(* with that value in that entry (the derivatives).                        *)
(*                                                                         *)
(* When a sample is raised or lowered depends on averages of past answers. *)
(* Any of them may be, at any time, here.                                  *)
(***************************************************************************)
EXTENDS Integers, FiniteSetsExt, SequencesExt

CONSTANTS
  S, K,          \* height and width of the puzzles
  Count,         \* number of samples
  FitPuzzles,    \* the puzzles of the calls
  StrongUsp,     \* the sets of rows that are a strong USP
  Skip           \* skip: places whose derivatives are not wanted

RowIds  == 0 .. (S - 1)
Columns == 1 .. K
Values  == 1 .. 3
RowValues == [Columns -> Values]
Samples == {X \in SUBSET RowIds : Cardinality(X) >= 2}

\* What the constants must satisfy.
FitnessConstants ==
  /\ S \in Nat /\ S >= 2 /\ K \in Nat
  /\ Count \in 1 .. Cardinality(Samples)
  /\ FitPuzzles \subseteq [RowIds -> RowValues]
  /\ Skip \subseteq RowIds \X Columns
  /\ \A R \in StrongUsp : \A Q \in SUBSET R : Q \in StrongUsp   \* a part of a USP is one

ASSUME FitnessAssumption == FitnessConstants

VARIABLES
  subset, neighbors,            \* of each sample
  fitnessOf, dervsValid, dervsOf, \* fitness_cache, dervs_valid, dervs_cache of each
  cachedP, fitness, dervs,      \* cached_p, fitness_cache, dervs
  fitAnswer                     \* the last call and its result (ghost)

fitVars == <<subset, neighbors, fitnessOf, dervsValid, dervsOf, cachedP, fitness, dervs, fitAnswer>>

Ids     == 1 .. Count
Entries == {e \in RowIds \X Columns \X Values : <<e[1], e[2]>> \notin Skip}
Unknown == -1
NoDervs == [e \in Entries |-> Unknown]

\* samplecmp gives the sign of a neighbour: j is a subset of i, or -j a superset.
Neighbor(i, j) ==
  IF i = j \/ subset[i] = subset[j] THEN {}
  ELSE IF subset[j] \subseteq subset[i] THEN {j}
  ELSE IF subset[i] \subseteq subset[j] THEN {-j} ELSE {}

\* The constructor: the full set, then random samples, the large ones first.
FitInit ==
  /\ subset \in {q \in [Ids -> Samples] :
       /\ q[1] = RowIds
       /\ \A i, j \in Ids : i < j => q[i] # q[j] /\ Cardinality(q[i]) >= Cardinality(q[j])}
  /\ neighbors = [i \in Ids |-> UNION {Neighbor(i, j) : j \in Ids}]
  /\ fitnessOf = [i \in Ids |-> Unknown]
  /\ dervsValid = [i \in Ids |-> FALSE]
  /\ dervsOf = [i \in Ids |-> NoDervs]
  /\ cachedP = [r \in RowIds |-> [c \in Columns |-> 1]]
  /\ fitness = Unknown
  /\ dervs = [e \in Entries |-> 0]
  /\ fitAnswer = [call |-> "none"]

-----------------------------------------------------------------------------
(* updateSubsets: what it does for one sample.                             *)

\* The row to remove or to add: the first, cyclically, that gives a new sample,
\* from a random start that is never the last of several.
Starts(R) == IF Cardinality(R) = 1 THEN R ELSE R \ {Max(R)}
Fresh(X)  == \A j \in Ids : subset[j] # X
FirstFrom(start, R) ==
  CHOOSE r \in R : \A q \in R : (r - start + S) % S <= (q - start + S) % S
Flip(i, r) == IF r \in subset[i] THEN subset[i] \ {r} ELSE subset[i] \cup {r}
RowChoices(i, R) ==
  LET free == {r \in R : Fresh(Flip(i, r))}
  IN  IF free = {} THEN {} ELSE {FirstFrom(start, free) : start \in Starts(R)}

\* Faulty: the edges of i with the others stay.  (Variants introduced by
\* "Faulty:" have a plausible bug.  No specification uses them; each shows that
\* some property can fail.)
RewireOnly(i) ==
  [j \in Ids |-> IF j = i THEN UNION {Neighbor(i, q)' : q \in Ids}
                 ELSE neighbors[j] \cup Neighbor(j, i)']

\* Old edges of i are deleted, new ones added.
Rewire(i) ==
  [j \in Ids |-> IF j = i THEN UNION {Neighbor(i, q)' : q \in Ids}
                 ELSE (neighbors[j] \ {i, -i}) \cup Neighbor(j, i)']

\* Faulty: the answer for the old rows is kept.
ForgetDervs(i) ==
  /\ UNCHANGED fitnessOf
  /\ dervsValid' = [dervsValid EXCEPT ![i] = FALSE]
  /\ dervsOf' = [dervsOf EXCEPT ![i] = NoDervs]

\* Nothing is known of the new set of rows.
Forget(i) ==
  /\ fitnessOf' = [fitnessOf EXCEPT ![i] = Unknown]
  /\ dervsValid' = [dervsValid EXCEPT ![i] = FALSE]
  /\ dervsOf' = [dervsOf EXCEPT ![i] = NoDervs]

Become(i, X) ==
  /\ subset' = [subset EXCEPT ![i] = X]
  /\ neighbors' = Rewire(i)
  /\ Forget(i)
  /\ UNCHANGED <<cachedP, fitness, dervs>>
  /\ fitAnswer' = [call |-> "none"]

\* lower, when it succeeds: not the full set, not below two rows.
Lower(i) ==
  /\ Cardinality(subset[i]) \notin {2, S}
  /\ \E r \in RowChoices(i, subset[i]) : Become(i, Flip(i, r))

\* raise, when it succeeds.
Raise(i) ==
  /\ Cardinality(subset[i]) # S
  /\ \E r \in RowChoices(i, RowIds \ subset[i]) : Become(i, Flip(i, r))

-----------------------------------------------------------------------------
(* getFit and getFitDerv of the cached version.                            *)

\* getMinor and checkStrongUSP
Check(p, X) ==
  IF Cardinality({p[r] : r \in X}) = Cardinality(X) /\ {p[r] : r \in X} \in StrongUsp
  THEN 1 ELSE 0
Put(p, e) == [p EXCEPT ![e[1]][e[2]] = e[3]]

\* invalidateCache: a sample with a changed row loses what was known.
ChangedRows(p) == {r \in RowIds : p[r] # cachedP[r]}
Outdated(p)    == {i \in Ids : subset[i] \cap ChangedRows(p) # {}}
MustUpdate(p, doDerv) ==
  \/ ChangedRows(p) # {} \/ fitness = Unknown
  \/ \E i \in Ids : fitnessOf[i] = Unknown \/ (doDerv /\ ~dervsValid[i])

\* updateFit visits the samples in order.  A sample's own answers are looked up
\* or calculated; a derivative with the present value is the answer itself.
OwnFit(i, p, known) == IF known[i] # Unknown THEN known[i] ELSE Check(p, subset[i])
OwnDervs(i, p, fit, known) ==
  [e \in Entries |->
     IF e[1] \notin subset[i] \/ known[i][e] # Unknown THEN known[i][e]
     ELSE IF p[e[1]][e[2]] = e[3] THEN fit
     ELSE Check(Put(p, e), subset[i])]

\* A strong USP makes its subsets one; what is none makes its supersets none.
Implied(i, j, value) == value = (IF j \in neighbors[i] THEN 1 ELSE 0)
IsNeighbor(i, j)     == j \in neighbors[i] \/ -j \in neighbors[i]
Spread(i, fit, known) ==
  [j \in Ids |-> IF IsNeighbor(i, j) /\ known[j] = Unknown /\ Implied(i, j, fit)
                 THEN fit ELSE known[j]]
SpreadDervs(i, own, known) ==
  [j \in Ids |->
     IF ~IsNeighbor(i, j) THEN known[j]
     ELSE [e \in Entries |->
             IF /\ e[1] \in subset[i] \cap subset[j]
                /\ known[j][e] = Unknown /\ Implied(i, j, own[e])
             THEN own[e] ELSE known[j][e]]]

Visit(i, p, doDerv, known) ==
  LET fit == OwnFit(i, p, known.fit)
      own == IF doDerv THEN OwnDervs(i, p, fit, known.dervs) ELSE known.dervs[i]
  IN  [fit   |-> Spread(i, fit, [known.fit EXCEPT ![i] = fit]),
       dervs |-> IF doDerv THEN SpreadDervs(i, own, [known.dervs EXCEPT ![i] = own])
                 ELSE known.dervs]

\* Where the row is not in the sample, a change of it changes nothing.
Sum(f)       == MapThenSumSet(LAMBDA i : f[i], Ids)
DervAt(k, e) == Sum([i \in Ids |-> IF e[1] \in subset[i] THEN k.dervs[i][e] ELSE k.fit[i]])

UpdateFit(p, doDerv) ==
  LET start == [fit   |-> [i \in Ids |-> IF i \in Outdated(p) THEN Unknown ELSE fitnessOf[i]],
                dervs |-> [i \in Ids |-> IF i \in Outdated(p) THEN NoDervs ELSE dervsOf[i]]]
      known == FoldLeft(LAMBDA k, i : Visit(i, p, doDerv, k), start, [i \in Ids |-> i])
  IN  /\ fitnessOf' = known.fit /\ dervsOf' = known.dervs
      /\ dervsValid' = [i \in Ids |-> doDerv \/ (dervsValid[i] /\ i \notin Outdated(p))]
      /\ fitness' = Sum(known.fit)
      /\ dervs' = IF doDerv THEN [e \in Entries |-> DervAt(known, e) - Sum(known.fit)] ELSE dervs
      /\ cachedP' = p

Refresh(p, doDerv) ==
  IF MustUpdate(p, doDerv) THEN UpdateFit(p, doDerv)
  ELSE UNCHANGED <<fitnessOf, dervsOf, dervsValid, fitness, dervs, cachedP>>

GetFit(p) ==
  /\ Refresh(p, FALSE)
  /\ fitAnswer' = [call |-> "getFit", p |-> p, result |-> fitness']
  /\ UNCHANGED <<subset, neighbors>>

\* One entry's derivative is returned; all of them are the same call.
GetFitDerv(p) ==
  /\ Refresh(p, TRUE)
  /\ fitAnswer' = [call |-> "getFitDerv", p |-> p, result |-> dervs']
  /\ UNCHANGED <<subset, neighbors>>

FitNext ==
  \/ \E i \in Ids : Lower(i) \/ Raise(i)
  \/ \E p \in FitPuzzles : GetFit(p) \/ GetFitDerv(p)

FitSpec == FitInit /\ [][FitNext]_fitVars

-----------------------------------------------------------------------------
(* getFit of AdaptiveSubsetFitTester: no cache, but weights, and samples    *)
(* that an earlier one of the same call covers.                            *)

Weight(i, useExp) == IF useExp THEN 2 ^ (Cardinality(subset[i]) - 1) + 1 ELSE 1

Covers(i, value) == {j \in Ids : (IF value = 1 THEN j ELSE -j) \in neighbors[i]}
AdaptiveFit(p, useExp) ==
  LET visit(done, i) ==
        IF i \in done.covered THEN done
        ELSE LET value == Check(p, subset[i])
                 new   == ({i} \cup Covers(i, value)) \ done.covered
             IN  [covered |-> done.covered \cup new,
                  fit |-> done.fit
                          + value * MapThenSumSet(LAMBDA j : Weight(j, useExp), new)]
  IN  FoldLeft(visit, [covered |-> {}, fit |-> 0], [i \in Ids |-> i]).fit

-----------------------------------------------------------------------------
\* Through all raises and lowers the samples stay distinct, with two rows or
\* more, the full set among them, and each knows exactly the samples it contains
\* and those that contain it (what verifyCache asserts, and the converse).
GraphExact ==
  /\ subset[1] = RowIds
  /\ \A i, j \in Ids : i # j => subset[i] # subset[j]
  /\ \A i \in Ids : subset[i] \in Samples /\ neighbors[i] = UNION {Neighbor(i, j) : j \in Ids}

TrueFit(p) == MapThenSumSet(LAMBDA i : Check(p, subset[i]), Ids)

\* Every answer is the one a tester without a cache would give for this puzzle
\* and these samples, whatever calls, changes of rows and changes of samples came
\* before, and also for the shortcut of the tester that keeps nothing.
AnswersExact ==
  /\ fitAnswer.call = "getFit" => fitAnswer.result = TrueFit(fitAnswer.p)
  /\ fitAnswer.call = "getFitDerv" =>
       \A e \in Entries : fitAnswer.result[e] = TrueFit(Put(fitAnswer.p, e)) - TrueFit(fitAnswer.p)
  /\ fitAnswer.call = "none" =>
       \A p \in FitPuzzles, useExp \in BOOLEAN :
         AdaptiveFit(p, useExp)
           = MapThenSumSet(LAMBDA i : Check(p, subset[i]) * Weight(i, useExp), Ids)
=============================================================================
