----------------------------- MODULE MCPuzzles -----------------------------
(***************************************************************************)
(* What a worker has about single puzzles, for TLC: the cache of isomorphs,*)
(* TDM objects, the marks of simplified puzzles, the fitness by samples,   *)
(* and the enumerations with the operations on puzzles and permutations.   *)
(* While one part runs the others stand still.                             *)
(***************************************************************************)
EXTENDS IsoCache, TdmObject, PuzMarks, SubsetFitness

\* Puzzles of the cache are numbers; the last two are isomorphic.  The filter is so
\* small that it takes keys for others.
MCPuzzles == 1 .. 5
MCKey(p)  == IF p = 5 THEN 4 ELSE p
MCHashA(key) == key * 3
MCHashB(key) == key + 1

\* Two puzzles of four rows for the fitness, and, as StrongUsp wants all parts
\* too, largest sets of rows that are strong USPs.
FitPuzzle(a, b, c, d) ==
  [r \in 0 .. 3 |-> IF r = 0 THEN a ELSE IF r = 1 THEN b ELSE IF r = 2 THEN c ELSE d]
MCFitPuzzles == {FitPuzzle(<<1, 1>>, <<1, 2>>, <<2, 3>>, <<3, 2>>),
                 FitPuzzle(<<2, 2>>, <<1, 2>>, <<3, 1>>, <<3, 2>>)}
MCStrongUsp == UNION {SUBSET R : R \in {{<<1, 1>>, <<1, 2>>, <<2, 3>>, <<3, 2>>},
                                        {<<1, 1>>, <<1, 3>>, <<2, 3>>, <<3, 2>>},
                                        {<<2, 2>>, <<1, 2>>, <<3, 1>>}}}
MCSkip == {<<0, 1>>, <<1, 1>>, <<2, 1>>, <<3, 1>>, <<2, 2>>, <<3, 2>>}

VARIABLES puz, more, perm, part

enumVars == <<puz, more, perm>>

Enum == INSTANCE Enumerations WITH S <- 2, K <- 3, N <- 4, Elts <- 2

ASSUME EnumerationAssumption == Enum!EnumerationConstants

FirstSamples == {{0, 1}, {0, 1, 2}, 0 .. 3}

MCInit ==
  /\ part \in {"cache", "object", "marks", "fitness", "enumeration"}
  /\ CacheInit /\ ObjInit /\ MarkInit /\ FitInit /\ Enum!Init
  /\ part # "object"  => useGpu = [policy |-> "no", large |-> FALSE]
  /\ part # "fitness" => {subset[i] : i \in DOMAIN subset} = FirstSamples

MCNext ==
  /\ UNCHANGED part
  /\ \/ /\ part = "cache" /\ CacheNext
        /\ UNCHANGED <<objVars, markVars, fitVars, enumVars>>
     \/ /\ part = "object" /\ ObjNext
        /\ UNCHANGED <<cacheVars, markVars, fitVars, enumVars>>
     \/ /\ part = "marks" /\ MarkNext
        /\ UNCHANGED <<cacheVars, objVars, fitVars, enumVars>>
     \/ /\ part = "fitness" /\ FitNext
        /\ UNCHANGED <<cacheVars, objVars, markVars, enumVars>>
     \/ /\ part = "enumeration" /\ Enum!Step
        /\ UNCHANGED <<cacheVars, objVars, markVars, fitVars>>

MCSpec == MCInit /\ [][MCNext]_<<cacheVars, objVars, markVars, fitVars, enumVars, part>>

-----------------------------------------------------------------------------
\* Puzzles and permutations compute what they stand for (see Enumerations).
OperationsExact == part = "enumeration" => Enum!OperationsExact

\* next visits every puzzle and every permutation once (see Enumerations).
NextIsSuccessor == [][part = "enumeration" => Enum!SuccessorStep]_enumVars
=============================================================================
